-------------------------- MODULE StreamRepairProofs --------------------------
(***************************************************************************)
(* The safety properties of StreamRepair for any number of streams,        *)
(* readers, sessions and reconciles, and any intervals.                    *)
(***************************************************************************)
EXTENDS StreamRepair, FiniteSetTheorems, WellFoundedInduction, TLAPS

-------------------------------------------------------------------------------
(* The inductive invariant                                                   *)

Rounds == [seq : Nat, missing : SUBSET Workers, first : Nat, sentAt : Nat,
           alive : SUBSET Workers, aliveAt : Nat, aliveSent : Nat, seen : Nat]
Messages == [kind : {"REPAIR", "ALIVE"}, seq : Nat, ids : SUBSET Workers]
Commands == [pc : {"idle", "load", "cas", "escalate", "bump", "notify"},
             seq : Nat, todo : SUBSET Workers, cur : Nat]

ServerTypes ==
  /\ present \subseteq Workers /\ round \in Rounds /\ round.aliveSent <= AliveRepeat
  /\ now \in Nat /\ net \subseteq Messages /\ missingFor \in [Workers -> Nat]
  /\ issued \in [Workers -> SUBSET Nat] /\ \A w \in Workers : IsFiniteSet(issued[w])
ClientTypes ==
  /\ restart \in [Workers -> Nat] /\ cred \in [Workers -> Nat]
  /\ lastSeq \in [Workers -> Nat] /\ readySeq \in [Workers -> Nat]
  /\ observed \in [Workers -> Nat] /\ wseq \in [Workers -> Nat]
  /\ wpc \in [Workers -> Up \cup {"down"}] /\ rd \in [Readers -> Commands]

\* A REPAIR names streams, each of which was issued its sequence.
IssuedInv ==
  \A m \in net : m.kind = "REPAIR" => m.ids # {} /\ \A w \in m.ids : m.seq \in issued[w]

\* What a reader applies was issued to every stream it still has to do; it
\* has compared what it will exchange, and what it applied is on record.
ReaderInv ==
  \A r \in Readers : rd[r].pc # "idle" =>
    /\ rd[r].todo # {} /\ \A w \in rd[r].todo : rd[r].seq \in issued[w]
    /\ rd[r].pc = "cas" => rd[r].cur < rd[r].seq
    /\ rd[r].pc = "escalate" => lastSeq[Current(r)] # 0

\* The readers that have won a stream and not restarted it yet, and those of
\* them that may still cost it its credential.
Winners(w) == {r \in Readers : rd[r].pc \in {"escalate", "bump"} /\ Current(r) = w}
Doubters(w) == {r \in Readers : rd[r].pc = "escalate" /\ rd[r].cur # 0 /\ Current(r) = w}

\* Each application of a REPAIR has a sequence of its own, up to the last one.
Passed(w) == {s \in issued[w] : s <= lastSeq[w]}
OnceInv == \A w \in Workers : restart[w] + Cardinality(Winners(w)) <= Cardinality(Passed(w))

\* The first application never escalates, the others at most once.
CostInv ==
  \A w \in Workers :
    /\ lastSeq[w] = 0 => cred[w] = 0
    /\ cred[w] + Cardinality(Doubters(w)) + (IF lastSeq[w] = 0 THEN 0 ELSE 1)
         <= restart[w] + Cardinality(Winners(w))

\* The set of missing streams was the same in every reconcile since its first.
GraceInv == \A w \in round.missing : missingFor[w] >= now - round.first

RepairInv ==
  /\ ServerTypes /\ ClientTypes /\ IssuedInv /\ ReaderInv
  /\ OnceInv /\ CostInv /\ GraceInv
-------------------------------------------------------------------------------
(* Operators                                                                 *)

(* A set of naturals with a member has its least one.                        *)
LEMMA MinIn ==
  ASSUME NEW S \in SUBSET Nat, S # {}
  PROVE  Min(S) \in S
<1> DEFINE R == OpToRel(<, Nat)
<1>1. \A x, y \in Nat : <<y, x>> \in R <=> y < x
  BY DEF OpToRel
<1>2. IsWellFoundedOn(R, Nat)
  BY NatLessThanWellFounded
<1> HIDE DEF R
<1>3. PICK x \in S : \A y \in S : ~ (<<y, x>> \in R)
  BY <1>2, WFMin
<1>4. \A y \in S : ~ (y < x)
  BY <1>1, <1>3
<1>5. \A y \in S : x <= y
  BY <1>4
<1> QED BY <1>5 DEF Min

(* The stream a reader is at is one of those it has to do.                   *)
LEMMA CurrentIn ==
  ASSUME ClientTypes, NEW r \in Readers, rd[r].todo # {}
  PROVE  Current(r) \in rd[r].todo /\ Current(r) \in Workers
<1>1. rd[r].todo \subseteq Workers
  BY DEF ClientTypes, Commands
<1> QED BY <1>1, MinIn, RepairAssumption DEF Current

(* A REPAIR round names the streams that are missing now, and is only sent   *)
(* when they have been missing for Grace.                                    *)
LEMMA RepairPayloadFacts ==
  ASSUME NEW p \in Rounds, p.aliveSent <= AliveRepeat, now \in Nat
  PROVE  /\ RepairPayload(p).round \in Rounds
         /\ RepairPayload(p).round.aliveSent <= AliveRepeat
         /\ RepairPayload(p).round.missing = Missing
         /\ RepairPayload(p).round.first = IF Missing = p.missing THEN p.first ELSE now
         /\ \/ RepairPayload(p).send = {}
            \/ /\ now - RepairPayload(p).round.first >= Grace
               /\ \E s \in Nat : RepairPayload(p).send = {[kind |-> "REPAIR", seq |-> s, ids |-> Missing]}
<1> DEFINE p1 == IF Missing # p.missing
                 THEN [p EXCEPT !.seq = @ + 1, !.missing = Missing, !.first = now, !.sentAt = 0,
                                !.alive = {}, !.aliveSent = 0]
                 ELSE p
           due == now - p1.first >= Grace /\ (p1.sentAt = 0 \/ now - p1.sentAt >= Escalate)
           p2 == IF due THEN [p1 EXCEPT !.seq = IF p1.sentAt # 0 THEN @ + 1 ELSE @, !.sentAt = now]
                 ELSE p1
<1>1. RepairPayload(p) =
        [round |-> p2,
         send |-> IF due THEN {[kind |-> "REPAIR", seq |-> p2.seq, ids |-> p2.missing]} ELSE {}]
  BY DEF RepairPayload
<1>2. /\ p1 \in Rounds /\ p1.missing = Missing /\ p1.aliveSent <= AliveRepeat
      /\ p1.first = IF Missing = p.missing THEN p.first ELSE now
  <2>1. Missing \in SUBSET Workers /\ {} \in SUBSET Workers /\ 0 <= AliveRepeat
    BY RepairAssumption DEF Missing
  <2>2. CASE Missing = p.missing
    BY <2>2
  <2>3. CASE Missing # p.missing
    <3>1. p1 = [p EXCEPT !.seq = @ + 1, !.missing = Missing, !.first = now, !.sentAt = 0,
                         !.alive = {}, !.aliveSent = 0]
      BY <2>3
    <3>2. p1 = [seq |-> p.seq + 1, missing |-> Missing, first |-> now, sentAt |-> 0, alive |-> {},
                aliveAt |-> p.aliveAt, aliveSent |-> 0, seen |-> p.seen]
      BY <3>1 DEF Rounds
    <3>3. p.seq \in Nat /\ p.aliveAt \in Nat /\ p.seen \in Nat
      BY DEF Rounds
    <3>4. p1 \in Rounds
      BY <2>1, <3>2, <3>3 DEF Rounds
    <3> QED BY <2>1, <2>3, <3>2, <3>4
  <2> QED BY <2>2, <2>3
<1> HIDE DEF p1
<1>3. /\ p2 \in Rounds /\ p2.missing = Missing /\ p2.aliveSent <= AliveRepeat
      /\ p2.first = p1.first
  <2>1. CASE due
    <3> DEFINE s == IF p1.sentAt # 0 THEN p1.seq + 1 ELSE p1.seq
    <3>1. s \in Nat /\ p2 = [p1 EXCEPT !.seq = s, !.sentAt = now]
      <4>1. p1.seq \in Nat
        BY <1>2 DEF Rounds
      <4>2. s \in Nat
        BY <4>1
      <4>3. p2 = [p1 EXCEPT !.seq = s, !.sentAt = now]
        BY <2>1
      <4> QED BY <4>2, <4>3
    <3> HIDE DEF s
    <3>2. p2 = [seq |-> s, missing |-> p1.missing, first |-> p1.first, sentAt |-> now,
                alive |-> p1.alive, aliveAt |-> p1.aliveAt, aliveSent |-> p1.aliveSent,
                seen |-> p1.seen]
      BY <1>2, <3>1 DEF Rounds
    <3>3. p2 \in Rounds
      BY <1>2, <3>1, <3>2 DEF Rounds
    <3> QED BY <1>2, <3>2, <3>3
  <2>2. CASE ~ due
    BY <1>2, <2>2
  <2> QED BY <2>1, <2>2
<1>4. p2.seq \in Nat
  BY <1>3 DEF Rounds
<1> HIDE DEF p2
<1>5. RepairPayload(p).round = p2
  BY <1>1
<1>6. RepairPayload(p).send =
        IF due THEN {[kind |-> "REPAIR", seq |-> p2.seq, ids |-> p2.missing]} ELSE {}
  BY <1>1
<1>7. RepairPayload(p).send # {} => due
  BY <1>6
<1>8. due => now - p2.first >= Grace
  BY <1>3
<1>9. due => RepairPayload(p).send = {[kind |-> "REPAIR", seq |-> p2.seq, ids |-> Missing]}
  BY <1>3, <1>6
<1> QED BY <1>2, <1>3, <1>4, <1>5, <1>7, <1>8, <1>9

(* The round of a device that has come back has nothing missing, and sends   *)
(* nothing but ALIVE.                                                        *)
LEMMA AlivePayloadFacts ==
  ASSUME NEW p \in Rounds, p.aliveSent <= AliveRepeat, now \in Nat
  PROVE  /\ AlivePayload(Recovered(p)).round \in Rounds
         /\ AlivePayload(Recovered(p)).round.aliveSent <= AliveRepeat
         /\ AlivePayload(Recovered(p)).round.missing = {}
         /\ \/ AlivePayload(Recovered(p)).send = {}
            \/ \E m \in Messages : m.kind = "ALIVE" /\ AlivePayload(Recovered(p)).send = {m}
<1>1. /\ Recovered(p) \in Rounds /\ Recovered(p).missing = {}
      /\ Recovered(p).aliveSent <= AliveRepeat
  <2>1. CASE p.missing = {}
    BY <2>1 DEF Recovered
  <2>2. CASE p.missing # {}
    <3>1. Recovered(p) = [seq |-> p.seq, missing |-> {}, first |-> now, sentAt |-> 0,
                          alive |-> p.missing, aliveAt |-> 0, aliveSent |-> 0, seen |-> p.seen]
      BY <2>2 DEF Recovered, Rounds
    <3>2. p.seq \in Nat /\ p.missing \in SUBSET Workers /\ p.seen \in Nat
          /\ {} \in SUBSET Workers /\ 0 <= AliveRepeat
      BY RepairAssumption DEF Rounds
    <3>3. Recovered(p) \in Rounds
      BY <3>1, <3>2 DEF Rounds
    <3> QED BY <3>1, <3>2, <3>3
  <2> QED BY <2>1, <2>2
<1>2. ASSUME NEW q \in Rounds, q.aliveSent <= AliveRepeat, q.missing = {}
      PROVE  /\ AlivePayload(q).round \in Rounds
             /\ AlivePayload(q).round.aliveSent <= AliveRepeat
             /\ AlivePayload(q).round.missing = {}
             /\ \/ AlivePayload(q).send = {}
                \/ \E m \in Messages : m.kind = "ALIVE" /\ AlivePayload(q).send = {m}
  <2> DEFINE due == /\ q.alive # {} /\ q.aliveSent < AliveRepeat
                    /\ q.aliveAt = 0 \/ now - q.aliveAt >= AliveEvery
  <2>1. CASE due
    <3>1. /\ AlivePayload(q).round = [q EXCEPT !.aliveSent = @ + 1, !.aliveAt = now]
          /\ AlivePayload(q).send = {[kind |-> "ALIVE", seq |-> q.seq, ids |-> q.alive]}
      BY <2>1 DEF AlivePayload
    <3>2. [kind |-> "ALIVE", seq |-> q.seq, ids |-> q.alive] \in Messages
      BY <1>2 DEF Rounds, Messages
    <3>3. AlivePayload(q).round \in Rounds /\ AlivePayload(q).round.missing = {}
          /\ AlivePayload(q).round.aliveSent <= AliveRepeat
      <4>1. q.aliveSent \in Nat /\ q.aliveSent + 1 <= AliveRepeat
        BY <1>2, <2>1, RepairAssumption DEF Rounds
      <4>2. AlivePayload(q).round =
              [seq |-> q.seq, missing |-> q.missing, first |-> q.first, sentAt |-> q.sentAt,
               alive |-> q.alive, aliveAt |-> now, aliveSent |-> q.aliveSent + 1, seen |-> q.seen]
        BY <1>2, <3>1 DEF Rounds
      <4>3. AlivePayload(q).round \in Rounds
        BY <1>2, <4>1, <4>2 DEF Rounds
      <4> QED BY <1>2, <4>1, <4>2, <4>3
    <3> QED BY <3>1, <3>2, <3>3
  <2>2. CASE ~ due
    <3>1. AlivePayload(q).round = q /\ AlivePayload(q).send = {}
      BY <2>2 DEF AlivePayload
    <3> QED BY <1>2, <3>1
  <2> QED BY <2>1, <2>2
<1> QED BY <1>1, <1>2

-------------------------------------------------------------------------------
(* Reconciling                                                               *)

(* A reconcile moves the round, the grace history and at most one message.   *)
LEMMA ReconcileCases ==
  ASSUME ServerTypes, Reconcile
  PROVE  /\ now' = now + 1
         /\ missingFor' = [w \in Workers |-> IF w \in present THEN 0 ELSE missingFor[w] + 1]
         /\ round' \in Rounds /\ round'.aliveSent <= AliveRepeat
         /\ \/ /\ UNCHANGED <<net, issued>>
               /\ \/ round'.missing = {}
                  \/ present = {} /\ round' = round
                  \/ round'.missing = Missing /\ round'.first = IF Missing = round.missing THEN round.first ELSE now
            \/ \E m \in Messages :
                 /\ net' = net \cup {m} /\ m.kind = "ALIVE" /\ UNCHANGED issued
                 /\ round'.missing = {}
            \/ \E m \in Messages :
                 /\ net' = net \cup {m} /\ m.kind = "REPAIR" /\ m.ids = Missing /\ Missing # {}
                 /\ issued' = [w \in Workers |-> issued[w] \cup IF w \in Missing THEN {m.seq} ELSE {}]
                 /\ now - round'.first >= Grace
                 /\ round'.missing = Missing
                 /\ round'.first = IF Missing = round.missing THEN round.first ELSE now
<1> DEFINE step == IF Missing = {} THEN AlivePayload(Recovered(round)) ELSE RepairPayload(round)
           named(w) == {y.seq : y \in {x \in step.send : x.kind = "REPAIR" /\ w \in x.ids}}
<1>1. /\ round \in Rounds /\ round.aliveSent <= AliveRepeat /\ now \in Nat
      /\ issued \in [Workers -> SUBSET Nat]
  BY DEF ServerTypes
<1>2. /\ now' = now + 1
      /\ missingFor' = [w \in Workers |-> IF w \in present THEN 0 ELSE missingFor[w] + 1]
  BY DEF Reconcile
<1>3. CASE present = {}
  <2>1. UNCHANGED <<net, issued>> /\ (round' = round \/ round' = NoRound)
    BY <1>3 DEF Reconcile
  <2>2. NoRound \in Rounds /\ NoRound.aliveSent = 0 /\ NoRound.missing = {}
    BY DEF NoRound, Rounds
  <2>3. AliveRepeat \in Nat
    BY RepairAssumption
  <2> QED BY <1>1, <1>2, <1>3, <2>1, <2>2, <2>3
<1>4. CASE present # {}
  <2>1. /\ round' = [step.round EXCEPT !.seen = now] /\ net' = net \cup step.send
        /\ issued' = [w \in Workers |-> issued[w] \cup named(w)]
    BY <1>4 DEF Reconcile
  <2>2. step.round \in Rounds /\ step.round.aliveSent <= AliveRepeat
    BY <1>1, AlivePayloadFacts, RepairPayloadFacts
  <2>3. /\ round' \in Rounds /\ round'.aliveSent <= AliveRepeat
        /\ round'.missing = step.round.missing /\ round'.first = step.round.first
    <3> HIDE DEF step
    <3> QED BY <1>1, <2>1, <2>2 DEF Rounds
  <2>4. CASE step.send = {}
    <3>1. \A w \in Workers : named(w) = {}
      BY <2>4
    <3>2. UNCHANGED <<net, issued>>
      BY <1>1, <2>1, <2>4, <3>1
    <3>3. \/ round'.missing = {}
          \/ round'.missing = Missing /\ round'.first = IF Missing = round.missing THEN round.first ELSE now
      BY <1>1, <2>3, AlivePayloadFacts, RepairPayloadFacts
    <3> QED BY <1>2, <2>3, <3>2, <3>3
  <2>5. CASE step.send # {} /\ Missing = {}
    <3>1. PICK m \in Messages : m.kind = "ALIVE" /\ step.send = {m}
      BY <1>1, <2>5, AlivePayloadFacts
    <3>2. \A w \in Workers : named(w) = {}
      BY <3>1
    <3>3. net' = net \cup {m} /\ UNCHANGED issued
      BY <1>1, <2>1, <3>1, <3>2
    <3>4. round'.missing = {}
      BY <1>1, <2>3, <2>5, AlivePayloadFacts
    <3> QED BY <1>2, <2>3, <3>1, <3>3, <3>4
  <2>6. CASE step.send # {} /\ Missing # {}
    <3>1. /\ now - step.round.first >= Grace /\ step.round.missing = Missing
          /\ step.round.first = IF Missing = round.missing THEN round.first ELSE now
          /\ \E s \in Nat : step.send = {[kind |-> "REPAIR", seq |-> s, ids |-> Missing]}
      BY <1>1, <2>6, RepairPayloadFacts
    <3>2. PICK s \in Nat : step.send = {[kind |-> "REPAIR", seq |-> s, ids |-> Missing]}
      BY <3>1
    <3> DEFINE m == [kind |-> "REPAIR", seq |-> s, ids |-> Missing]
    <3>3. m \in Messages /\ m.kind = "REPAIR" /\ m.ids = Missing
      BY DEF Messages, Missing
    <3>4. \A w \in Workers : named(w) = IF w \in Missing THEN {m.seq} ELSE {}
      <4> SUFFICES ASSUME NEW w \in Workers
                   PROVE  named(w) = IF w \in Missing THEN {m.seq} ELSE {}
        OBVIOUS
      <4> HIDE DEF step, m
      <4>1. step.send = {m}
        BY <3>2 DEF m
      <4>2. {x \in step.send : x.kind = "REPAIR" /\ w \in x.ids} = IF w \in Missing THEN {m} ELSE {}
        BY <3>3, <4>1
      <4> QED BY <4>2
    <3>5. issued' = [w \in Workers |-> issued[w] \cup IF w \in Missing THEN {m.seq} ELSE {}]
      BY <2>1, <3>4
    <3>6. net' = net \cup {m}
      BY <2>1, <3>2
    <3> HIDE DEF m, step
    <3>7. now - round'.first >= Grace /\ round'.missing = Missing
          /\ round'.first = IF Missing = round.missing THEN round.first ELSE now
      BY <2>3, <3>1
    <3> QED BY <1>2, <2>3, <2>6, <3>3, <3>5, <3>6, <3>7
  <2> QED BY <2>4, <2>5, <2>6
<1> QED BY <1>3, <1>4

(* The server's part of the invariant, and what may be sent.                 *)
LEMMA ReconcileStep ==
  ASSUME ServerTypes, IssuedInv, GraceInv, Reconcile
  PROVE  /\ ServerTypes' /\ IssuedInv' /\ GraceInv'
         /\ \A w \in Workers : issued[w] \subseteq issued'[w]
         /\ \A m \in net' \ net : m.kind = "REPAIR" => \A w \in m.ids : missingFor'[w] > Grace
<1>1. /\ round \in Rounds /\ now \in Nat /\ net \subseteq Messages /\ missingFor \in [Workers -> Nat]
      /\ issued \in [Workers -> SUBSET Nat] /\ \A w \in Workers : IsFiniteSet(issued[w])
      /\ round.missing \subseteq Workers /\ round.first \in Nat /\ UNCHANGED present
      /\ Missing \subseteq Workers /\ \A w \in Missing : w \notin present
      /\ Grace \in Nat
  BY RepairAssumption DEF ServerTypes, Rounds, Reconcile, Missing
<1>2. /\ now' = now + 1 /\ now' \in Nat
      /\ missingFor' = [w \in Workers |-> IF w \in present THEN 0 ELSE missingFor[w] + 1]
      /\ round' \in Rounds /\ round'.aliveSent <= AliveRepeat
  BY <1>1, ReconcileCases
<1>3. missingFor' \in [Workers -> Nat] /\ \A w \in Workers \ present : missingFor'[w] = missingFor[w] + 1
  BY <1>1, <1>2
<1>4. /\ net' \subseteq Messages /\ issued' \in [Workers -> SUBSET Nat]
      /\ \A w \in Workers : \/ issued'[w] = issued[w]
                            \/ \E s \in Nat : issued'[w] = issued[w] \cup {s}
  <2>1. CASE UNCHANGED <<net, issued>>
    BY <1>1, <2>1
  <2>2. CASE \E m \in Messages : net' = net \cup {m} /\ UNCHANGED issued
    BY <1>1, <2>2
  <2>3. ASSUME NEW m \in Messages, net' = net \cup {m},
               issued' = [w \in Workers |-> issued[w] \cup IF w \in Missing THEN {m.seq} ELSE {}]
        PROVE  /\ net' \subseteq Messages /\ issued' \in [Workers -> SUBSET Nat]
               /\ \A w \in Workers : \/ issued'[w] = issued[w]
                                     \/ \E s \in Nat : issued'[w] = issued[w] \cup {s}
    <3>1. m.seq \in Nat
      BY <2>3 DEF Messages
    <3> QED BY <1>1, <2>3, <3>1
  <2> QED BY <2>1, <2>2, <2>3, ReconcileCases
<1>5. \A w \in Workers : IsFiniteSet(issued'[w]) /\ issued[w] \subseteq issued'[w]
  <2> SUFFICES ASSUME NEW w \in Workers
               PROVE  IsFiniteSet(issued'[w]) /\ issued[w] \subseteq issued'[w]
    OBVIOUS
  <2>1. CASE issued'[w] = issued[w]
    BY <1>1, <2>1
  <2>2. ASSUME NEW s \in Nat, issued'[w] = issued[w] \cup {s}
        PROVE  IsFiniteSet(issued'[w]) /\ issued[w] \subseteq issued'[w]
    <3>1. IsFiniteSet(issued[w])
      BY <1>1
    <3>2. IsFiniteSet(issued[w] \cup {s})
      BY <3>1, FS_AddElement
    <3> QED BY <2>2, <3>2
  <2> QED BY <1>4, <2>1, <2>2
<1>6. ServerTypes'
  BY <1>1, <1>2, <1>3, <1>4, <1>5 DEF ServerTypes
<1>7. IssuedInv'
  <2>1. ASSUME NEW m \in net, m.kind = "REPAIR"
        PROVE  m.ids # {} /\ \A w \in m.ids : m.seq \in issued'[w]
    <3>1. m.ids # {} /\ (\A w \in m.ids : m.seq \in issued[w]) /\ m.ids \subseteq Workers
      BY <1>1, <2>1 DEF IssuedInv, Messages
    <3> QED BY <1>5, <3>1
  <2>2. ASSUME NEW m \in net' \ net, m.kind = "REPAIR"
        PROVE  m.ids # {} /\ \A w \in m.ids : m.seq \in issued'[w]
    <3>1. /\ m.ids = Missing /\ Missing # {}
          /\ issued' = [w \in Workers |-> issued[w] \cup IF w \in Missing THEN {m.seq} ELSE {}]
      BY <2>2, ReconcileCases
    <3> QED BY <1>1, <3>1
  <2> QED BY <2>1, <2>2 DEF IssuedInv
<1>8. ASSUME NEW w \in round'.missing
      PROVE  w \in Workers /\ missingFor'[w] >= now' - round'.first
  <2>1. w \in Workers /\ round'.first \in Nat
    BY <1>2 DEF Rounds
  <2>2. CASE present = {} /\ round' = round
    <3>1. missingFor[w] >= now - round.first /\ w \notin present
      BY <1>8, <2>2 DEF GraceInv
    <3> QED BY <1>1, <1>2, <1>3, <2>1, <2>2, <3>1
  <2>3. CASE /\ round'.missing = Missing
             /\ round'.first = IF Missing = round.missing THEN round.first ELSE now
    <3>1. missingFor'[w] = missingFor[w] + 1 /\ missingFor[w] \in Nat
      BY <1>1, <1>3, <1>8, <2>1, <2>3
    <3>2. CASE Missing = round.missing
      <4>1. missingFor[w] >= now - round.first
        BY <1>8, <2>3, <3>2 DEF GraceInv
      <4> QED BY <1>1, <1>2, <2>1, <2>3, <3>1, <3>2, <4>1
    <3>3. CASE Missing # round.missing
      BY <1>1, <1>2, <2>1, <2>3, <3>1, <3>3
    <3> QED BY <3>2, <3>3
  <2> QED BY <1>8, <2>1, <2>2, <2>3, ReconcileCases
<1>9. GraceInv'
  BY <1>8 DEF GraceInv
<1>10. ASSUME NEW m \in net' \ net, m.kind = "REPAIR", NEW w \in m.ids
       PROVE  missingFor'[w] > Grace
  <2>1. m.ids = Missing /\ round'.missing = Missing /\ now - round'.first >= Grace
    BY <1>10, ReconcileCases
  <2>2. missingFor'[w] >= now' - round'.first /\ missingFor'[w] \in Nat /\ round'.first \in Nat
    BY <1>2, <1>3, <1>8, <1>10, <2>1 DEF Rounds
  <2> QED BY <1>1, <1>2, <2>1, <2>2
<1> QED BY <1>5, <1>6, <1>7, <1>9, <1>10

-------------------------------------------------------------------------------
(* Applying                                                                  *)

(* What is counted is finite.                                                *)
LEMMA CountsFinite ==
  ASSUME ServerTypes, ClientTypes, NEW w \in Workers
  PROVE  /\ IsFiniteSet(Winners(w)) /\ Cardinality(Winners(w)) \in Nat
         /\ IsFiniteSet(Doubters(w)) /\ Cardinality(Doubters(w)) \in Nat
         /\ IsFiniteSet(Passed(w)) /\ Cardinality(Passed(w)) \in Nat
<1>1. Winners(w) \subseteq Readers /\ Doubters(w) \subseteq Readers /\ Passed(w) \subseteq issued[w]
  BY DEF Winners, Doubters, Passed
<1>2. IsFiniteSet(Readers) /\ IsFiniteSet(issued[w])
  BY RepairAssumption DEF ServerTypes
<1> QED BY <1>1, <1>2, FS_Subset, FS_CardinalityType

(* A step of one reader changes the winners of a stream by that reader only. *)
LEMMA OtherReaders ==
  ASSUME NEW r \in Readers, NEW w \in Workers, \A q \in Readers \ {r} : rd'[q] = rd[q]
  PROVE  /\ Winners(w)' \ {r} = Winners(w) \ {r} /\ Doubters(w)' \ {r} = Doubters(w) \ {r}
         /\ r \in Winners(w) <=> rd[r].pc \in {"escalate", "bump"} /\ Current(r) = w
         /\ r \in Winners(w)' <=> rd'[r].pc \in {"escalate", "bump"} /\ Current(r)' = w
         /\ r \in Doubters(w) <=> rd[r].pc = "escalate" /\ rd[r].cur # 0 /\ Current(r) = w
         /\ r \in Doubters(w)' <=> rd'[r].pc = "escalate" /\ rd'[r].cur # 0 /\ Current(r)' = w
<1>1. \A q \in Readers \ {r} : Current(q)' = Current(q)
  BY DEF Current
<1> QED BY <1>1 DEF Winners, Doubters

(* The steps of a reader that neither win a stream nor restart it.           *)
LEMMA NeutralReader ==
  ASSUME ServerTypes, ClientTypes, OnceInv, CostInv, NEW r \in Readers,
         \A q \in Readers \ {r} : rd'[q] = rd[q],
         rd[r].pc \notin {"escalate", "bump"}, rd'[r].pc \notin {"escalate", "bump"},
         UNCHANGED <<restart, cred, lastSeq, issued>>
  PROVE  OnceInv' /\ CostInv'
<1>1. \A w \in Workers : Winners(w)' = Winners(w) /\ Doubters(w)' = Doubters(w)
  <2> SUFFICES ASSUME NEW w \in Workers
               PROVE  Winners(w)' = Winners(w) /\ Doubters(w)' = Doubters(w)
    OBVIOUS
  <2>1. r \notin Winners(w) /\ r \notin Winners(w)' /\ r \notin Doubters(w) /\ r \notin Doubters(w)'
    BY OtherReaders
  <2>2. Winners(w)' \ {r} = Winners(w) \ {r} /\ Doubters(w)' \ {r} = Doubters(w) \ {r}
    BY OtherReaders
  <2> QED BY <2>1, <2>2
<1>2. \A w \in Workers : Passed(w)' = Passed(w)
  BY DEF Passed
<1> QED BY <1>1, <1>2 DEF OnceInv, CostInv

(* A reader that stays itself keeps the others' part of ReaderInv.           *)
LEMMA ReaderInvStep ==
  ASSUME ReaderInv, NEW r \in Readers,
         \A q \in Readers \ {r} : rd'[q] = rd[q],
         \A w \in Workers : lastSeq[w] # 0 => lastSeq'[w] # 0, UNCHANGED issued,
         ClientTypes,
         rd'[r].pc # "idle" =>
           /\ rd'[r].todo # {} /\ \A w \in rd'[r].todo : rd'[r].seq \in issued[w]
           /\ rd'[r].pc = "cas" => rd'[r].cur < rd'[r].seq
           /\ rd'[r].pc = "escalate" => lastSeq'[Current(r)'] # 0
  PROVE  ReaderInv'
<1>1. ASSUME NEW q \in Readers \ {r}, rd'[q].pc # "idle"
      PROVE  /\ rd'[q].todo # {} /\ \A w \in rd'[q].todo : rd'[q].seq \in issued'[w]
             /\ rd'[q].pc = "cas" => rd'[q].cur < rd'[q].seq
             /\ rd'[q].pc = "escalate" => lastSeq'[Current(q)'] # 0
  <2>1. rd'[q] = rd[q] /\ Current(q)' = Current(q)
    BY DEF Current
  <2>2. /\ rd[q].todo # {} /\ \A w \in rd[q].todo : rd[q].seq \in issued[w]
        /\ rd[q].pc = "cas" => rd[q].cur < rd[q].seq
        /\ rd[q].pc = "escalate" => lastSeq[Current(q)] # 0
    BY <1>1, <2>1 DEF ReaderInv
  <2>3. Current(q) \in Workers
    BY <2>2, CurrentIn
  <2> QED BY <2>1, <2>2, <2>3
<1>2. ASSUME NEW q \in Readers, rd'[q].pc # "idle"
      PROVE  /\ rd'[q].todo # {} /\ \A w \in rd'[q].todo : rd'[q].seq \in issued'[w]
             /\ rd'[q].pc = "cas" => rd'[q].cur < rd'[q].seq
             /\ rd'[q].pc = "escalate" => lastSeq'[Current(q)'] # 0
  BY <1>1, <1>2
<1> QED BY <1>2 DEF ReaderInv

(* What a reader goes on with when it is done with a stream.                 *)
LEMMA FinishFacts ==
  ASSUME ClientTypes, NEW r \in Readers, Finish(r)
  PROVE  /\ rd' \in [Readers -> Commands] /\ \A q \in Readers \ {r} : rd'[q] = rd[q]
         /\ \/ rd'[r] = Idle
            \/ /\ rd'[r].pc = "load" /\ rd'[r].todo # {} /\ rd'[r].todo \subseteq rd[r].todo
               /\ rd'[r].seq = rd[r].seq
<1> DEFINE rest == rd[r].todo \ {Current(r)}
<1>1. rd[r] \in Commands /\ rd \in [Readers -> Commands]
  BY DEF ClientTypes
<1>2. Idle \in Commands
  BY DEF Idle, Commands
<1>3. rd' = [rd EXCEPT ![r] = IF rest = {} THEN Idle ELSE [rd[r] EXCEPT !.pc = "load", !.todo = rest]]
  BY DEF Finish
<1>4. [rd[r] EXCEPT !.pc = "load", !.todo = rest] \in Commands
  BY <1>1 DEF Commands
<1>5. /\ [rd[r] EXCEPT !.pc = "load", !.todo = rest].pc = "load"
      /\ [rd[r] EXCEPT !.pc = "load", !.todo = rest].todo = rest
      /\ [rd[r] EXCEPT !.pc = "load", !.todo = rest].seq = rd[r].seq
  BY <1>1 DEF Commands
<1>6. rd'[r] = IF rest = {} THEN Idle ELSE [rd[r] EXCEPT !.pc = "load", !.todo = rest]
  BY <1>1, <1>3
<1>7. rd' \in [Readers -> Commands] /\ \A q \in Readers \ {r} : rd'[q] = rd[q]
  BY <1>1, <1>2, <1>3, <1>4
<1> QED BY <1>5, <1>6, <1>7

\* The client's part of the invariant.
ClientInv == ClientTypes /\ ReaderInv /\ OnceInv /\ CostInv

(* A command is taken from the network.                                      *)
LEMMA ReceiveStep ==
  ASSUME ServerTypes, IssuedInv, ClientInv, NEW r \in Readers, NEW m \in net, Receive(r, m)
  PROVE  ClientInv'
<1>1. /\ rd \in [Readers -> Commands] /\ rd[r].pc = "idle" /\ m \in Messages
      /\ UNCHANGED <<restart, cred, lastSeq, issued, observed, wseq, wpc>>
      /\ readySeq \in [Workers -> Nat]
  BY DEF ClientInv, ClientTypes, ServerTypes, Receive, At, serverVars, workerVars
<1>2. CASE m.kind = "REPAIR"
  <2> DEFINE c == [pc |-> "load", seq |-> m.seq, todo |-> m.ids, cur |-> 0]
  <2>1. rd' = [rd EXCEPT ![r] = c] /\ UNCHANGED readySeq
    BY <1>2 DEF Receive
  <2>2. c \in Commands /\ c.pc = "load" /\ c.todo = m.ids /\ c.seq = m.seq
    BY <1>1 DEF Commands, Messages
  <2> HIDE DEF c
  <2>3. /\ rd' \in [Readers -> Commands] /\ rd'[r] = c
        /\ \A q \in Readers \ {r} : rd'[q] = rd[q]
    BY <1>1, <2>1, <2>2
  <2>4. ClientTypes'
    BY <1>1, <2>1, <2>3 DEF ClientInv, ClientTypes
  <2>5. m.ids # {} /\ \A w \in m.ids : m.seq \in issued[w]
    BY <1>2 DEF IssuedInv
  <2>6. ReaderInv'
    BY <1>1, <2>2, <2>3, <2>5, ReaderInvStep DEF ClientInv
  <2>7. OnceInv' /\ CostInv'
    BY <1>1, <2>2, <2>3, NeutralReader DEF ClientInv
  <2> QED BY <2>4, <2>6, <2>7 DEF ClientInv
<1>3. CASE m.kind # "REPAIR"
  <2>1. /\ UNCHANGED rd
        /\ readySeq' = [w \in Workers |-> IF w \in m.ids /\ m.seq > readySeq[w] THEN m.seq ELSE readySeq[w]]
    BY <1>3 DEF Receive
  <2>2. m.seq \in Nat
    BY <1>1 DEF Messages
  <2>3. ClientTypes'
    BY <1>1, <2>1, <2>2 DEF ClientInv, ClientTypes
  <2>4. ReaderInv'
    BY <1>1, <2>1 DEF ClientInv, ReaderInv, Current
  <2>5. OnceInv' /\ CostInv'
    BY <1>1, <2>1, NeutralReader DEF ClientInv
  <2> QED BY <2>3, <2>4, <2>5 DEF ClientInv
<1> QED BY <1>2, <1>3

(* The comparison, a lost race, and the end of an application.               *)
LEMMA QuietStep ==
  ASSUME ServerTypes, ClientInv, NEW r \in Readers,
         \/ RepairLoad(r)
         \/ RepairCas(r) /\ lastSeq[Current(r)] # rd[r].cur
         \/ RepairNotify(r)
  PROVE  ClientInv'
<1>1. /\ rd \in [Readers -> Commands] /\ rd[r] \in Commands /\ lastSeq \in [Workers -> Nat]
      /\ rd[r].pc \in {"load", "cas", "notify"}
      /\ UNCHANGED <<restart, cred, lastSeq, readySeq, issued, observed, wseq, wpc>>
  BY DEF ClientInv, ClientTypes, RepairLoad, RepairCas, RepairNotify, At, serverVars, slotVars, workerVars
<1>2. rd[r].todo # {} /\ \A w \in rd[r].todo : rd[r].seq \in issued[w]
  BY <1>1 DEF ClientInv, ReaderInv
<1>3. Current(r) \in Workers
  BY <1>2, CurrentIn DEF ClientInv
<1> DEFINE Fine == /\ rd' \in [Readers -> Commands] /\ \A q \in Readers \ {r} : rd'[q] = rd[q]
                   /\ rd'[r].pc \notin {"escalate", "bump"}
                   /\ rd'[r].pc # "idle" =>
                        /\ rd'[r].todo # {} /\ \A w \in rd'[r].todo : rd'[r].seq \in issued[w]
                        /\ rd'[r].pc = "cas" => rd'[r].cur < rd'[r].seq
<1>4. ASSUME Finish(r)
      PROVE  Fine
  <2>1. Idle.pc = "idle"
    BY DEF Idle
  <2> QED BY <1>2, <1>4, <2>1, FinishFacts DEF ClientInv
<1>5. ASSUME RepairLoad(r), ~ (rd[r].seq <= lastSeq[Current(r)])
      PROVE  Fine
  <2> DEFINE c == [rd[r] EXCEPT !.pc = "cas", !.cur = lastSeq[Current(r)]]
  <2>1. rd' = [rd EXCEPT ![r] = c]
    BY <1>5 DEF RepairLoad
  <2>2. /\ c \in Commands /\ c.pc = "cas" /\ c.todo = rd[r].todo /\ c.seq = rd[r].seq
        /\ c.cur = lastSeq[Current(r)] /\ c.seq \in Nat /\ c.cur \in Nat
    BY <1>1, <1>3 DEF Commands
  <2> HIDE DEF c
  <2>3. rd'[r] = c /\ rd' \in [Readers -> Commands] /\ \A q \in Readers \ {r} : rd'[q] = rd[q]
    BY <1>1, <2>1, <2>2
  <2>4. c.cur < c.seq
    BY <1>5, <2>2
  <2> QED BY <1>2, <2>2, <2>3, <2>4
<1>6. ASSUME RepairCas(r), lastSeq[Current(r)] # rd[r].cur
      PROVE  Fine
  <2> DEFINE c == [rd[r] EXCEPT !.pc = "load"]
  <2>1. rd' = [rd EXCEPT ![r] = c]
    BY <1>6 DEF RepairCas
  <2>2. c \in Commands /\ c.pc = "load" /\ c.todo = rd[r].todo /\ c.seq = rd[r].seq
    BY <1>1 DEF Commands
  <2> HIDE DEF c
  <2>3. rd'[r] = c /\ rd' \in [Readers -> Commands] /\ \A q \in Readers \ {r} : rd'[q] = rd[q]
    BY <1>1, <2>1, <2>2
  <2> QED BY <1>2, <2>2, <2>3
<1>7. Fine
  BY <1>4, <1>5, <1>6 DEF RepairLoad, RepairNotify
<1>8. ClientTypes'
  BY <1>1, <1>7 DEF ClientInv, ClientTypes
<1>9. ReaderInv'
  BY <1>1, <1>7, ReaderInvStep DEF ClientInv
<1>10. OnceInv' /\ CostInv'
  BY <1>1, <1>7, NeutralReader DEF ClientInv
<1> QED BY <1>8, <1>9, <1>10 DEF ClientInv

(* The exchange: the reader that wins a stream has a sequence of its own.    *)
LEMMA WinStep ==
  ASSUME ServerTypes, ServerTypes', ClientInv, NEW r \in Readers,
         RepairCas(r), lastSeq[Current(r)] = rd[r].cur,
         NEW c, c = Current(r), NEW s, s = rd[r].seq
  PROVE  ClientInv'
<1>1. /\ rd \in [Readers -> Commands] /\ rd[r] \in Commands /\ lastSeq \in [Workers -> Nat]
      /\ rd[r].pc = "cas" /\ s \in Nat /\ rd[r].cur \in Nat
      /\ restart \in [Workers -> Nat] /\ cred \in [Workers -> Nat]
      /\ UNCHANGED <<restart, cred, readySeq, issued, observed, wseq, wpc>>
  BY DEF ClientInv, ClientTypes, Commands, RepairCas, At, serverVars, workerVars
<1>2. rd[r].todo # {} /\ (\A w \in rd[r].todo : s \in issued[w]) /\ rd[r].cur < s
  BY <1>1 DEF ClientInv, ReaderInv
<1>3. c \in Workers /\ s \in issued[c] /\ lastSeq[c] < s
  BY <1>2, CurrentIn DEF ClientInv
<1>4. /\ lastSeq' = [lastSeq EXCEPT ![c] = s]
      /\ rd' = [rd EXCEPT ![r] = [rd[r] EXCEPT !.pc = "escalate"]]
  BY DEF RepairCas
<1>5. /\ [rd[r] EXCEPT !.pc = "escalate"] \in Commands
      /\ rd' \in [Readers -> Commands] /\ \A q \in Readers \ {r} : rd'[q] = rd[q]
      /\ rd'[r].pc = "escalate" /\ rd'[r].todo = rd[r].todo /\ rd'[r].seq = s
      /\ rd'[r].cur = rd[r].cur
  BY <1>1, <1>4 DEF Commands
<1>6. Current(r)' = c
  BY <1>5 DEF Current
<1>7. /\ lastSeq' \in [Workers -> Nat] /\ lastSeq'[c] = s /\ s # 0
      /\ \A w \in Workers \ {c} : lastSeq'[w] = lastSeq[w]
  BY <1>1, <1>3, <1>4
<1>8. ClientTypes'
  BY <1>1, <1>5, <1>7 DEF ClientInv, ClientTypes
<1>9. ReaderInv'
  BY <1>1, <1>2, <1>5, <1>6, <1>7, ReaderInvStep DEF ClientInv
<1>10. ASSUME NEW w \in Workers, w # c
       PROVE  Winners(w)' = Winners(w) /\ Doubters(w)' = Doubters(w) /\ Passed(w)' = Passed(w)
  <2>1. Winners(w)' = Winners(w) /\ Doubters(w)' = Doubters(w)
    <3>1. /\ r \notin Winners(w) /\ r \notin Doubters(w)
          /\ r \notin Winners(w)' /\ r \notin Doubters(w)'
      BY <1>1, <1>5, <1>6, <1>10, OtherReaders
    <3>2. Winners(w)' \ {r} = Winners(w) \ {r} /\ Doubters(w)' \ {r} = Doubters(w) \ {r}
      BY <1>5, OtherReaders
    <3> QED BY <3>1, <3>2
  <2>2. Passed(w)' = Passed(w)
    BY <1>1, <1>7, <1>10 DEF Passed
  <2> QED BY <2>1, <2>2
<1>11. Winners(c)' = Winners(c) \cup {r} /\ r \notin Winners(c)
  <2>1. r \notin Winners(c) /\ r \in Winners(c)'
    BY <1>1, <1>3, <1>5, <1>6, OtherReaders
  <2>2. Winners(c)' \ {r} = Winners(c) \ {r}
    BY <1>3, <1>5, OtherReaders
  <2> QED BY <2>1, <2>2
<1>12. Cardinality(Winners(c)') = Cardinality(Winners(c)) + 1
  BY <1>3, <1>11, CountsFinite, FS_AddElement DEF ClientInv
<1>13. Cardinality(Passed(c)') >= Cardinality(Passed(c)) + 1
  <2>1. s \notin Passed(c) /\ Passed(c) \cup {s} \subseteq Passed(c)'
    <3>1. issued[c] \subseteq Nat /\ lastSeq[c] \in Nat
      BY <1>1, <1>3 DEF ServerTypes
    <3> QED BY <1>1, <1>3, <1>7, <3>1 DEF Passed
  <2>2. Cardinality(Passed(c) \cup {s}) = Cardinality(Passed(c)) + 1
    BY <1>3, <2>1, CountsFinite, FS_AddElement DEF ClientInv
  <2>3. IsFiniteSet(Passed(c)')
    <3>1. Passed(c)' \subseteq issued'[c] /\ IsFiniteSet(issued'[c])
      BY <1>3 DEF Passed, ServerTypes
    <3> QED BY <3>1, FS_Subset
  <2>4. Cardinality(Passed(c) \cup {s}) <= Cardinality(Passed(c)')
    BY <2>1, <2>3, FS_Subset
  <2>5. Cardinality(Passed(c)') \in Nat /\ Cardinality(Passed(c)) \in Nat
    BY <1>3, <2>3, CountsFinite, FS_CardinalityType DEF ClientInv
  <2> QED BY <2>2, <2>4, <2>5
<1>14. Cardinality(Winners(c)) \in Nat /\ Cardinality(Doubters(c)) \in Nat
       /\ Cardinality(Passed(c)) \in Nat /\ Cardinality(Passed(c)') \in Nat
       /\ restart[c] \in Nat /\ cred[c] \in Nat
  <2>1. Passed(c)' \subseteq issued'[c] /\ IsFiniteSet(issued'[c])
    BY <1>3 DEF Passed, ServerTypes
  <2> QED BY <1>1, <1>3, <2>1, CountsFinite, FS_Subset, FS_CardinalityType DEF ClientInv
<1>15. OnceInv'
  <2>1. ASSUME NEW w \in Workers
        PROVE  restart'[w] + Cardinality(Winners(w)') <= Cardinality(Passed(w)')
    <3>1. restart[w] + Cardinality(Winners(w)) <= Cardinality(Passed(w))
      BY DEF ClientInv, OnceInv
    <3>2. CASE w # c
      BY <1>1, <1>10, <3>1, <3>2
    <3>3. CASE w = c
      BY <1>1, <1>12, <1>13, <1>14, <3>1, <3>3
    <3> QED BY <3>2, <3>3
  <2> QED BY <2>1 DEF OnceInv
<1>16. CostInv'
  <2>1. ASSUME NEW w \in Workers
        PROVE  /\ lastSeq'[w] = 0 => cred'[w] = 0
               /\ cred'[w] + Cardinality(Doubters(w)') + (IF lastSeq'[w] = 0 THEN 0 ELSE 1)
                    <= restart'[w] + Cardinality(Winners(w)')
    <3>1. /\ lastSeq[w] = 0 => cred[w] = 0
          /\ cred[w] + Cardinality(Doubters(w)) + (IF lastSeq[w] = 0 THEN 0 ELSE 1)
               <= restart[w] + Cardinality(Winners(w))
      BY DEF ClientInv, CostInv
    <3>2. CASE w # c
      BY <1>1, <1>7, <1>10, <3>1, <3>2
    <3>3. CASE w = c /\ lastSeq[c] = 0
      <4>1. Doubters(c)' = Doubters(c)
        <5>1. r \notin Doubters(c) /\ r \notin Doubters(c)'
          BY <1>1, <1>3, <1>5, <1>6, <3>3, OtherReaders
        <5>2. Doubters(c)' \ {r} = Doubters(c) \ {r}
          BY <1>3, <1>5, OtherReaders
        <5> QED BY <5>1, <5>2
      <4> QED BY <1>1, <1>7, <1>12, <1>14, <3>1, <3>3, <4>1
    <3>4. CASE w = c /\ lastSeq[c] # 0
      <4>1. Doubters(c)' = Doubters(c) \cup {r} /\ r \notin Doubters(c)
        <5>1. r \notin Doubters(c) /\ r \in Doubters(c)'
          BY <1>1, <1>3, <1>5, <1>6, <3>4, OtherReaders
        <5>2. Doubters(c)' \ {r} = Doubters(c) \ {r}
          BY <1>3, <1>5, OtherReaders
        <5> QED BY <5>1, <5>2
      <4>2. Cardinality(Doubters(c)') = Cardinality(Doubters(c)) + 1
        BY <1>3, <4>1, CountsFinite, FS_AddElement DEF ClientInv
      <4> QED BY <1>1, <1>7, <1>12, <1>14, <3>1, <3>4, <4>2
    <3> QED BY <3>2, <3>3, <3>4
  <2> QED BY <2>1 DEF CostInv
<1> QED BY <1>8, <1>9, <1>15, <1>16 DEF ClientInv

(* The escalation: only a reader that found an earlier REPAIR may do it.     *)
LEMMA EscalateStep ==
  ASSUME ServerTypes, ClientInv, NEW r \in Readers, RepairEscalate(r), NEW c, c = Current(r)
  PROVE  ClientInv'
<1>1. /\ rd \in [Readers -> Commands] /\ rd[r] \in Commands /\ lastSeq \in [Workers -> Nat]
      /\ rd[r].pc = "escalate"
      /\ restart \in [Workers -> Nat] /\ cred \in [Workers -> Nat]
      /\ UNCHANGED <<restart, lastSeq, readySeq, issued, observed, wseq, wpc>>
  BY DEF ClientInv, ClientTypes, Commands, RepairEscalate, At, serverVars, workerVars
<1>2. rd[r].todo # {} /\ (\A w \in rd[r].todo : rd[r].seq \in issued[w]) /\ lastSeq[c] # 0
  BY <1>1 DEF ClientInv, ReaderInv
<1>3. c \in Workers
  BY <1>2, CurrentIn DEF ClientInv
<1>4. /\ cred' = IF Unresolved(r) THEN [cred EXCEPT ![c] = @ + 1] ELSE cred
      /\ rd' = [rd EXCEPT ![r] = [rd[r] EXCEPT !.pc = "bump"]]
  BY DEF RepairEscalate
<1>5. /\ [rd[r] EXCEPT !.pc = "bump"] \in Commands
      /\ rd' \in [Readers -> Commands] /\ \A q \in Readers \ {r} : rd'[q] = rd[q]
      /\ rd'[r].pc = "bump" /\ rd'[r].todo = rd[r].todo /\ rd'[r].seq = rd[r].seq
  BY <1>1, <1>4 DEF Commands
<1>6. Current(r)' = c
  BY <1>5 DEF Current
<1>7. cred' \in [Workers -> Nat] /\ \A w \in Workers \ {c} : cred'[w] = cred[w]
  BY <1>1, <1>3, <1>4
<1>8. ClientTypes'
  BY <1>1, <1>5, <1>7 DEF ClientInv, ClientTypes
<1>9. ReaderInv'
  BY <1>1, <1>2, <1>5, ReaderInvStep DEF ClientInv
<1>10. \A w \in Workers : Passed(w)' = Passed(w)
  BY <1>1 DEF Passed
<1>11. ASSUME NEW w \in Workers
       PROVE  Winners(w)' = Winners(w) /\ Doubters(w)' = Doubters(w) \ {r}
  <2>1. r \notin Doubters(w)' /\ (r \in Winners(w) <=> r \in Winners(w)')
    BY <1>1, <1>5, <1>6, OtherReaders
  <2>2. Winners(w)' \ {r} = Winners(w) \ {r} /\ Doubters(w)' \ {r} = Doubters(w) \ {r}
    BY <1>5, OtherReaders
  <2> QED BY <2>1, <2>2
<1>12. OnceInv'
  BY <1>1, <1>10, <1>11 DEF ClientInv, OnceInv
<1>13. CostInv'
  <2>1. ASSUME NEW w \in Workers
        PROVE  /\ lastSeq'[w] = 0 => cred'[w] = 0
               /\ cred'[w] + Cardinality(Doubters(w)') + (IF lastSeq'[w] = 0 THEN 0 ELSE 1)
                    <= restart'[w] + Cardinality(Winners(w)')
    <3>1. /\ lastSeq[w] = 0 => cred[w] = 0
          /\ cred[w] + Cardinality(Doubters(w)) + (IF lastSeq[w] = 0 THEN 0 ELSE 1)
               <= restart[w] + Cardinality(Winners(w))
      BY DEF ClientInv, CostInv
    <3>2. /\ Cardinality(Doubters(w)) \in Nat /\ Cardinality(Winners(w)) \in Nat
          /\ restart[w] \in Nat /\ cred[w] \in Nat
      BY <1>1, CountsFinite DEF ClientInv
    <3>3. CASE w = c /\ Unresolved(r)
      <4>1. r \in Doubters(w)
        BY <1>1, <3>3, OtherReaders, <1>5 DEF Unresolved
      <4>2. Cardinality(Doubters(w)') = Cardinality(Doubters(w)) - 1
        BY <1>11, <4>1, CountsFinite, FS_RemoveElement DEF ClientInv
      <4>3. cred'[w] = cred[w] + 1
        BY <1>1, <1>3, <1>4, <3>3
      <4> QED BY <1>1, <1>2, <1>11, <3>1, <3>2, <3>3, <4>2, <4>3
    <3>4. CASE w # c \/ ~ Unresolved(r)
      <4>1. cred'[w] = cred[w]
        BY <1>4, <1>7, <3>4
      <4>2. Cardinality(Doubters(w)') <= Cardinality(Doubters(w)) /\ Cardinality(Doubters(w)') \in Nat
        BY <1>11, CountsFinite, FS_Subset, FS_CardinalityType DEF ClientInv
      <4> QED BY <1>1, <1>11, <3>1, <3>2, <4>1, <4>2
    <3> QED BY <3>3, <3>4
  <2> QED BY <2>1 DEF CostInv
<1> QED BY <1>8, <1>9, <1>12, <1>13 DEF ClientInv

(* The restart.                                                              *)
LEMMA BumpStep ==
  ASSUME ServerTypes, ClientInv, NEW r \in Readers, RepairBump(r), NEW c, c = Current(r)
  PROVE  ClientInv'
<1>1. /\ rd \in [Readers -> Commands] /\ rd[r] \in Commands
      /\ rd[r].pc = "bump"
      /\ restart \in [Workers -> Nat] /\ cred \in [Workers -> Nat]
      /\ UNCHANGED <<cred, lastSeq, readySeq, issued, observed, wseq, wpc>>
  BY DEF ClientInv, ClientTypes, Commands, RepairBump, At, serverVars, workerVars
<1>2. rd[r].todo # {} /\ (\A w \in rd[r].todo : rd[r].seq \in issued[w])
  BY <1>1 DEF ClientInv, ReaderInv
<1>3. c \in Workers
  BY <1>2, CurrentIn DEF ClientInv
<1>4. /\ restart' = [restart EXCEPT ![c] = @ + 1]
      /\ rd' = [rd EXCEPT ![r] = [rd[r] EXCEPT !.pc = "notify"]]
  BY DEF RepairBump
<1>5. /\ [rd[r] EXCEPT !.pc = "notify"] \in Commands
      /\ rd' \in [Readers -> Commands] /\ \A q \in Readers \ {r} : rd'[q] = rd[q]
      /\ rd'[r].pc = "notify" /\ rd'[r].todo = rd[r].todo /\ rd'[r].seq = rd[r].seq
  BY <1>1, <1>4 DEF Commands
<1>6. /\ restart' \in [Workers -> Nat] /\ \A w \in Workers \ {c} : restart'[w] = restart[w]
      /\ restart'[c] = restart[c] + 1
  BY <1>1, <1>3, <1>4
<1>7. ClientTypes'
  BY <1>1, <1>5, <1>6 DEF ClientInv, ClientTypes
<1>8. ReaderInv'
  BY <1>1, <1>2, <1>5, ReaderInvStep DEF ClientInv
<1>9. \A w \in Workers : Passed(w)' = Passed(w)
  BY <1>1 DEF Passed
<1>10. ASSUME NEW w \in Workers
       PROVE  /\ Doubters(w)' = Doubters(w)
              /\ restart'[w] + Cardinality(Winners(w)') = restart[w] + Cardinality(Winners(w))
  <2>1. Doubters(w)' = Doubters(w) /\ Winners(w)' = Winners(w) \ {r}
        /\ (r \in Winners(w) <=> w = c)
    <3>1. /\ r \notin Doubters(w) /\ r \notin Doubters(w)' /\ r \notin Winners(w)'
          /\ (r \in Winners(w) <=> w = c)
      BY <1>1, <1>5, OtherReaders
    <3>2. Winners(w)' \ {r} = Winners(w) \ {r} /\ Doubters(w)' \ {r} = Doubters(w) \ {r}
      BY <1>5, OtherReaders
    <3> QED BY <3>1, <3>2
  <2>2. CASE w = c
    <3>1. Cardinality(Winners(w)') = Cardinality(Winners(w)) - 1
      BY <2>1, <2>2, CountsFinite, FS_RemoveElement DEF ClientInv
    <3>2. Cardinality(Winners(w)) \in Nat /\ restart[w] \in Nat
      BY <1>1, CountsFinite DEF ClientInv
    <3> QED BY <1>6, <2>1, <2>2, <3>1, <3>2
  <2>3. CASE w # c
    BY <1>6, <2>1, <2>3
  <2> QED BY <2>2, <2>3
<1>11. OnceInv'
  BY <1>9, <1>10 DEF ClientInv, OnceInv
<1>12. CostInv'
  BY <1>1, <1>10 DEF ClientInv, CostInv
<1> QED BY <1>7, <1>8, <1>11, <1>12 DEF ClientInv

(* Reconciling and the workers leave what is counted alone; a sequence that  *)
(* is issued in between only adds to the bound.                              *)
LEMMA ClientKept ==
  ASSUME ServerTypes, ServerTypes', ClientInv, ClientTypes',
         UNCHANGED <<rd, restart, cred, lastSeq>>, \A w \in Workers : issued[w] \subseteq issued'[w]
  PROVE  ClientInv'
<1>1. \A r \in Readers : Current(r)' = Current(r)
  BY DEF Current
<1>2. \A w \in Workers : Winners(w)' = Winners(w) /\ Doubters(w)' = Doubters(w)
  BY <1>1 DEF Winners, Doubters
<1>3. ReaderInv'
  <2>1. \A r \in Readers : rd[r].todo \subseteq Workers
    BY DEF ClientTypes, ClientInv, Commands
  <2> QED BY <1>1, <2>1 DEF ClientInv, ReaderInv
<1>4. ASSUME NEW w \in Workers
      PROVE  restart'[w] + Cardinality(Winners(w)') <= Cardinality(Passed(w)')
  <2>1. Passed(w) \subseteq Passed(w)' /\ Passed(w)' \subseteq issued'[w]
    BY DEF Passed
  <2>2. IsFiniteSet(Passed(w)')
    BY <2>1, FS_Subset DEF ServerTypes
  <2>3. /\ Cardinality(Passed(w)) <= Cardinality(Passed(w)')
        /\ Cardinality(Passed(w)') \in Nat /\ Cardinality(Passed(w)) \in Nat
        /\ Cardinality(Winners(w)) \in Nat /\ restart[w] \in Nat
    BY <2>1, <2>2, FS_Subset, FS_CardinalityType, CountsFinite DEF ClientInv, ClientTypes
  <2>4. restart[w] + Cardinality(Winners(w)) <= Cardinality(Passed(w))
    BY DEF ClientInv, OnceInv
  <2> QED BY <1>2, <2>3, <2>4
<1>5. OnceInv'
  BY <1>4 DEF OnceInv
<1>6. CostInv'
  BY <1>2 DEF ClientInv, CostInv
<1> QED BY <1>3, <1>5, <1>6 DEF ClientInv

(* The workers' steps keep the types.                                        *)
LEMMA WorkerTypes ==
  ASSUME ServerTypes, ClientTypes, NEW w \in Workers, WorkerStep(w)
  PROVE  /\ ServerTypes' /\ ClientTypes'
         /\ UNCHANGED <<rd, restart, cred, lastSeq, issued, net, round, now, missingFor>>
<1>1. /\ UNCHANGED <<rd, restart, cred, lastSeq, issued, net, round, now, missingFor>>
      /\ present' \subseteq Workers
  BY DEF ServerTypes, WorkerStep, ServerForgets, Established, MarkReadyLoad, MarkReadyStore, Observe,
     ChangedCheck, ChangedRegister, ChangedWake, SessionFails, serverVars, slotVars
<1>2. wpc' \in [Workers -> Up \cup {"down"}]
  BY DEF ClientTypes, WorkerStep, ServerForgets, Established, MarkReadyLoad, MarkReadyStore, Observe,
     ChangedCheck, ChangedRegister, ChangedWake, SessionFails, SetPC, Up, workerVars
<1>3. /\ readySeq' \in [Workers -> Nat] /\ observed' \in [Workers -> Nat]
      /\ wseq' \in [Workers -> Nat]
  BY DEF ClientTypes, WorkerStep, ServerForgets, Established, MarkReadyLoad, MarkReadyStore, Observe,
     ChangedCheck, ChangedRegister, ChangedWake, SessionFails, slotVars, workerVars
<1>4. ServerTypes'
  BY <1>1 DEF ServerTypes
<1>5. ClientTypes'
  BY <1>1, <1>2, <1>3 DEF ClientTypes
<1> QED BY <1>1, <1>4, <1>5

-------------------------------------------------------------------------------
(* The theorems                                                              *)

(* The first state has the invariant.                                        *)
LEMMA RepairInit == Init => RepairInv
<1> SUFFICES ASSUME Init PROVE RepairInv
  OBVIOUS
<1>1. ServerTypes
  <2>1. NoRound \in Rounds /\ NoRound.aliveSent = 0
    BY DEF NoRound, Rounds
  <2>2. IsFiniteSet({}) /\ AliveRepeat \in Nat
    BY FS_EmptySet, RepairAssumption
  <2> QED BY <2>1, <2>2 DEF Init, ServerTypes
<1>2. Idle \in Commands /\ Idle.pc = "idle"
  BY DEF Idle, Commands
<1>3. ClientTypes
  BY <1>2 DEF Init, ClientTypes
<1>4. IssuedInv /\ ReaderInv /\ GraceInv
  BY <1>2 DEF Init, IssuedInv, ReaderInv, GraceInv, NoRound
<1>5. \A w \in Workers : Winners(w) = {} /\ Doubters(w) = {}
  BY <1>2 DEF Init, Winners, Doubters
<1>6. Cardinality({}) = 0
  BY FS_EmptySet
<1>7. ASSUME NEW w \in Workers
      PROVE  /\ restart[w] = 0 /\ cred[w] = 0 /\ lastSeq[w] = 0
             /\ Cardinality(Winners(w)) = 0 /\ Cardinality(Doubters(w)) = 0
             /\ Cardinality(Passed(w)) = 0
  <2>1. Passed(w) = {}
    BY DEF Init, Passed
  <2> QED BY <1>5, <1>6, <2>1 DEF Init
<1>8. OnceInv /\ CostInv
  BY <1>7 DEF OnceInv, CostInv
<1> QED BY <1>1, <1>3, <1>4, <1>8 DEF RepairInv

(* Every step keeps the invariant.                                           *)
LEMMA RepairNext == RepairInv /\ [Next]_vars => RepairInv'
<1> SUFFICES ASSUME RepairInv, [Next]_vars PROVE RepairInv'
  OBVIOUS
<1>1. ServerTypes /\ ClientTypes /\ IssuedInv /\ GraceInv /\ ClientInv
  BY DEF RepairInv, ClientInv
<1>2. ASSUME ClientInv', ServerTypes', UNCHANGED <<net, issued, round, missingFor, now>>
      PROVE  RepairInv'
  <2>1. IssuedInv' /\ GraceInv'
    BY <1>1, <1>2 DEF IssuedInv, GraceInv
  <2> QED BY <1>2, <2>1 DEF RepairInv, ClientInv
<1>3. CASE Reconcile
  <2>1. ServerTypes' /\ IssuedInv' /\ GraceInv' /\ \A w \in Workers : issued[w] \subseteq issued'[w]
    BY <1>1, <1>3, ReconcileStep
  <2>2. UNCHANGED <<slotVars, workerVars, rd>>
    BY <1>3 DEF Reconcile
  <2>3. ClientTypes'
    BY <1>1, <2>2 DEF ClientTypes, slotVars, workerVars
  <2>4. ClientInv'
    BY <1>1, <2>1, <2>2, <2>3, ClientKept DEF slotVars
  <2> QED BY <2>1, <2>4 DEF RepairInv, ClientInv
<1>4. ASSUME NEW w \in Workers, WorkerStep(w)
      PROVE  RepairInv'
  <2>1. /\ ServerTypes' /\ ClientTypes'
        /\ UNCHANGED <<rd, restart, cred, lastSeq, issued, net, round, now, missingFor>>
    BY <1>1, <1>4, WorkerTypes
  <2>2. ClientInv'
    BY <1>1, <2>1, ClientKept
  <2> QED BY <1>2, <2>1, <2>2
<1>5. ASSUME NEW r \in Readers, ReaderStep(r)
      PROVE  RepairInv'
  <2>1. UNCHANGED <<serverVars, net>>
    BY <1>5 DEF ReaderStep, Receive, RepairLoad, RepairCas, RepairEscalate, RepairBump, RepairNotify
  <2>2. ServerTypes'
    BY <1>1, <2>1 DEF ServerTypes, serverVars
  <2>4. ClientInv'
    <3>1. CASE \E m \in net : Receive(r, m)
      BY <1>1, <3>1, ReceiveStep
    <3>2. CASE RepairLoad(r) \/ (RepairCas(r) /\ lastSeq[Current(r)] # rd[r].cur) \/ RepairNotify(r)
      BY <1>1, <3>2, QuietStep
    <3>3. CASE RepairCas(r) /\ lastSeq[Current(r)] = rd[r].cur
      BY <1>1, <2>2, <3>3, WinStep
    <3>4. CASE RepairEscalate(r)
      BY <1>1, <3>4, EscalateStep
    <3>5. CASE RepairBump(r)
      BY <1>1, <3>5, BumpStep
    <3> QED BY <1>5, <3>1, <3>2, <3>3, <3>4, <3>5 DEF ReaderStep
  <2> QED BY <1>2, <2>1, <2>2, <2>4 DEF serverVars
<1>6. CASE UNCHANGED vars
  <2>1. ServerTypes' /\ ClientTypes'
    BY <1>1, <1>6 DEF ServerTypes, ClientTypes, vars, serverVars, slotVars, workerVars
  <2>2. ClientInv'
    BY <1>1, <1>6, <2>1, ClientKept DEF vars, serverVars, slotVars
  <2> QED BY <1>2, <1>6, <2>1, <2>2 DEF vars, serverVars
<1> QED BY <1>3, <1>4, <1>5, <1>6 DEF Next

(* The invariant holds for ever.                                             *)
LEMMA RepairInvariant == Spec => []RepairInv
BY RepairInit, RepairNext, PTL DEF Spec

(* Whatever the carriers lose, repeat or reorder, and however many readers   *)
(* race, a stream restarts at most once for each sequence that named it.     *)
THEOREM RestartsOnce == Spec => []OneRestartPerSequence
<1>1. RepairInv => OneRestartPerSequence
  <2> SUFFICES ASSUME RepairInv PROVE OneRestartPerSequence
    OBVIOUS
  <2>1. /\ present \subseteq Workers /\ round.missing \subseteq Workers /\ round.alive \subseteq Workers
        /\ round.aliveSent \in 0 .. AliveRepeat /\ round.seq \in Nat
    BY RepairAssumption DEF RepairInv, ServerTypes, Rounds
  <2>2. \A r \in Readers : rd[r].pc # "idle" => rd[r].todo # {} /\ rd[r].todo \subseteq Workers
    BY DEF RepairInv, ReaderInv, ClientTypes, Commands
  <2>3. TypeOK
    BY <2>1, <2>2 DEF RepairInv, ClientTypes, TypeOK
  <2>4. ASSUME NEW w \in Workers
        PROVE  restart[w] <= Cardinality(issued[w])
    <3>1. Passed(w) \subseteq issued[w] /\ IsFiniteSet(issued[w])
      BY DEF Passed, RepairInv, ServerTypes
    <3>2. Cardinality(Passed(w)) <= Cardinality(issued[w]) /\ Cardinality(issued[w]) \in Nat
      BY <3>1, FS_Subset, FS_CardinalityType
    <3>3. /\ Cardinality(Passed(w)) \in Nat /\ Cardinality(Winners(w)) \in Nat /\ restart[w] \in Nat
          /\ restart[w] + Cardinality(Winners(w)) <= Cardinality(Passed(w))
      BY CountsFinite DEF RepairInv, OnceInv, ClientTypes
    <3> QED BY <3>2, <3>3
  <2> QED BY <2>3, <2>4 DEF OneRestartPerSequence
<1> QED BY <1>1, RepairInvariant, PTL

(* The first REPAIR of a stream keeps its credential, and none costs two,    *)
(* also while several readers escalate at once.                              *)
THEOREM FirstRepairIsFree == Spec => []FirstRepairKeepsCredentials
<1>1. RepairInv => FirstRepairKeepsCredentials
  <2> SUFFICES ASSUME RepairInv, NEW w \in Workers, cred[w] > 0 PROVE cred[w] < Applied(w)
    BY DEF FirstRepairKeepsCredentials
  <2>1. /\ cred[w] \in Nat /\ restart[w] \in Nat /\ lastSeq[w] \in Nat
        /\ Cardinality(Winners(w)) \in Nat /\ Cardinality(Doubters(w)) \in Nat
    BY CountsFinite DEF RepairInv, ClientTypes
  <2>2. /\ lastSeq[w] = 0 => cred[w] = 0
        /\ cred[w] + Cardinality(Doubters(w)) + (IF lastSeq[w] = 0 THEN 0 ELSE 1)
             <= restart[w] + Cardinality(Winners(w))
    BY DEF RepairInv, CostInv
  <2>3. Applied(w) = restart[w] + Cardinality(Winners(w))
    BY DEF Applied, Winners
  <2> QED BY <2>1, <2>2, <2>3
<1> QED BY <1>1, RepairInvariant, PTL

(* A REPAIR only names streams no reconcile of the last Grace has found.     *)
THEOREM GraceIsRespected == Spec => GraceRespected
<1> DEFINE Respected == \A m \in net' \ net : m.kind = "REPAIR" => \A w \in m.ids : missingFor'[w] > Grace
<1>1. RepairInv /\ [Next]_vars => [Respected]_vars
  <2> SUFFICES ASSUME RepairInv, Next PROVE Respected
    OBVIOUS
  <2>1. CASE Reconcile
    BY <2>1, ReconcileStep DEF RepairInv
  <2>2. CASE \E w \in Workers : WorkerStep(w)
    BY <2>2, WorkerTypes DEF RepairInv
  <2>3. CASE \E r \in Readers : ReaderStep(r)
    BY <2>3 DEF ReaderStep, Receive, RepairLoad, RepairCas, RepairEscalate, RepairBump, RepairNotify
  <2> QED BY <2>1, <2>2, <2>3 DEF Next
<1> QED BY <1>1, RepairInvariant, PTL DEF Spec, GraceRespected

==============================================================================
