---------------------------- MODULE StreamRepair ----------------------------
(***************************************************************************)
(* Stream repair: the server notices which of a device's streams are       *)
(* missing and asks the client to restart them (REPAIR), later confirms    *)
(* them (ALIVE); rust-server/protocol.rs StreamRepairRound and             *)
(* reconcile_streams, rust-client/repair.rs RepairState.                   *)
(*                                                                         *)
(* Messages travel as datagrams over up to three carriers, so they may be  *)
(* lost, duplicated and reordered.  On the client several reader tasks of  *)
(* a multi-threaded runtime apply them while the workers register and      *)
(* wait: each atomic operation of repair.rs is one step here.  One         *)
(* identity (device, generation, salt) is modelled: the server keeps       *)
(* identities apart.                                                       *)
(***************************************************************************)
EXTENDS Integers, FiniteSets, FiniteSetsExt

CONSTANTS Workers,     \* 1..desired_count
          Readers,     \* reader tasks that may apply a command at a time
          Grace,       \* STREAM_REPAIR_GRACE_MS, in reconcile ticks
          Escalate,    \* STREAM_REPAIR_ESCALATE_MS
          AliveEvery,  \* STREAM_ALIVE_INTERVAL_MS
          AliveRepeat, \* STREAM_ALIVE_REPEAT
          OrphanTTL,   \* STREAM_ROUND_ORPHAN_TTL_MS
          MaxTime,     \* bound: reconcile ticks
          MaxStarts    \* bound: sessions established

ASSUME RepairAssumption ==
  /\ Workers \subseteq Nat \ {0} /\ IsFiniteSet(Workers) /\ IsFiniteSet(Readers)
  /\ {Grace, Escalate, AliveEvery, AliveRepeat, OrphanTTL, MaxTime, MaxStarts} \subseteq Nat

VARIABLES
  present,   \* server: workers with a registered session of this identity
  round,     \* server: StreamRepairRound, or NoRound
  now,       \* server: monotonic_ms in reconcile ticks, from 1
  net,       \* control messages sent; each may arrive any number of times
  restart,   \* client slot: restart_generation
  cred,      \* client slot: credential_generation
  lastSeq,   \* client slot: last_sequence
  readySeq,  \* client slot: ready_sequence
  wpc,       \* client worker: where run_allocated_session is
  wseq,      \* client worker: what mark_ready loaded
  observed,  \* client worker: repair_generation
  woken,     \* client worker: its Notified future has completed
  rd,        \* client reader: the command being applied
  starts,    \* bound counter
  issued,    \* history: worker -> sequences of the REPAIRs that named it
  missingFor,\* history: worker -> reconciles in a row without a session of it
  aliveSeen  \* history: worker -> highest ALIVE sequence applied

serverVars == <<present, round, now, missingFor, issued>>
slotVars == <<restart, cred, lastSeq, readySeq>>
workerVars == <<wpc, wseq, observed, woken, starts>>
vars == <<serverVars, net, slotVars, workerVars, rd, aliveSeen>>

NoRound == [seq |-> 0, missing |-> {}, first |-> 0, sentAt |-> 0,
            alive |-> {}, aliveAt |-> 0, aliveSent |-> 0, seen |-> 0]
Idle == [pc |-> "idle", seq |-> 0, todo |-> {}, cur |-> 0]
Up == {"ready", "marked", "observe", "check", "register", "waiting"}

Init ==
  /\ present = {} /\ round = NoRound /\ now = 1 /\ net = {}
  /\ restart = [w \in Workers |-> 0] /\ cred = restart /\ lastSeq = restart /\ readySeq = restart
  /\ wpc = [w \in Workers |-> "down"] /\ wseq = restart /\ observed = restart
  /\ woken = [w \in Workers |-> FALSE] /\ rd = [r \in Readers |-> Idle] /\ starts = 0
  /\ issued = [w \in Workers |-> {}] /\ missingFor = restart /\ aliveSeen = restart

------------------------------------------------------------------------------
(* Server                                                                   *)

\* StreamInventory::fill_missing
Missing == Workers \ present

\* Mutant: a different set of missing streams inherits the old grace period.
RepairKeepsGrace(r) ==
  LET changed == Missing # r.missing
      r1 == IF changed
            THEN [r EXCEPT !.seq = @ + 1, !.missing = Missing, !.sentAt = 0,
                           !.alive = {}, !.aliveSent = 0]
            ELSE r
      due == now - r1.first >= Grace /\ (r1.sentAt = 0 \/ now - r1.sentAt >= Escalate)
      r2 == IF due THEN [r1 EXCEPT !.seq = IF r1.sentAt # 0 THEN @ + 1 ELSE @, !.sentAt = now] ELSE r1
  IN  [round |-> r2, send |-> IF due THEN {[kind |-> "REPAIR", seq |-> r2.seq, ids |-> r2.missing]} ELSE {}]

\* A new set of missing streams opens a new sequence and waits Grace; an old
\* one is repeated under the next sequence after Escalate.
RepairPayload(r) ==
  LET changed == Missing # r.missing
      r1 == IF changed
            THEN [r EXCEPT !.seq = @ + 1, !.missing = Missing, !.first = now, !.sentAt = 0,
                           !.alive = {}, !.aliveSent = 0]
            ELSE r
      due == now - r1.first >= Grace /\ (r1.sentAt = 0 \/ now - r1.sentAt >= Escalate)
      r2 == IF due THEN [r1 EXCEPT !.seq = IF r1.sentAt # 0 THEN @ + 1 ELSE @, !.sentAt = now] ELSE r1
  IN  [round |-> r2, send |-> IF due THEN {[kind |-> "REPAIR", seq |-> r2.seq, ids |-> r2.missing]} ELSE {}]

Recovered(r) ==
  IF r.missing = {} THEN r
  ELSE [r EXCEPT !.alive = r.missing, !.missing = {}, !.aliveAt = 0, !.aliveSent = 0,
                 !.first = now, !.sentAt = 0]

\* Every AliveEvery ticks, at most AliveRepeat times.
AlivePayload(r) ==
  LET due == /\ r.alive # {} /\ r.aliveSent < AliveRepeat
             /\ r.aliveAt = 0 \/ now - r.aliveAt >= AliveEvery
  IN  [round |-> IF due THEN [r EXCEPT !.aliveSent = @ + 1, !.aliveAt = now] ELSE r,
       send |-> IF due THEN {[kind |-> "ALIVE", seq |-> r.seq, ids |-> r.alive]} ELSE {}]

ActiveRound(r) == r.missing # {} \/ (r.alive # {} /\ r.aliveSent < AliveRepeat)

\* reconcile_streams: an identity without sessions is not in the inventory; its
\* round is kept, unless it is unsettled and has been orphaned too long.
Reconcile ==
  /\ now < MaxTime /\ now' = now + 1
  /\ IF present = {}
     THEN /\ round' = IF ActiveRound(round) /\ now - round.seen >= OrphanTTL THEN NoRound ELSE round
          /\ UNCHANGED <<net, issued>>
     ELSE LET step == IF Missing = {} THEN AlivePayload(Recovered(round)) ELSE RepairPayload(round)
          IN  /\ round' = [step.round EXCEPT !.seen = now]
              /\ net' = net \cup step.send
              /\ issued' = [w \in Workers |-> issued[w] \cup
                             {m.seq : m \in {x \in step.send : x.kind = "REPAIR" /\ w \in x.ids}}]
  /\ missingFor' = [w \in Workers |-> IF w \in present THEN 0 ELSE missingFor[w] + 1]
  /\ UNCHANGED <<present, slotVars, workerVars, rd, aliveSeen>>

\* Idle sweep, replacement or DISCONNECT: the server gives up a session.
ServerForgets(w) ==
  /\ w \in present /\ present' = present \ {w}
  /\ UNCHANGED <<round, now, missingFor, issued, net, slotVars, workerVars, rd, aliveSeen>>

------------------------------------------------------------------------------
(* Client worker: the end of run_allocated_session                          *)

SetPC(w, pc) == wpc' = [wpc EXCEPT ![w] = pc]

\* GETCONF and READY are through; the server has registered the stream.
Established(w) ==
  /\ wpc[w] = "down" /\ starts < MaxStarts
  /\ SetPC(w, "ready") /\ starts' = starts + 1
  /\ present' = present \cup {w}
  /\ UNCHANGED <<round, now, missingFor, issued, net, slotVars, wseq, observed, woken, rd, aliveSeen>>

MarkReadyLoad(w) ==
  /\ wpc[w] = "ready" /\ SetPC(w, "marked")
  /\ wseq' = [wseq EXCEPT ![w] = lastSeq[w]]
  /\ UNCHANGED <<serverVars, net, slotVars, observed, woken, starts, rd, aliveSeen>>

MarkReadyStore(w) ==
  /\ wpc[w] = "marked" /\ SetPC(w, "observe")
  /\ readySeq' = [readySeq EXCEPT ![w] = wseq[w]]
  /\ UNCHANGED <<serverVars, net, restart, cred, lastSeq, wseq, observed, woken, starts, rd, aliveSeen>>

Observe(w) ==
  /\ wpc[w] = "observe" /\ SetPC(w, "check")
  /\ observed' = [observed EXCEPT ![w] = restart[w]]
  /\ UNCHANGED <<serverVars, net, slotVars, wseq, woken, starts, rd, aliveSeen>>

\* changed(): the generation is compared first, and only then is the Notified
\* future created.  A difference ends the session with TARGET_REPAIR.
ChangedCheck(w) ==
  /\ wpc[w] = "check"
  /\ SetPC(w, IF restart[w] # observed[w] THEN "down" ELSE "register")
  /\ UNCHANGED <<serverVars, net, slotVars, wseq, observed, woken, starts, rd, aliveSeen>>

ChangedRegister(w) ==
  /\ wpc[w] = "register" /\ SetPC(w, "waiting")
  /\ woken' = [woken EXCEPT ![w] = FALSE]
  /\ UNCHANGED <<serverVars, net, slotVars, wseq, observed, starts, rd, aliveSeen>>

ChangedWake(w) ==
  /\ wpc[w] = "waiting" /\ woken[w] /\ SetPC(w, "check")
  /\ UNCHANGED <<serverVars, net, slotVars, wseq, observed, woken, starts, rd, aliveSeen>>

\* The writer or the reader of the session ended, or the allocation failed.
SessionFails(w) ==
  /\ wpc[w] \in Up /\ SetPC(w, "down")
  /\ UNCHANGED <<serverVars, net, slotVars, wseq, observed, woken, starts, rd, aliveSeen>>

------------------------------------------------------------------------------
(* Client reader: apply_repair and apply_alive                              *)

At(r, pc) == rd[r].pc = pc
Current(r) == Min(rd[r].todo)
Finish(r) ==
  LET rest == rd[r].todo \ {Current(r)}
  IN  rd' = [rd EXCEPT ![r] = IF rest = {} THEN Idle
                              ELSE [@ EXCEPT !.pc = "load", !.todo = rest]]

Receive(r, m) ==
  /\ At(r, "idle") /\ m \in net /\ \E w \in Workers : wpc[w] \in Up
  /\ IF m.kind = "REPAIR"
     THEN /\ rd' = [rd EXCEPT ![r] = [pc |-> "load", seq |-> m.seq, todo |-> m.ids, cur |-> 0]]
          /\ UNCHANGED <<readySeq, aliveSeen>>
     ELSE /\ readySeq' = [w \in Workers |-> IF w \in m.ids /\ m.seq > readySeq[w] THEN m.seq ELSE readySeq[w]]
          /\ aliveSeen' = [w \in Workers |-> IF w \in m.ids /\ m.seq > aliveSeen[w] THEN m.seq ELSE aliveSeen[w]]
          /\ UNCHANGED rd
  /\ UNCHANGED <<serverVars, net, restart, cred, lastSeq, workerVars>>

RepairLoad(r) ==
  /\ At(r, "load")
  /\ IF rd[r].seq <= lastSeq[Current(r)]
     THEN Finish(r)
     ELSE rd' = [rd EXCEPT ![r].pc = "cas", ![r].cur = lastSeq[Current(r)]]
  /\ UNCHANGED <<serverVars, net, slotVars, workerVars, aliveSeen>>

\* Mutant: last_sequence is stored without comparing it.
RepairStore(r) ==
  /\ At(r, "cas")
  /\ rd' = [rd EXCEPT ![r].pc = "escalate"]
  /\ lastSeq' = [lastSeq EXCEPT ![Current(r)] = rd[r].seq]
  /\ UNCHANGED <<serverVars, net, restart, cred, readySeq, workerVars, aliveSeen>>

\* compare_exchange: a lost race goes back to the comparison.
RepairCas(r) ==
  /\ At(r, "cas")
  /\ IF lastSeq[Current(r)] = rd[r].cur
     THEN /\ lastSeq' = [lastSeq EXCEPT ![Current(r)] = rd[r].seq]
          /\ rd' = [rd EXCEPT ![r].pc = "escalate"]
     ELSE /\ rd' = [rd EXCEPT ![r].pc = "load"]
          /\ UNCHANGED lastSeq
  /\ UNCHANGED <<serverVars, net, restart, cred, readySeq, workerVars, aliveSeen>>

\* Mutant: readiness is compared with the new sequence, not with the previous one.
UnresolvedByCommand(r) == readySeq[Current(r)] < rd[r].seq

\* The previous REPAIR of the stream was neither answered nor confirmed.
Unresolved(r) == rd[r].cur # 0 /\ readySeq[Current(r)] < rd[r].cur

RepairEscalate(r) ==
  /\ At(r, "escalate")
  /\ cred' = IF Unresolved(r) THEN [cred EXCEPT ![Current(r)] = @ + 1] ELSE cred
  /\ rd' = [rd EXCEPT ![r].pc = "bump"]
  /\ UNCHANGED <<serverVars, net, restart, lastSeq, readySeq, workerVars, aliveSeen>>

RepairBump(r) ==
  /\ At(r, "bump")
  /\ restart' = [restart EXCEPT ![Current(r)] = @ + 1]
  /\ rd' = [rd EXCEPT ![r].pc = "notify"]
  /\ UNCHANGED <<serverVars, net, cred, lastSeq, readySeq, workerVars, aliveSeen>>

RepairNotify(r) ==
  /\ At(r, "notify")
  /\ woken' = IF wpc[Current(r)] = "waiting" THEN [woken EXCEPT ![Current(r)] = TRUE] ELSE woken
  /\ Finish(r)
  /\ UNCHANGED <<serverVars, net, slotVars, wpc, wseq, observed, starts, aliveSeen>>

------------------------------------------------------------------------------
WorkerStep(w) ==
  \/ ServerForgets(w) \/ Established(w) \/ MarkReadyLoad(w) \/ MarkReadyStore(w) \/ Observe(w)
  \/ ChangedCheck(w) \/ ChangedRegister(w) \/ ChangedWake(w) \/ SessionFails(w)
ReaderStep(r) ==
  \/ \E m \in net : Receive(r, m)
  \/ RepairLoad(r) \/ RepairCas(r) \/ RepairEscalate(r) \/ RepairBump(r) \/ RepairNotify(r)

Next == Reconcile \/ (\E w \in Workers : WorkerStep(w)) \/ (\E r \in Readers : ReaderStep(r))

Spec == Init /\ [][Next]_vars

------------------------------------------------------------------------------
(* Properties                                                               *)

\* Every slot, round and reader stays in its type.
TypeOK ==
  /\ present \subseteq Workers /\ round.missing \subseteq Workers /\ round.alive \subseteq Workers
  /\ round.aliveSent \in 0..AliveRepeat /\ round.seq \in Nat
  /\ {restart, cred, lastSeq, readySeq, observed, wseq} \subseteq [Workers -> Nat]
  /\ wpc \in [Workers -> Up \cup {"down"}]
  /\ \A r \in Readers : rd[r].pc # "idle" => rd[r].todo # {} /\ rd[r].todo \subseteq Workers

\* However often and in whatever order the carriers deliver a REPAIR, and
\* however many readers apply it at once, one sequence restarts a stream once.
OneRestartPerSequence ==
  /\ TypeOK
  /\ \A w \in Workers : restart[w] <= Cardinality(issued[w])

\* The first REPAIR applied to a stream never costs a credential, and no
\* REPAIR costs two, also when two readers escalate the same stream.
Applied(w) ==
  restart[w] + Cardinality({r \in Readers : rd[r].pc \in {"escalate", "bump"} /\ Current(r) = w})
FirstRepairKeepsCredentials == \A w \in Workers : cred[w] > 0 => cred[w] < Applied(w)

\* A REPAIR only names streams that no reconcile of the last Grace ticks has
\* found a session of: a stream that came back in between is left alone.
GraceRespected ==
  [][\A m \in net' \ net : m.kind = "REPAIR" => \A w \in m.ids : missingFor'[w] > Grace]_vars

\* Credentials are kept when the last REPAIR of the stream has been confirmed
\* by an ALIVE.
AliveHonoured ==
  \A r \in Readers : At(r, "escalate") /\ Unresolved(r) => aliveSeen[Current(r)] < rd[r].cur
==============================================================================
