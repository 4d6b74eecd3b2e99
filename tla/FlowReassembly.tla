---------------------------- MODULE FlowReassembly ----------------------------
(***************************************************************************)
(* Per-flow sequencing and reassembly (shared/flow_frame.rs).  A sequencer *)
(* stamps the packets of each TCP flow with a wrapping sequence number;    *)
(* the frames cross up to 126 independent paths that lose, reorder and     *)
(* duplicate them; a reassembler puts them back in order, giving up on a   *)
(* missing frame after GapRelease ticks or when its buffers are full.      *)
(***************************************************************************)
EXTENDS Integers, Sequences, FiniteSets, FiniteSetsExt

CONSTANTS Flows,        \* flow_id values
          FlowModulus,  \* 2^32: sequence numbers wrap here
          MaxTracked,   \* MAX_TRACKED_FLOWS
          MaxPerFlow,   \* MAX_PENDING_PER_FLOW
          MaxTotal,     \* MAX_PENDING_TOTAL
          GapRelease,   \* GAP_RELEASE_AFTER_MS, in clock ticks
          Before,       \* frames a flow may have had in order before the first step
          FlowSends,    \* bound: packets sent over all flows
          FlowLag,      \* bound: a frame arrives within FlowLag sends of its flow
          MaxTime,      \* bound: clock ticks
          MaxRestarts   \* bound: sequencers and reassemblers created anew

\* The limits are positive and the numbers wrap at an even modulus.
FlowBounds ==
  /\ {FlowModulus, MaxTracked, MaxPerFlow, MaxTotal, GapRelease} \subseteq Nat \ {0}
  /\ {FlowSends, FlowLag, MaxTime, MaxRestarts} \subseteq Nat
  /\ FlowModulus % 2 = 0 /\ Before \subseteq 0 .. FlowModulus - 1

ASSUME FlowAssumption == FlowBounds

VARIABLES
  sender,     \* FlowSequencer::sender_id, as the number of ids used so far
  sequences,  \* FlowSequencer::sequences: flow -> next number
  net,        \* frames on the paths: each may arrive once, several times or never
  flows,      \* FlowReassembler::flows: key -> FlowState
  total,      \* FlowReassembler::pending_total
  now,        \* milliseconds since FlowReassembler::started
  restarts, sends, \* bound counters
  lossless,   \* the paths only reorder: one flow, and no frame overtaken by MaxPerFlow others
  flowSent,   \* history: key -> packets sent
  arrived,    \* history: key -> frames that arrived since the table was made or cleared
  out,        \* history: key -> what the reassembler released since then, in order
  earlier     \* history: key -> the packets it had released before

flowVars == <<sender, sequences, net, flows, total, now, restarts, sends, lossless, flowSent, arrived, out, earlier>>
sequencer == <<sender, sequences, sends, lossless, flowSent>>
reassembler == <<flows, total, arrived, out, earlier>>

NoGap == -1
Keys == [sender : 1..(FlowSends + MaxRestarts + 1), flow : Flows]
\* n is a history field: the unwrapped number of the packet in its flow.
Frame(k, seq, n) == [key |-> k, seq |-> seq, n |-> n]
SatSub(a, b) == IF a > b THEN a - b ELSE 0
Put(f, k, v) == [x \in DOMAIN f \cup {k} |-> IF x = k THEN v ELSE f[x]]
Get(f, k, d) == IF k \in DOMAIN f THEN f[k] ELSE d

NoFlows == [k \in {} |-> 0]
NewState == [expected |-> 0, gap |-> NoGap, pending |-> {}]

\* Nothing was sent yet, or one flow had some frames, in order.
FlowInit ==
  /\ sender = 1 /\ net = {} /\ total = 0 /\ now = 0 /\ restarts = 0 /\ sends = 0
  /\ lossless \in BOOLEAN
  /\ \E f \in Flows, b \in Before :
       LET k == [sender |-> 1, flow |-> f]
           had(v) == IF b = 0 THEN NoFlows ELSE Put(NoFlows, k, v)
       IN  /\ sequences = IF b = 0 THEN NoFlows ELSE Put(NoFlows, f, b)
           /\ flowSent = had(b) /\ arrived = had(0 .. b - 1) /\ out = had([i \in 1 .. b |-> i - 1])
           /\ flows = had([NewState EXCEPT !.expected = b]) /\ earlier = NoFlows

------------------------------------------------------------------------------
(* FlowSequencer                                                            *)

\* A full table and a new flow: forget every flow and take a new sender_id.
Overflow(f) == Cardinality(DOMAIN sequences) = MaxTracked /\ f \notin DOMAIN sequences

SequencerNext(f) ==
  /\ sends < FlowSends /\ sends' = sends + 1
  /\ LET id  == IF Overflow(f) THEN sender + 1 ELSE sender
         seq == IF Overflow(f) THEN NoFlows ELSE sequences
         k   == [sender |-> id, flow |-> f]
     IN  /\ lossless => /\ DOMAIN flowSent \subseteq {k}
                        /\ 0 .. Get(flowSent, k, 0) - MaxPerFlow - 1 \subseteq Get(arrived, k, {})
         /\ sender' = id
         /\ sequences' = Put(seq, f, (Get(seq, f, 0) + 1) % FlowModulus)
         /\ flowSent' = Put(flowSent, k, Get(flowSent, k, 0) + 1)
         /\ net' = net \cup {Frame(k, Get(seq, f, 0), Get(flowSent, k, 0))}
  /\ UNCHANGED <<reassembler, now, restarts, lossless>>

\* read_tun and read_udp start with a FlowSequencer of their own.
SequencerNew ==
  /\ ~ lossless /\ restarts < MaxRestarts /\ restarts' = restarts + 1
  /\ sender' = sender + 1 /\ sequences' = NoFlows
  /\ UNCHANGED <<flowSent, sends, lossless, net, reassembler, now>>

------------------------------------------------------------------------------
(* FlowReassembler.  w is what push_at works on: the FlowState of the flow  *)
(* (expected, gap_started_ms, pending), pending_total and the output.       *)

\* Mutant: every number but the expected one counts as new.
IsOther(seq, expected) == seq # expected

\* Mutant: numbers are compared as if they did not wrap.
IsGreater(seq, expected) == seq > expected

IsForward(seq, expected) ==
  seq # expected /\ (seq - expected) % FlowModulus < FlowModulus \div 2

\* pending_total loses as many as the FlowState lost: saturating_sub twice.
Settle(w, r) ==
  [w EXCEPT !.state = r.state, !.out = @ \o r.out,
            !.total = SatSub(@, SatSub(Cardinality(w.state.pending), Cardinality(r.state.pending)))]

\* Take out the pending frames that follow expected without a hole.
DrainContiguous(st) ==
  LET at(i) == {p \in st.pending : p.seq = (st.expected + i) % FlowModulus}
      run == Max({n \in 0..Cardinality(st.pending) : \A i \in 0..(n - 1) : at(i) # {}})
      head(i) == CHOOSE p \in at(i) : TRUE
  IN  [state |-> [st EXCEPT !.expected = (@ + run) % FlowModulus,
                            !.pending = @ \ {head(i) : i \in 0..(run - 1)}],
       out |-> [i \in 1..run |-> head(i - 1).n]]

ReleaseLowest(st) ==
  LET forward == {p \in st.pending : IsForward(p.seq, st.expected)}
      distance(p) == (p.seq - st.expected) % FlowModulus
      low == CHOOSE p \in forward : \A q \in forward : distance(p) <= distance(q)
      d == DrainContiguous([st EXCEPT !.expected = (low.seq + 1) % FlowModulus,
                                      !.pending = @ \ {low}])
  IN  IF forward = {}
      THEN [state |-> [st EXCEPT !.gap = NoGap], out |-> <<>>]
      ELSE [state |-> [d.state EXCEPT !.gap = IF d.state.pending = {} THEN NoGap ELSE now],
            out |-> <<low.n>> \o d.out]

ReleaseExpired(st) ==
  IF st.gap # NoGap /\ SatSub(now, st.gap) >= GapRelease
  THEN ReleaseLowest(st)
  ELSE [state |-> st, out |-> <<>>]

InOrder(w, fr) ==
  LET next == [w.state EXCEPT !.expected = (@ + 1) % FlowModulus, !.gap = NoGap]
  IN  Settle([w EXCEPT !.out = Append(@, fr.n)], DrainContiguous(next))

Known(st, fr) == ~IsForward(fr.seq, st.expected) \/ \E p \in st.pending : p.seq = fr.seq

\* Make room: a full flow, then a full table, releases its lowest frame.
MakeRoom(w) ==
  LET v == IF Cardinality(w.state.pending) = MaxPerFlow
           THEN Settle(w, ReleaseLowest(w.state)) ELSE w
  IN  IF v.total = MaxTotal /\ v.state.pending # {}
      THEN Settle(v, ReleaseLowest(v.state)) ELSE v

\* Put the frame aside and start the gap clock.
Store(w, fr) ==
  LET added == [w EXCEPT !.state.pending = @ \cup {[seq |-> fr.seq, n |-> fr.n]}, !.total = @ + 1]
      kept == IF added.total > MaxTotal THEN Settle(added, ReleaseLowest(added.state)) ELSE added
      timed == [kept EXCEPT !.state.gap = IF @ = NoGap THEN now ELSE @]
  IN  Settle(timed, ReleaseExpired(timed.state))

\* Mutant: nothing is released early to make room.
PushUnbounded(w0, fr) ==
  LET w == Settle(w0, ReleaseExpired(w0.state))
  IN  IF fr.seq = w.state.expected THEN InOrder(w, fr)
      ELSE IF Known(w.state, fr) THEN w
      ELSE [w EXCEPT !.state.pending = @ \cup {[seq |-> fr.seq, n |-> fr.n]}, !.total = @ + 1,
                     !.state.gap = IF @ = NoGap THEN now ELSE @]

PushAt(w0, fr) ==
  LET w == Settle(w0, ReleaseExpired(w0.state))
      v == MakeRoom(w)
  IN  IF fr.seq = w.state.expected THEN InOrder(w, fr)
      ELSE IF Known(w.state, fr) THEN w
      ELSE IF v.total = MaxTotal /\ v.state.pending = {}
      THEN [v EXCEPT !.out = Append(@, fr.n),
                     !.state.expected = (fr.seq + 1) % FlowModulus, !.state.gap = NoGap]
      ELSE Store(v, fr)

\* A full table and a new key: every flow and every pending frame is dropped.
TableFull(k) == Cardinality(DOMAIN flows) = MaxTracked /\ k \notin DOMAIN flows

\* The packets that were ever released.
EverReleased ==
  [k \in DOMAIN earlier \cup DOMAIN out |->
     Get(earlier, k, {}) \cup {out[k][i] : i \in DOMAIN Get(out, k, <<>>)}]

Late(fr) == flowSent[fr.key] - fr.n > FlowLag

ArriveFrame(fr) ==
  /\ fr \in net /\ ~Late(fr)
  /\ LET k == fr.key
         table == IF TableFull(k) THEN NoFlows ELSE flows
         history == IF TableFull(k) THEN NoFlows ELSE out
         before == Get(table, k, NewState)
         w == PushAt([state |-> before, out |-> <<>>,
                      total |-> IF TableFull(k) THEN 0 ELSE total], fr)
     IN  /\ flows' = Put(table, k, w.state)
         /\ total' = w.total
         /\ out' = Put(history, k, Get(history, k, <<>>) \o w.out)
         /\ arrived' = IF TableFull(k) THEN Put(NoFlows, k, {fr.n})
                       ELSE Put(arrived, k, Get(arrived, k, {}) \cup {fr.n})
         /\ earlier' = IF TableFull(k) THEN EverReleased ELSE earlier
  /\ UNCHANGED <<sequencer, net, now, restarts>>

\* write_tun starts with a FlowReassembler of its own for a new TUN device.
ReassemblerNew ==
  /\ ~ lossless /\ restarts < MaxRestarts /\ restarts' = restarts + 1
  /\ flows' = NoFlows /\ total' = 0 /\ arrived' = NoFlows /\ out' = NoFlows /\ earlier' = EverReleased
  /\ UNCHANGED <<sequencer, net, now>>

Tick == ~ lossless /\ now < MaxTime /\ now' = now + 1
        /\ UNCHANGED <<sequencer, net, reassembler, restarts>>

FlowNext ==
  \/ \E f \in Flows : SequencerNext(f)
  \/ \E fr \in net : ArriveFrame(fr)
  \/ SequencerNew \/ ReassemblerNew \/ Tick

FlowSpec == FlowInit /\ [][FlowNext]_flowVars

------------------------------------------------------------------------------
(* Properties                                                               *)

\* The tables stay within their limits and hold FlowStates over real numbers.
FlowTypeOK ==
  /\ DOMAIN flows \subseteq Keys /\ Cardinality(DOMAIN flows) <= MaxTracked
  /\ Cardinality(DOMAIN sequences) <= MaxTracked
  /\ \A k \in DOMAIN flows :
       /\ flows[k].expected \in 0..(FlowModulus - 1)
       /\ flows[k].gap \in {NoGap} \cup 0..now
  /\ total \in Nat

Increasing(s) == \A i, j \in DOMAIN s : i < j => s[i] < s[j]

\* As long as its table is not cleared (flow_frame.rs:155-158) or replaced, a
\* reassembler releases every flow in the order it was sent and no packet twice,
\* whatever the paths lose, reorder or duplicate.
OutputOrdered == \A k \in DOMAIN out : Increasing(out[k])

\* The same over a clear, which does not hold: a cleared flow is expected to
\* start at 0 again, so a late or repeated frame may follow a younger one.
OutputOrderedAlways ==
  \A k \in DOMAIN out :
    /\ Increasing(out[k])
    /\ \A n \in Get(earlier, k, {}), i \in DOMAIN out[k] : n < out[k][i]

\* The frames all flows hold.
Buffered == UNION {{k} \X flows[k].pending : k \in DOMAIN flows}

\* pending_total is what the flows really hold: the saturating subtractions
\* never hide a miscount, also when the table is cleared.  So reordered
\* frames never take more than MAX_PENDING_TOTAL buffers.
TotalExact ==
  /\ FlowTypeOK
  /\ total = Cardinality(Buffered)
  /\ total <= MaxTotal

\* With no deadline and no full buffer, a flow whose frames have all arrived
\* has been released completely, also across the wrap of the sequence number.
Complete ==
  lossless => \A k \in DOMAIN arrived :
    arrived[k] = 0..(flowSent[k] - 1) => Len(out[k]) = flowSent[k]

\* A flow never holds more than MAX_PENDING_PER_FLOW frames.
PerFlowBounded == \A k \in DOMAIN flows : Cardinality(flows[k].pending) <= MaxPerFlow
==============================================================================
