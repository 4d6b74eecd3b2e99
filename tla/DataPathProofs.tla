--------------------------- MODULE DataPathProofs ----------------------------
(***************************************************************************)
(* The safety properties of the packet data path for every value of the    *)
(* constants, in three parts: the lock-free packet queue (PacketQueue),    *)
(* the replay filters (ReplayWindow) and the per-flow reassembler          *)
(* (FlowReassembly).                                                       *)
(***************************************************************************)
EXTENDS PacketQueue, ReplayWindow, FlowReassembly, NaturalsInduction,
        WellFoundedInduction, FiniteSetTheorems, SequenceTheorems, TLAPS

------------------------------------------------------------------------------
(* Part 1: PacketQueue.                                                     *)

(* The queue is only ever extended by one packet at the back or shortened   *)
(* by one at the front, and stays a sequence over the same set.             *)
LEMMA QueueShapes ==
  ASSUME NEW S, NEW q \in Seq(S), NEW p \in S
  PROVE  /\ Append(q, p) \in Seq(S) /\ Append(q, p) # <<>>
         /\ Len(Append(q, p)) = Len(q) + 1
         /\ q # <<>> => /\ Head(q) \in S /\ Tail(q) \in Seq(S)
                        /\ Len(Tail(q)) = Len(q) - 1
                        /\ Append(Tail(q), p) \in Seq(S)
                        /\ Append(Tail(q), p) # <<>>
                        /\ Len(Append(Tail(q), p)) = Len(q)
OBVIOUS

(* What Pushed leaves in the queue: a full lane keeps its length.           *)
LEMMA PushedShape ==
  ASSUME TypeOK, NEW s \in Senders, NEW S, queue \in Seq(S), held[s] \in S
  PROVE  /\ Pushed(s) \in Seq(S) /\ Pushed(s) # <<>>
         /\ Len(Pushed(s)) <= Capacity /\ Len(Pushed(s)) <= Len(queue) + 1
<1>1. CASE Len(queue) < Capacity
  BY <1>1, QueueShapes, CapacityPositive DEF Pushed, TypeOK
<1>2. CASE ~(Len(queue) < Capacity)
  <2>1. queue # <<>> /\ Len(queue) = Capacity
    BY <1>2, CapacityPositive DEF TypeOK
  <2> QED BY <1>2, <2>1, QueueShapes, CapacityPositive DEF Pushed, TypeOK
<1> QED BY <1>1, <1>2

------------------------------------------------------------------------------
(* Type correctness: every step of every sender and of the receiver keeps   *)
(* each field of the shared queue in its type and the lane within capacity. *)
THEOREM TypeCorrect == Spec => []TypeOK
<1>1. Init => TypeOK
  <2> SUFFICES ASSUME Init PROVE TypeOK
    OBVIOUS
  <2>1. active \in BOOLEAN
    BY ActiveBool, Zenon DEF Init
  <2>2. live \subseteq Senders
    BY Zenon DEF Init
  <2>3. NoPacket \in Packet
    BY DEF Packet, NoPacket
  <2>4. queue \in Seq(Packet) /\ Len(queue) <= Capacity
    BY CapacityPositive DEF Init
  <2>5. spc \in [Senders -> SenderPC] /\ held \in [Senders -> Packet] /\ last \in Packet
    BY <2>3 DEF Init, SenderPC
  <2>6. open \in BOOLEAN /\ permit \in BOOLEAN /\ cancelled \in BOOLEAN
    BY Zenon DEF Init
  <2>7. epoch \in Nat /\ resumes \in Nat /\ woken \in {"no", "one", "all"} /\ rpc \in ReceiverPC
    BY DEF Init, ReceiverPC
  <2> QED BY <2>1, <2>2, <2>4, <2>5, <2>6, <2>7 DEF TypeOK
<1>2. TypeOK /\ [Next]_vars => TypeOK'
  <2> SUFFICES ASSUME TypeOK, [Next]_vars PROVE TypeOK'
    OBVIOUS
  <2>1. ASSUME NEW s \in Senders, SenderStep(s) PROVE TypeOK'
    <3>1. CASE SendCheckOpen(s)
      BY <3>1 DEF SendCheckOpen, TypeOK, SenderPC, stateVars
    <3>2. CASE SendLoadState(s)
      <4>1. [epoch |-> epoch, born |-> resumes] \in Packet
        BY DEF TypeOK, Packet
      <4>2. spc' \in [Senders -> SenderPC] /\ held' \in [Senders -> Packet]
        BY <3>2, <4>1, Zenon DEF SendLoadState, TypeOK, SenderPC
      <4> QED BY <3>2, <4>2 DEF SendLoadState, TypeOK, stateVars
    <3>3. CASE ForcePush(s)
      <4>1. held[s] \in Packet BY DEF TypeOK
      <4>2. Pushed(s) \in Seq(Packet) /\ Len(Pushed(s)) <= Capacity
        BY <4>1, PushedShape DEF TypeOK
      <4> QED BY <3>3, <4>2 DEF ForcePush, TypeOK, SenderPC, stateVars
    <3>4. CASE TryPushFull(s)
      BY <3>4 DEF TryPushFull, TypeOK, SenderPC, stateVars
    <3>5. CASE SendNotify(s)
      BY <3>5 DEF SendNotify, NotifyOne, TypeOK, SenderPC, stateVars
    <3>6. CASE DropSender(s)
      BY <3>6 DEF DropSender, TypeOK, SenderPC, stateVars
    <3>7. CASE DropNotify(s)
      BY <3>7 DEF DropNotify, NotifyWaiters, TypeOK, SenderPC, stateVars
    <3> QED BY <2>1, <3>1, <3>2, <3>3, <3>4, <3>5, <3>6, <3>7 DEF SenderStep
  <2>2. ASSUME NEW s \in Senders, NEW t \in Senders, Clone(s, t) PROVE TypeOK'
    BY <2>2 DEF Clone, TypeOK, stateVars
  <2>3. CASE RecvBegin
    BY <2>3 DEF RecvBegin, TypeOK, ReceiverPC, stateVars, senderVars
  <2>4. CASE RecvContinue
    <3>1. queue # <<>> => /\ Head(queue) \in Packet /\ Tail(queue) \in Seq(Packet)
                          /\ Len(Tail(queue)) <= Capacity
      BY CapacityPositive DEF TypeOK
    <3>2. CASE TryRecv1
      BY <3>1, <3>2 DEF TryRecv1, TryRecv, TypeOK, ReceiverPC, stateVars, senderVars
    <3>3. CASE TryRecv2
      BY <3>1, <3>3 DEF TryRecv2, TryRecv, TypeOK, ReceiverPC, stateVars, senderVars
    <3>4. CASE CheckSenders1
      BY <3>4 DEF CheckSenders1, TypeOK, ReceiverPC, stateVars, senderVars
    <3>5. CASE CheckSenders2
      BY <3>5 DEF CheckSenders2, TypeOK, ReceiverPC, stateVars, senderVars
    <3>6. CASE Poll
      BY <3>6 DEF Poll, TypeOK, ReceiverPC, stateVars, senderVars
    <3>7. CASE Wake
      BY <3>7 DEF Wake, TypeOK, ReceiverPC, stateVars, senderVars
    <3>8. CASE RecvCancelled
      BY <3>8 DEF RecvCancelled, LeaveWait, TypeOK, ReceiverPC, stateVars, senderVars
    <3> QED BY <2>4, <3>2, <3>3, <3>4, <3>5, <3>6, <3>7, <3>8 DEF RecvContinue
  <2>5. CASE Abandon
    BY <2>5 DEF Abandon, LeaveWait, TypeOK, ReceiverPC, stateVars, senderVars
  <2>6. CASE Cancel
    BY <2>6 DEF Cancel, TypeOK, stateVars, senderVars
  <2>7. CASE ResumeBegin
    <3>1. epoch' \in Nat /\ resumes' \in Nat
      BY <2>7 DEF ResumeBegin, TypeOK
    <3>2. active' \in BOOLEAN /\ rpc' \in ReceiverPC
      BY <2>7, Zenon DEF ResumeBegin, ReceiverPC, Purging
    <3> QED BY <2>7, <3>1, <3>2 DEF ResumeBegin, TypeOK, senderVars
  <2>8. CASE SuspendBegin
    BY <2>8 DEF SuspendBegin, TypeOK, ReceiverPC, Purging, senderVars
  <2>9. CASE DropReceiver
    BY <2>9 DEF DropReceiver, TypeOK, ReceiverPC, Purging, senderVars, stateVars
  <2>10. CASE PurgeOne
    BY <2>10, CapacityPositive DEF PurgeOne, TypeOK, senderVars, stateVars
  <2>11. CASE PurgeDone
    <3>1. active' \in BOOLEAN
      BY <2>11, Zenon DEF PurgeDone, TypeOK
    <3>2. rpc' \in ReceiverPC /\ woken' \in {"no", "one", "all"}
      BY <2>11 DEF PurgeDone, NotifyWaiters, TypeOK, ReceiverPC
    <3> QED BY <2>11, <3>1, <3>2 DEF PurgeDone, NotifyWaiters, TypeOK, senderVars
  <2>12. CASE UNCHANGED vars
    BY <2>12 DEF vars, TypeOK
  <2> QED
    BY <2>1, <2>2, <2>3, <2>4, <2>5, <2>6, <2>7, <2>8, <2>9, <2>10, <2>11, <2>12
       DEF Next, PurgeContinue
<1> QED BY <1>1, <1>2, PTL DEF Spec

------------------------------------------------------------------------------
(* No lost wakeup.  NoLostWakeup speaks of the sleeping receiver only; to   *)
(* be inductive it must also hold along the way to sleep: from the moment   *)
(* the second try_recv found the queue empty, a queued packet is announced  *)
(* by a permit or about to be; from the creation of the Notified future, the *)
(* departure of the last sender has completed it or is about to.            *)
Armed == rpc \in {"second", "senders2", "poll", "wait"}
SomePushed == \E s \in Senders : spc[s] = "pushed"
SomeReleased == \E s \in Senders : spc[s] = "released"

PermitInv == Asleep => ~permit
PacketInv == (rpc \in {"senders2", "poll"} \/ Asleep) /\ queue # <<>> => permit \/ SomePushed
LastSenderInv == Armed /\ live = {} => woken # "no" \/ SomeReleased
WakeInv == PermitInv /\ PacketInv /\ LastSenderInv

(* The invariant of the wakeups is kept by every step.                       *)
LEMMA WakeInvStep == TypeOK /\ WakeInv /\ [Next]_vars => WakeInv'
<1> SUFFICES ASSUME TypeOK, WakeInv, [Next]_vars PROVE WakeInv'
  OBVIOUS
<1> USE DEF WakeInv, PermitInv, PacketInv, LastSenderInv, Armed, Asleep, SomePushed, SomeReleased
<1>1. ASSUME NEW s \in Senders, SenderStep(s) PROVE WakeInv'
  <2>1. CASE SendCheckOpen(s)
    BY <2>1 DEF SendCheckOpen, TypeOK
  <2>2. CASE SendLoadState(s)
    <3>1. \A t \in Senders : spc[t] \in {"pushed", "released"} => spc'[t] = spc[t]
      BY <2>2 DEF SendLoadState, TypeOK
    <3> QED BY <2>2, <3>1 DEF SendLoadState
  <2>3. CASE ForcePush(s)
    <3>1. spc'[s] = "pushed" /\ \A t \in Senders : spc[t] = "released" => spc'[t] = spc[t]
      BY <2>3 DEF ForcePush, TypeOK
    <3> QED BY <2>3, <3>1 DEF ForcePush
  <2>4. CASE TryPushFull(s)
    BY <2>4 DEF TryPushFull, TypeOK
  <2>5. CASE SendNotify(s)
    <3>1. \A t \in Senders : spc[t] = "released" => spc'[t] = spc[t]
      BY <2>5 DEF SendNotify, TypeOK
    <3> QED BY <2>5, <3>1 DEF SendNotify, NotifyOne
  <2>6. CASE DropSender(s)
    <3>1. \A t \in Senders : spc[t] \in {"pushed", "released"} => spc'[t] = spc[t]
      BY <2>6 DEF DropSender, TypeOK
    <3>2. live' = {} => spc'[s] = "released"
      BY <2>6 DEF DropSender, TypeOK
    <3> QED BY <2>6, <3>1, <3>2 DEF DropSender
  <2>7. CASE DropNotify(s)
    <3>1. \A t \in Senders : spc[t] = "pushed" => spc'[t] = spc[t]
      BY <2>7 DEF DropNotify, TypeOK
    <3> QED BY <2>7, <3>1 DEF DropNotify, NotifyWaiters
  <2> QED BY <1>1, <2>1, <2>2, <2>3, <2>4, <2>5, <2>6, <2>7 DEF SenderStep
<1>2. ASSUME NEW s \in Senders, NEW t \in Senders, Clone(s, t) PROVE WakeInv'
  BY <1>2 DEF Clone
<1>3. CASE RecvBegin
  BY <1>3 DEF RecvBegin, senderVars
<1>4. CASE RecvContinue
  <2>1. CASE TryRecv1
    BY <2>1 DEF TryRecv1, TryRecv, senderVars
  <2>2. CASE TryRecv2
    BY <2>2 DEF TryRecv2, TryRecv, senderVars
  <2>3. CASE CheckSenders1
    BY <2>3 DEF CheckSenders1, senderVars
  <2>4. CASE CheckSenders2
    BY <2>4 DEF CheckSenders2, senderVars
  <2>5. CASE Poll
    BY <2>5 DEF Poll, senderVars
  <2>6. CASE Wake
    BY <2>6 DEF Wake, senderVars
  <2>7. CASE RecvCancelled
    BY <2>7 DEF RecvCancelled, LeaveWait, senderVars
  <2> QED BY <1>4, <2>1, <2>2, <2>3, <2>4, <2>5, <2>6, <2>7 DEF RecvContinue
<1>5. CASE Abandon
  BY <1>5 DEF Abandon, LeaveWait, senderVars
<1>6. CASE Cancel
  BY <1>6 DEF Cancel, senderVars
<1>7. CASE ResumeBegin \/ SuspendBegin \/ DropReceiver
  BY <1>7 DEF ResumeBegin, SuspendBegin, DropReceiver, senderVars
<1>8. CASE PurgeOne \/ PurgeDone
  BY <1>8 DEF PurgeOne, PurgeDone, NotifyWaiters, Purging, senderVars
<1>9. CASE UNCHANGED vars
  BY <1>9 DEF vars
<1> QED BY <1>1, <1>2, <1>3, <1>4, <1>5, <1>6, <1>7, <1>8, <1>9 DEF Next, PurgeContinue

(* A receiver parked on the Notify is never parked for good: whoever pushed  *)
(* a packet after its last look, or dropped the last handle, still has its   *)
(* notification to deliver.                                                  *)
THEOREM WakeupNeverLost == Spec => []NoLostWakeup
<1>1. Init => WakeInv
  BY DEF Init, WakeInv, PermitInv, PacketInv, LastSenderInv, Armed, Asleep
<1>2. WakeInv => NoLostWakeup
  BY DEF WakeInv, PermitInv, PacketInv, LastSenderInv, Armed, Asleep, SomePushed,
         SomeReleased, NoLostWakeup
<1> QED BY <1>1, <1>2, TypeCorrect, WakeInvStep, PTL DEF Spec

------------------------------------------------------------------------------
(* Freshness.  The epoch counts the resumes, and every packet that exists   *)
(* carries the epoch of the resume it was admitted after.                   *)
Tagged == {p \in Packet : p.epoch = p.born}
EpochInv == epoch = resumes /\ queue \in Seq(Tagged) /\ held \in [Senders -> Tagged]

(* The invariant of the epochs is kept by every step.                        *)
LEMMA EpochInvStep == TypeOK /\ EpochInv /\ [Next]_vars => EpochInv'
<1> SUFFICES ASSUME TypeOK, EpochInv, [Next]_vars PROVE EpochInv'
  OBVIOUS
<1> USE DEF EpochInv
<1>0. queue # <<>> => Tail(queue) \in Seq(Tagged)
  OBVIOUS
<1>1. ASSUME NEW s \in Senders, SenderStep(s) PROVE EpochInv'
  <2>1. CASE SendLoadState(s)
    <3>1. [epoch |-> epoch, born |-> resumes] \in Tagged
      BY DEF TypeOK, Tagged, Packet
    <3>2. held' \in [Senders -> Tagged]
      BY <2>1, <3>1, Zenon DEF SendLoadState
    <3> QED BY <2>1, <3>2 DEF SendLoadState, stateVars
  <2>2. CASE ForcePush(s)
    <3>1. Pushed(s) \in Seq(Tagged)
      BY PushedShape
    <3> QED BY <2>2, <3>1 DEF ForcePush, stateVars
  <2>3. CASE SendCheckOpen(s) \/ TryPushFull(s) \/ SendNotify(s) \/ DropSender(s) \/ DropNotify(s)
    BY <2>3 DEF SendCheckOpen, TryPushFull, SendNotify, DropSender, DropNotify, stateVars
  <2> QED BY <1>1, <2>1, <2>2, <2>3 DEF SenderStep
<1>2. ASSUME NEW s \in Senders, NEW t \in Senders, Clone(s, t) PROVE EpochInv'
  BY <1>2 DEF Clone, stateVars
<1>3. CASE TryRecv1 \/ TryRecv2
  BY <1>0, <1>3 DEF TryRecv1, TryRecv2, TryRecv, stateVars, senderVars
<1>4. CASE RecvBegin \/ CheckSenders1 \/ CheckSenders2 \/ Poll \/ Wake
  BY <1>4 DEF RecvBegin, CheckSenders1, CheckSenders2, Poll, Wake, stateVars, senderVars
<1>5. CASE RecvCancelled \/ Abandon \/ Cancel \/ SuspendBegin \/ DropReceiver
  BY <1>5 DEF RecvCancelled, Abandon, LeaveWait, Cancel, SuspendBegin, DropReceiver,
              stateVars, senderVars
<1>6. CASE ResumeBegin
  BY <1>6 DEF ResumeBegin, senderVars
<1>7. CASE PurgeOne \/ PurgeDone
  BY <1>0, <1>7 DEF PurgeOne, PurgeDone, stateVars, senderVars
<1>8. CASE UNCHANGED vars
  BY <1>8 DEF vars
<1> QED
  BY <1>1, <1>2, <1>3, <1>4, <1>5, <1>6, <1>7, <1>8 DEF Next, RecvContinue, PurgeContinue

(* The invariant of the epochs always holds.                                 *)
LEMMA EpochInvariant == Spec => []EpochInv
<1>1. Init => EpochInv
  <2>1. NoPacket \in Tagged
    BY DEF NoPacket, Tagged, Packet
  <2> QED BY <2>1 DEF Init, EpochInv
<1> QED BY <1>1, TypeCorrect, EpochInvStep, PTL DEF Spec

(* Whatever the receiver is handed was admitted since the last resume(): a   *)
(* packet a sender tagged before it is discarded even when it lands after    *)
(* the purge.                                                                *)
THEOREM DeliveryIsFresh == Spec => DeliveredFresh
<1>1. TypeOK /\ EpochInv /\ [Next]_vars => [Delivers => last'.born = resumes]_vars
  <2> SUFFICES ASSUME TypeOK, EpochInv, Next, Delivers
               PROVE  last'.born = resumes
    OBVIOUS
  <2>1. queue # <<>> => Head(queue) \in Tagged
    BY DEF EpochInv
  <2>2. CASE TryRecv1
    BY <2>1, <2>2 DEF TryRecv1, TryRecv, Delivers, Fresh, Tagged, EpochInv
  <2>3. CASE TryRecv2
    BY <2>1, <2>3 DEF TryRecv2, TryRecv, Delivers, Fresh, Tagged, EpochInv
  <2>4. ASSUME NEW s \in Senders, SenderStep(s) PROVE FALSE
    BY <2>4 DEF Delivers, SenderStep, SendCheckOpen, SendLoadState, ForcePush, TryPushFull,
                SendNotify, DropSender, DropNotify
  <2>5. ASSUME NEW s \in Senders, NEW t \in Senders, Clone(s, t) PROVE FALSE
    BY <2>5 DEF Delivers, Clone
  <2>6. CASE CheckSenders1 \/ CheckSenders2 \/ Poll \/ Wake \/ RecvCancelled \/ RecvBegin
    BY <2>6 DEF Delivers, CheckSenders1, CheckSenders2, Poll, Wake, RecvCancelled, LeaveWait, RecvBegin
  <2>7. CASE Abandon \/ Cancel \/ ResumeBegin \/ SuspendBegin \/ DropReceiver \/ PurgeContinue
    BY <2>7 DEF Delivers, Abandon, LeaveWait, Cancel, ResumeBegin, SuspendBegin, DropReceiver,
                PurgeContinue, PurgeOne, PurgeDone, Purging
  <2> QED BY <2>2, <2>3, <2>4, <2>5, <2>6, <2>7 DEF Next, RecvContinue
<1> QED BY <1>1, TypeCorrect, EpochInvariant, PTL DEF Spec, DeliveredFresh

------------------------------------------------------------------------------
(* Stranded packets.  receiver_open is false exactly from the destruction   *)
(* of the receiver on, so after its purge every packet in the queue came    *)
(* from a distinct handle that had passed the check before.                 *)
ClosedInv == rpc \in {"dropping", "gone"} => ~open
StrandedInv == ClosedInv /\ StrandedBounded

(* The packets still under way are finitely many.                            *)
LEMMA InFlightFinite ==
  /\ IsFiniteSet(InFlight) /\ Cardinality(InFlight) \in Nat
  /\ Cardinality(Senders) \in Nat /\ Cardinality(InFlight) <= Cardinality(Senders)
BY SendersFinite, FS_Subset, FS_CardinalityType DEF InFlight

(* A packet that lands is one less under way.                                *)
LEMMA InFlightShrinks ==
  ASSUME NEW s \in InFlight, InFlight' = InFlight \ {s}
  PROVE  Cardinality(InFlight') = Cardinality(InFlight) - 1
BY InFlightFinite, FS_RemoveElement

(* The count of stranded buffers is kept by every step.                      *)
LEMMA StrandedInvStep == TypeOK /\ StrandedInv /\ [Next]_vars => StrandedInv'
<1> SUFFICES ASSUME TypeOK, StrandedInv, [Next]_vars PROVE StrandedInv'
  OBVIOUS
<1> USE DEF StrandedInv, ClosedInv, StrandedBounded
<1>0. Len(queue) \in Nat
  BY DEF TypeOK
<1>1. ASSUME NEW s \in Senders, SenderStep(s) PROVE StrandedInv'
  <2>1. CASE SendCheckOpen(s)
    BY <2>1 DEF SendCheckOpen
  <2>2. CASE SendLoadState(s)
    <3>1. CASE active
      <4>1. InFlight' = InFlight
        BY <2>2, <3>1 DEF SendLoadState, InFlight, TypeOK
      <4> QED BY <2>2, <4>1 DEF SendLoadState
    <3>2. CASE ~active
      <4>1. s \in InFlight /\ InFlight' = InFlight \ {s}
        BY <2>2, <3>2 DEF SendLoadState, InFlight, TypeOK
      <4>2. Cardinality(InFlight') = Cardinality(InFlight) - 1
        BY <4>1, InFlightShrinks
      <4> QED BY <1>0, <2>2, <4>2, InFlightFinite DEF SendLoadState
    <3> QED BY <3>1, <3>2
  <2>3. CASE ForcePush(s)
    <3>1. s \in InFlight /\ InFlight' = InFlight \ {s}
      BY <2>3 DEF ForcePush, InFlight, TypeOK
    <3>2. held[s] \in Packet
      BY DEF TypeOK
    <3>3. Len(Pushed(s)) <= Len(queue) + 1 /\ Len(Pushed(s)) \in Nat
      BY <3>2, PushedShape DEF TypeOK
    <3>4. Cardinality(InFlight') = Cardinality(InFlight) - 1
      BY <3>1, InFlightShrinks
    <3> QED BY <1>0, <2>3, <3>3, <3>4, InFlightFinite DEF ForcePush
  <2>4. CASE TryPushFull(s)
    <3>1. s \in InFlight /\ InFlight' = InFlight \ {s}
      BY <2>4 DEF TryPushFull, InFlight, TypeOK
    <3>2. Cardinality(InFlight') = Cardinality(InFlight) - 1
      BY <3>1, InFlightShrinks
    <3> QED BY <1>0, <2>4, <3>2, InFlightFinite DEF TryPushFull
  <2>5. CASE SendNotify(s) \/ DropSender(s) \/ DropNotify(s)
    <3>1. InFlight' = InFlight
      BY <2>5 DEF SendNotify, DropSender, DropNotify, InFlight, TypeOK
    <3> QED BY <2>5, <3>1 DEF SendNotify, DropSender, DropNotify
  <2> QED BY <1>1, <2>1, <2>2, <2>3, <2>4, <2>5 DEF SenderStep
<1>2. ASSUME NEW s \in Senders, NEW t \in Senders, Clone(s, t) PROVE StrandedInv'
  BY <1>2 DEF Clone, InFlight
<1>3. CASE RecvBegin \/ RecvContinue \/ Abandon
  BY <1>3 DEF RecvBegin, RecvContinue, TryRecv1, TryRecv2, TryRecv, CheckSenders1, CheckSenders2,
              Poll, Wake, RecvCancelled, Abandon, LeaveWait
<1>4. CASE Cancel
  BY <1>4 DEF Cancel, InFlight, senderVars
<1>5. CASE ResumeBegin \/ SuspendBegin \/ DropReceiver
  BY <1>5 DEF ResumeBegin, SuspendBegin, DropReceiver
<1>6. CASE PurgeOne
  BY <1>6 DEF PurgeOne, Purging
<1>7. CASE PurgeDone
  <2>1. InFlight' = InFlight /\ Len(queue') = 0
    BY <1>7 DEF PurgeDone, InFlight, senderVars
  <2>2. rpc' = "gone" => ~open'
    BY <1>7 DEF PurgeDone
  <2>3. rpc' # "dropping"
    BY <1>7 DEF PurgeDone
  <2> QED BY <2>1, <2>2, <2>3, InFlightFinite
<1>8. CASE UNCHANGED vars
  BY <1>8 DEF vars, InFlight
<1> QED BY <1>1, <1>2, <1>3, <1>4, <1>5, <1>6, <1>7, <1>8 DEF Next, PurgeContinue

(* A lane whose receiver is gone pins at most one packet buffer per sender   *)
(* handle, whatever interleaving of sends and destruction led there.         *)
THEOREM StrandingIsBounded == Spec => []StrandedBounded
<1>1. Init => StrandedInv
  BY DEF Init, StrandedInv, ClosedInv, StrandedBounded
<1>2. StrandedInv => StrandedBounded
  BY DEF StrandedInv
<1> QED BY <1>1, <1>2, TypeCorrect, StrandedInvStep, PTL DEF Spec

------------------------------------------------------------------------------
(* Part 2: ReplayWindow.                                                    *)

(* Arithmetic of remainders, also used by part 3.                           *)

(* What the division of integers returns.                                    *)
LEMMA ModRange ==
  ASSUME NEW a \in Int, NEW b \in Nat \ {0}
  PROVE  a % b \in 0 .. b - 1 /\ a \div b \in Int /\ a = b * (a \div b) + (a % b)
<1>1. a % b \in 0 .. b - 1 /\ a \div b \in Int
  OBVIOUS
<1>2. a = b * (a \div b) + (a % b)
  BY Z3
<1> QED BY <1>1, <1>2

(* A positive multiple is no smaller than the factor.                        *)
LEMMA MulLess ==
  ASSUME NEW b \in Nat \ {0}, NEW k \in Int, 0 < k
  PROVE  b * k >= b
OBVIOUS

(* A remainder is determined by its range.                                   *)
LEMMA ModUnique ==
  ASSUME NEW a \in Int, NEW b \in Nat \ {0}, NEW k \in Int, NEW r \in 0 .. b - 1, a = b * k + r
  PROVE  a % b = r
<1>1. PICK q, s : q = a \div b /\ s = a % b
  OBVIOUS
<1>2. q \in Int /\ s \in 0 .. b - 1 /\ a = b * q + s
  BY <1>1, ModRange
<1>3. b * (k - q) = s - r /\ b * (q - k) = r - s
  BY <1>2
<1>4. ~(k > q)
  <2> SUFFICES ASSUME k - q > 0 PROVE FALSE
    BY <1>2
  <2>1. b * (k - q) >= b
    BY <1>2, MulLess
  <2> QED BY <2>1, <1>2, <1>3
<1>5. ~(q > k)
  <2> SUFFICES ASSUME q - k > 0 PROVE FALSE
    BY <1>2
  <2>1. b * (q - k) >= b
    BY <1>2, MulLess
  <2> QED BY <2>1, <1>2, <1>3
<1>6. k = q
  BY <1>2, <1>4, <1>5
<1> QED BY <1>1, <1>2, <1>6

(* Adding a multiple changes no remainder.                                   *)
LEMMA ModShift ==
  ASSUME NEW a \in Int, NEW b \in Nat \ {0}, NEW k \in Int
  PROVE  (a + b * k) % b = a % b
<1>1. PICK q, r : q = a \div b /\ r = a % b
  OBVIOUS
<1>2. q \in Int /\ r \in 0 .. b - 1 /\ a = b * q + r
  BY <1>1, ModRange
<1>3. a + b * k \in Int /\ q + k \in Int /\ a + b * k = b * (q + k) + r
  BY <1>2
<1>4. PICK c, p : c = a + b * k /\ p = q + k
  OBVIOUS
<1>5. c \in Int /\ p \in Int /\ c = b * p + r
  BY <1>3, <1>4
<1>6. c % b = r
  BY <1>2, <1>5, ModUnique
<1> QED BY <1>1, <1>4, <1>6

(* Two numbers with the same remainder are equal or at least b apart.        *)
LEMMA ModApart ==
  ASSUME NEW a \in Int, NEW c \in Int, NEW b \in Nat \ {0}, a % b = c % b, a - c < b, c - a < b
  PROVE  a = c
<1>1. PICK q, p, r : q = a \div b /\ p = c \div b /\ r = a % b
  OBVIOUS
<1>2. q \in Int /\ p \in Int /\ r \in 0 .. b - 1 /\ a = b * q + r /\ c = b * p + r
  BY <1>1, ModRange
<1>3. a - c = b * (q - p) /\ c - a = b * (p - q)
  BY <1>2
<1>4. ~(q > p)
  <2> SUFFICES ASSUME q - p > 0 PROVE FALSE
    BY <1>2
  <2>1. b * (q - p) >= b
    BY <1>2, MulLess
  <2> QED BY <2>1, <1>2, <1>3
<1>5. ~(p > q)
  <2> SUFFICES ASSUME p - q > 0 PROVE FALSE
    BY <1>2
  <2>1. b * (p - q) >= b
    BY <1>2, MulLess
  <2> QED BY <2>1, <1>2, <1>3
<1>6. q = p
  BY <1>2, <1>4, <1>5
<1> QED BY <1>2, <1>6

(* The remainder by a divisor of the modulus survives the modulus.           *)
LEMMA ModMod ==
  ASSUME NEW a \in Int, NEW m \in Nat \ {0}, NEW b \in Nat \ {0}, m % b = 0, NEW i \in Int
  PROVE  ((a % m) + i) % b = (a + i) % b
<1>1. PICK q, r, d, x : q = a \div m /\ r = a % m /\ d = m \div b /\ x = r + i
  OBVIOUS
<1>2. q \in Int /\ r \in Int /\ d \in Int /\ a = m * q + r /\ x \in Int
  <2>1. q \in Int /\ r \in Int /\ a = m * q + r
    BY <1>1, ModRange
  <2>2. d \in Int
    BY <1>1
  <2>3. x \in Int
    BY <1>1, <2>1
  <2> QED BY <2>1, <2>2, <2>3
<1>3. m = b * d
  <2>1. m \in Int /\ m = b * (m \div b) + (m % b)
    BY ModRange
  <2> QED BY <2>1, <1>1, <1>2
<1>4. m * q = b * (d * q) /\ d * q \in Int
  BY <1>2, <1>3
<1>5. PICK k : k = d * q
  OBVIOUS
<1>6. a = r + b * k /\ k \in Int /\ b * k \in Int
  BY <1>2, <1>4, <1>5
<1>7. PICK y : y = b * k
  OBVIOUS
<1>8. a + i = x + y
  <2>1. a = r + y /\ y \in Int /\ r \in Int /\ x = r + i
    BY <1>1, <1>2, <1>6, <1>7, Zenon
  <2> QED BY <2>1
<1>9. (x + b * k) % b = x % b
  BY <1>2, <1>6, ModShift
<1> QED BY <1>1, <1>7, <1>8, <1>9

(* The distance of two wrapping numbers.                                     *)
LEMMA ModMinus ==
  ASSUME NEW a \in Int, NEW c \in Int, NEW m \in Nat \ {0}
  PROVE  ((a % m) - (c % m)) % m = (a - c) % m
<1>1. PICK q, p, r, t : q = a \div m /\ p = c \div m /\ r = a % m /\ t = c % m
  OBVIOUS
<1>2. q \in Int /\ p \in Int /\ r \in Int /\ t \in Int /\ a = m * q + r /\ c = m * p + t
  BY <1>1, ModRange
<1>3. a - c = (r - t) + m * (q - p) /\ r - t \in Int /\ q - p \in Int
  BY <1>2
<1>4. PICK x, k : x = r - t /\ k = q - p
  OBVIOUS
<1>5. x \in Int /\ k \in Int /\ a - c = x + m * k
  BY <1>3, <1>4
<1>6. (x + m * k) % m = x % m
  BY <1>5, ModShift
<1> QED BY <1>1, <1>4, <1>5, <1>6

(* A remainder of a small number.                                            *)
LEMMA ModSmall ==
  ASSUME NEW m \in Nat \ {0}, NEW d \in Int
  PROVE  /\ 0 <= d /\ d < m => d % m = d
         /\ 0 - m <= d /\ d < 0 => d % m = d + m
<1>1. ASSUME 0 <= d, d < m PROVE d % m = d
  <2>1. 0 \in Int /\ d \in 0 .. m - 1 /\ d = m * 0 + d
    BY <1>1
  <2> QED BY <2>1, ModUnique
<1>2. ASSUME 0 - m <= d, d < 0 PROVE d % m = d + m
  <2>1. PICK r : r = d + m
    OBVIOUS
  <2>2. -1 \in Int /\ r \in 0 .. m - 1 /\ d = m * (-1) + r
    BY <1>2, <2>1
  <2>3. d % m = r
    BY <2>2, ModUnique
  <2> QED BY <2>1, <2>3
<1> QED BY <1>1, <1>2

(* Numbers less than a modulus apart lie in the same cycle or in adjacent    *)
(* ones.                                                                     *)
LEMMA Cycles ==
  ASSUME NEW m \in Nat \ {0}, NEW a \in Int, NEW c \in Int, a - c < m, c - a < m
  PROVE  \/ c - (c % m) = a - (a % m)
         \/ c - (c % m) = (a - (a % m)) + m
         \/ c - (c % m) = (a - (a % m)) - m
<1>1. PICK q, p, r, t : q = a \div m /\ p = c \div m /\ r = a % m /\ t = c % m
  OBVIOUS
<1>2. /\ q \in Int /\ p \in Int /\ r \in 0 .. m - 1 /\ t \in 0 .. m - 1
      /\ a = m * q + r /\ c = m * p + t
  BY <1>1, ModRange
<1>3. PICK k : k = p - q
  OBVIOUS
<1>4. k \in Int /\ m * p = m * q + m * k /\ m * q \in Int /\ m * p \in Int /\ m * k \in Int
  BY <1>2, <1>3
<1>5. m * k < 2 * m /\ m * k > 0 - 2 * m
  <2>1. PICK x, y, z : x = m * q /\ y = m * p /\ z = m * k
    OBVIOUS
  <2>2. /\ x \in Int /\ y \in Int /\ z \in Int /\ y = x + z
        /\ a = x + r /\ c = y + t
    BY <1>2, <1>4, <2>1, Zenon
  <2>3. z < 2 * m /\ z > 0 - 2 * m
    BY <2>2, <1>2
  <2> QED BY <2>1, <2>3
<1>6. k = 0 \/ k = 1 \/ k = -1
  <2>1. ASSUME k >= 2 PROVE FALSE
    <3>1. m * (k - 1) >= m
      BY <2>1, <1>4, MulLess
    <3>2. m * (k - 1) = m * k - m
      BY <1>4
    <3> QED BY <3>1, <3>2, <1>4, <1>5
  <2>2. ASSUME k <= -2 PROVE FALSE
    <3>1. m * (-1 - k) >= m
      <4>1. -1 - k \in Int /\ 0 < -1 - k
        BY <2>2, <1>4
      <4> QED BY <4>1, MulLess
    <3>2. m * (-1 - k) = 0 - m - m * k
      BY <1>4
    <3> QED BY <3>1, <3>2, <1>4, <1>5
  <2> QED BY <2>1, <2>2, <1>4
<1>7. m * k = 0 \/ m * k = m \/ m * k = 0 - m
  BY <1>6
<1>8. a - r = m * q /\ c - t = m * p
  BY <1>2, <1>4
<1>9. \/ m * p = m * q \/ m * p = m * q + m \/ m * p = m * q - m
  BY <1>4, <1>7
<1> QED BY <1>1, <1>8, <1>9

(* A bounded set of numbers has a greatest one, and Max is it.               *)
LEMMA MaxFacts ==
  ASSUME NEW B \in Nat, NEW S \in SUBSET (0 .. B), S # {}
  PROVE  Max(S) \in S /\ Max(S) \in Nat /\ \A y \in S : Max(S) >= y
<1> DEFINE D == {B - s : s \in S}
           R == OpToRel(<, Nat)
<1>2. D \in SUBSET Nat /\ D # {}
  <2>1. \A s \in S : B - s \in Nat
    OBVIOUS
  <2>2. PICK s \in S : TRUE
    OBVIOUS
  <2>3. B - s \in D
    BY <2>2
  <2> QED BY <2>1, <2>3
<1>3. \A x, y \in Nat : <<y, x>> \in R <=> y < x
  BY DEF OpToRel
<1>4. IsWellFoundedOn(R, Nat)
  BY NatLessThanWellFounded
<1> HIDE DEF R
<1>5. PICK x \in D : \A y \in D : ~ (<<y, x>> \in R)
  BY <1>2, <1>4, WFMin
<1>6. PICK t \in S : x = B - t
  BY <1>5
<1>7. ASSUME NEW u \in S PROVE t >= u
  <2> DEFINE y == B - u
  <2>1. y \in D /\ y \in Nat /\ x \in Nat
    BY <1>2
  <2>2. ~ (y < x)
    BY <2>1, <1>3, <1>5
  <2> QED BY <2>2, <1>6
<1>8. \E z \in S : \A y \in S : z >= y
  BY <1>7, Zenon
<1>9. Max(S) \in S /\ \A y \in S : Max(S) >= y
  BY <1>8, Zenon DEF Max
<1>10. Max(S) \in Nat
  <2>1. \A z \in S : z \in Nat
    OBVIOUS
  <2> QED BY <1>9, <2>1, Zenon
<1> QED BY <1>9, <1>10

(* The greatest element of a set, from its definition.                       *)
LEMMA MaxIs ==
  ASSUME NEW S \in SUBSET Nat, NEW h \in S, \A y \in S : h >= y
  PROVE  Max(S) = h
<1>1. Max(S) \in S /\ \A y \in S : Max(S) >= y
  BY Zenon DEF Max
<1>2. Max(S) >= h /\ h >= Max(S) /\ Max(S) \in Nat /\ h \in Nat
  BY <1>1
<1> QED BY <1>2

(* Where the ring keeps the bit of packet n.                                 *)
Slot(n) == (start + n) % Window

(* The number of packet h as the filter of this side keeps it.               *)
Kept(h) == IF side = "server" THEN (start + h) % Modulus ELSE start + h

ReplayFits == ReplayTypes /\ (FirstInOrder \/ "client" \notin Sides)

RingTypes ==
  /\ side \in Sides /\ side \in {"server", "client"}
  /\ start \in 0 .. Modulus - 1 /\ sent \in 0 .. MaxSends
  /\ win \in [highest : Int, bits : SUBSET (0 .. Window - 1)]
  /\ acc \in SUBSET (0 .. sent - 1)

(* Bits and history agree on the packets below h that may still come.        *)
RingAgrees(h, ac, w, s) ==
  \A m \in Nat : m <= h /\ h - m < Window /\ s - m <= MaxLag
                 => (m \in ac <=> Slot(m) \in w.bits)

RingHolds ==
  IF acc = {} THEN win = [highest |-> -1, bits |-> {}]
  ELSE \E h \in acc : /\ \A y \in acc : h >= y
                      /\ win.highest = Kept(h)
                      /\ RingAgrees(h, acc, win, sent)

Verdict == verdict.ok <=> ~verdict.seen /\ verdict.age < Window

RingInv == RingTypes /\ RingHolds /\ Verdict

(* The types of the bounds.                                                  *)
LEMMA Bounds ==
  ASSUME ReplayFits
  PROVE  /\ Modulus \in Nat \ {0} /\ Window \in Nat \ {0} /\ MaxSends \in Nat
         /\ MaxLag \in Nat /\ MaxJump \in Nat /\ Modulus % Window = 0 /\ 2 * Window <= Modulus
         /\ Half \in Nat /\ MaxLag <= Half /\ MaxJump < Half
         /\ 2 * Half <= Modulus
         /\ Sides \subseteq {"server", "client"}
<1>1. /\ Modulus \in Nat \ {0} /\ Window \in Nat \ {0} /\ MaxSends \in Nat
      /\ MaxLag \in Nat /\ MaxJump \in Nat /\ Modulus % Window = 0 /\ 2 * Window <= Modulus
      /\ MaxLag <= Half /\ MaxJump < Half /\ Sides \subseteq {"server", "client"}
  <2>1. {Modulus, Window, MaxSends, MaxLag, MaxJump} \subseteq Nat \ {0}
    BY Zenon DEF ReplayFits, ReplayTypes
  <2> QED BY <2>1 DEF ReplayFits, ReplayTypes, Half
<1>2. Half \in Nat /\ 2 * Half <= Modulus
  BY <1>1 DEF Half
<1> QED BY <1>1, <1>2

(* Both sides address the ring by the true number.                           *)
LEMMA KeptSlot ==
  ASSUME ReplayFits, RingTypes, NEW h \in Nat
  PROVE  /\ Kept(h) \in Nat
         /\ \A i \in Nat : (Kept(h) + i) % Window = Slot(h + i)
         /\ Wire(h) \in 0 .. Modulus - 1
         /\ Bit(Wire(h)) = Slot(h)
         /\ Bit(start + h) = Slot(h)
         /\ Slot(h) \in 0 .. Window - 1
<1>0. start \in Nat /\ start + h \in Int
  BY Bounds DEF RingTypes
<1>1. (start + h) % Modulus \in 0 .. Modulus - 1 /\ Slot(h) \in 0 .. Window - 1
  BY <1>0, Bounds, ModRange DEF Slot
<1>2. ASSUME NEW i \in Nat PROVE (((start + h) % Modulus) + i) % Window = Slot(h + i)
  <2>1. PICK a : a = start + h
    OBVIOUS
  <2>2. a \in Int /\ i \in Int /\ a + i = start + (h + i)
    BY <2>1, <1>0
  <2>3. ((a % Modulus) + i) % Window = (a + i) % Window
    BY <2>2, Bounds, ModMod
  <2> QED BY <2>1, <2>2, <2>3 DEF Slot
<1>3. ((start + h) % Modulus) % Window = Slot(h)
  <2>1. (((start + h) % Modulus) + 0) % Window = Slot(h + 0)
    BY <1>2
  <2>2. ((start + h) % Modulus) + 0 = (start + h) % Modulus /\ h + 0 = h
    BY <1>1, Bounds
  <2> QED BY <2>1, <2>2
<1>4. ASSUME NEW i \in Nat PROVE ((start + h) + i) % Window = Slot(h + i)
  <2>1. (start + h) + i = start + (h + i)
    BY <1>0
  <2> QED BY <2>1 DEF Slot
<1>5. Wire(h) = (start + h) % Modulus
  BY DEF Wire
<1>6. Bit(Wire(h)) = Slot(h)
  BY <1>5, <1>3 DEF Bit
<1>7. Kept(h) \in Nat
  BY <1>1, <1>0, Bounds DEF Kept
<1>8. \A i \in Nat : (Kept(h) + i) % Window = Slot(h + i)
  BY <1>2, <1>4 DEF Kept
<1>9. Bit(start + h) = Slot(h)
  BY DEF Bit, Slot
<1> QED BY <1>1, <1>5, <1>6, <1>7, <1>8, <1>9

(* Two packets less than a window apart have different bits.                 *)
LEMMA SlotApart ==
  ASSUME ReplayFits, RingTypes, NEW m \in Nat, NEW n \in Nat, Slot(m) = Slot(n), m - n < Window, n - m < Window
  PROVE  m = n
<1>1. start \in Nat
  BY Bounds DEF RingTypes
<1>2. PICK a, c : a = start + m /\ c = start + n
  OBVIOUS
<1>3. a \in Int /\ c \in Int /\ a % Window = c % Window /\ a - c < Window /\ c - a < Window
  BY <1>1, <1>2, Bounds DEF Slot
<1>4. a = c
  BY <1>3, Bounds, ModApart
<1> QED BY <1>1, <1>2, <1>4

(* The distance of two wire numbers is the distance of the packets.          *)
LEMMA WireDistance ==
  ASSUME ReplayFits, RingTypes, NEW n \in Nat, NEW h \in Nat
  PROVE  (Wire(n) - Wire(h)) % Modulus = (n - h) % Modulus
<1>1. PICK a, c : a = start + n /\ c = start + h
  OBVIOUS
<1>2. a \in Int /\ c \in Int /\ a - c = n - h
  BY <1>1, Bounds DEF RingTypes
<1>3. ((a % Modulus) - (c % Modulus)) % Modulus = (a - c) % Modulus
  BY <1>2, Bounds, ModMinus
<1> QED BY <1>1, <1>2, <1>3 DEF Wire

(* accept_rtp recovers the true number of every packet within half the       *)
(* modulus of the highest.                                                   *)
LEMMA ExtendIs ==
  ASSUME ReplayFits, RingTypes, NEW n \in Nat, NEW h \in Nat, NEW w, w.highest = start + h,
         n - h < Half, h - n < Half
  PROVE  Extend(w, Wire(n)) = start + n
<1>1. PICK N, H, e, M, F : /\ N = start + n /\ H = start + h /\ M = Modulus /\ F = Half
                           /\ e = (H - (H % Modulus)) + (N % Modulus)
  OBVIOUS
<1>2. /\ N \in Nat /\ H \in Nat /\ M \in Nat \ {0} /\ F \in Nat /\ 2 * F <= M
      /\ N - H < F /\ H - N < F
  BY <1>1, Bounds DEF RingTypes
<1>3. N % M \in 0 .. M - 1 /\ H % M \in 0 .. M - 1
  <2>1. N \in Int /\ H \in Int
    BY <1>2
  <2> QED BY <2>1, <1>2, ModRange
<1>4. \/ H - (H % M) = N - (N % M)
      \/ H - (H % M) = (N - (N % M)) + M
      \/ H - (H % M) = (N - (N % M)) - M
  <2>1. N \in Int /\ H \in Int /\ N - H < M /\ H - N < M
    BY <1>2
  <2> QED BY <2>1, <1>2, Cycles
<1>5. e = N \/ e = N + M \/ e = N - M
  <2>1. PICK x, y : x = H % M /\ y = N % M
    OBVIOUS
  <2>2. x \in Int /\ y \in Int /\ e = (H - x) + y
    BY <2>1, <1>1, <1>3, <1>2
  <2>3. H - x = N - y \/ H - x = (N - y) + M \/ H - x = (N - y) - M
    BY <2>1, <1>4
  <2> QED BY <2>2, <2>3, <1>2
<1>6. (IF e + F < H THEN e + M ELSE IF e > H + F /\ e >= M THEN e - M ELSE e) = N
  BY <1>2, <1>5
<1>7. Extend(w, Wire(n)) =
        (IF e + F < H THEN e + M ELSE IF e > H + F /\ e >= M THEN e - M ELSE e)
  BY <1>1 DEF Extend, Wire
<1> QED BY <1>1, <1>6, <1>7

(* What the filters do with packet n, in terms of the true numbers: before    *)
(* the first packet, ahead of the highest, and at or behind it.               *)
LEMMA AcceptFirst ==
  ASSUME ReplayFits, RingTypes, NEW n \in Nat, win.highest = -1, side = "client" => n = 0
  PROVE  Accept(win, Wire(n))
           = [ok |-> TRUE, w |-> [highest |-> Kept(n), bits |-> {Slot(n)}]]
<1>1. Wire(n) = Kept(n)
  <2>1. CASE side = "server"
    BY <2>1 DEF Kept, Wire
  <2>2. CASE side = "client"
    <3>1. start + n = start /\ start \in 0 .. Modulus - 1 /\ start \in Int
      BY <2>2, Bounds DEF RingTypes
    <3>2. start % Modulus = start
      BY <3>1, Bounds, ModSmall
    <3> QED BY <3>1, <3>2, <2>2 DEF Kept, Wire
  <2> QED BY <2>1, <2>2 DEF RingTypes
<1>2. Bit(Wire(n)) = Slot(n)
  BY KeptSlot
<1>3. Accept(win, Wire(n)) = First(Wire(n))
  BY DEF Accept, ServerAccept, ClientAccept, None
<1> QED BY <1>1, <1>2, <1>3 DEF First

(* A packet ahead of the window moves it and is accepted.                    *)
LEMMA AcceptAhead ==
  ASSUME ReplayFits, RingTypes, NEW n \in Nat, NEW h \in Nat, win.highest = Kept(h),
         n > h, n - h <= MaxJump
  PROVE  Accept(win, Wire(n))
           = [ok |-> TRUE,
              w |-> [highest |-> Kept(n),
                     bits |-> (IF n - h >= Window THEN {}
                               ELSE win.bits \ {Slot(h + i) : i \in 1 .. (n - h)})
                              \cup {Slot(n)}]]
<1>1. PICK d : d = n - h
  OBVIOUS
<1>2. d \in Nat /\ d > 0 /\ d < Half /\ d < Modulus
  BY <1>1, Bounds
<1>3. Accept(win, Wire(n)) = [ok |-> TRUE, w |-> Advance(win, Kept(n), d)]
  <2>1. CASE side = "server"
    <3>1. win.highest = Wire(h) /\ Wire(n) = Kept(n)
      BY <2>1 DEF Kept, Wire
    <3>2. win.highest # None
      BY KeptSlot DEF None
    <3>3. (Wire(n) - win.highest) % Modulus = d
      <4>1. (Wire(n) - Wire(h)) % Modulus = d % Modulus
        BY <1>1, WireDistance
      <4>2. d % Modulus = d
        BY <1>2, Bounds, ModSmall
      <4> QED BY <4>1, <4>2, <3>1
    <3>4. ServerAccept(win, Wire(n)) = [ok |-> TRUE, w |-> Advance(win, Wire(n), d)]
      <4>1. d # 0 /\ d < Half
        BY <1>2
      <4> QED BY <4>1, <3>2, <3>3, Zenon DEF ServerAccept
    <3> QED BY <3>4, <3>1, <2>1 DEF Accept
  <2>2. CASE side = "client"
    <3>1. win.highest = start + h /\ Kept(n) = start + n
      BY <2>2 DEF Kept
    <3>2. win.highest # None
      BY KeptSlot DEF None
    <3>3. Extend(win, Wire(n)) = Kept(n)
      BY <3>1, <1>1, <1>2, ExtendIs, Bounds
    <3>4. Kept(n) > win.highest /\ Kept(n) - win.highest = d
      BY <3>1, <1>1, <1>2 DEF RingTypes
    <3> QED BY <2>2, <3>2, <3>3, <3>4 DEF Accept, ClientAccept
  <2> QED BY <2>1, <2>2 DEF RingTypes
<1>4. Bit(Kept(n)) = Slot(n)
  BY KeptSlot DEF Kept, Wire
<1>5. \A i \in 1 .. d : Bit(win.highest + i) = Slot(h + i)
  BY KeptSlot DEF Bit
<1>6. {Bit(win.highest + i) : i \in 1 .. d} = {Slot(h + i) : i \in 1 .. d}
  BY <1>5
<1>7. Advance(win, Kept(n), d) =
        [highest |-> Kept(n),
         bits |-> (IF d >= Window THEN {} ELSE win.bits \ {Slot(h + i) : i \in 1 .. d})
                  \cup {Slot(n)}]
  BY <1>4, <1>6, Zenon DEF Advance
<1> QED BY <1>1, <1>3, <1>7

(* A packet inside the window is accepted if its slot does not hold it.      *)
LEMMA AcceptBehind ==
  ASSUME ReplayFits, RingTypes, NEW n \in Nat, NEW h \in Nat, win.highest = Kept(h),
         n <= h, h - n < MaxLag
  PROVE  Accept(win, Wire(n))
           = IF h - n >= Window \/ Slot(n) \in win.bits THEN [ok |-> FALSE, w |-> win]
             ELSE [ok |-> TRUE, w |-> [win EXCEPT !.bits = @ \cup {Slot(n)}]]
<1>1. PICK d : d = h - n
  OBVIOUS
<1>2. d \in Nat /\ d < Half /\ d < Modulus
  BY <1>1, Bounds
<1>3. Accept(win, Wire(n)) = Behind(win, Kept(n), d)
  <2>1. CASE side = "server"
    <3>1. win.highest = Wire(h) /\ Wire(n) = Kept(n)
      BY <2>1 DEF Kept, Wire
    <3>2. win.highest # None
      BY KeptSlot DEF None
    <3>3. (win.highest - Wire(n)) % Modulus = d
      <4>1. (Wire(h) - Wire(n)) % Modulus = d % Modulus
        BY <1>1, WireDistance
      <4>2. d % Modulus = d
        BY <1>2, Bounds, ModSmall
      <4> QED BY <4>1, <4>2, <3>1
    <3>4. PICK f : f = (Wire(n) - win.highest) % Modulus
      OBVIOUS
    <3>5. ~(f # 0 /\ f < Half)
      <4>1. PICK g : g = n - h
        OBVIOUS
      <4>2. g \in Int /\ g = 0 - d /\ f = g % Modulus
        <5>1. g \in Int /\ g = 0 - d
          BY <4>1, <1>1
        <5> QED BY <5>1, <4>1, <3>4, <3>1, WireDistance
      <4>3. CASE d = 0
        <5>1. g = 0
          BY <4>2, <4>3
        <5>2. g % Modulus = 0
          BY <4>2, <5>1, Bounds, ModSmall
        <5> QED BY <4>2, <5>2
      <4>4. CASE d # 0
        <5>1. 0 - Modulus <= g /\ g < 0
          BY <4>2, <4>4, <1>2, Bounds
        <5>2. g % Modulus = g + Modulus
          BY <5>1, <4>2, Bounds, ModSmall
        <5>3. f = Modulus - d
          BY <5>2, <4>2, <1>2, Bounds
        <5> QED BY <5>3, <1>2, Bounds
      <4> QED BY <4>3, <4>4
    <3>6. ServerAccept(win, Wire(n)) = Behind(win, Wire(n), d)
      BY <3>2, <3>3, <3>4, <3>5, Zenon DEF ServerAccept
    <3> QED BY <3>6, <3>1, <2>1 DEF Accept
  <2>2. CASE side = "client"
    <3>1. win.highest = start + h /\ Kept(n) = start + n
      BY <2>2 DEF Kept
    <3>2. win.highest # None
      BY KeptSlot DEF None
    <3>3. Extend(win, Wire(n)) = Kept(n)
      BY <3>1, <1>1, <1>2, ExtendIs, Bounds
    <3>4. ~(Kept(n) > win.highest) /\ win.highest - Kept(n) = d
      BY <3>1, <1>1, <1>2 DEF RingTypes
    <3> QED BY <2>2, <3>2, <3>3, <3>4 DEF Accept, ClientAccept
  <2> QED BY <2>1, <2>2 DEF RingTypes
<1>4. Bit(Kept(n)) = Slot(n)
  BY KeptSlot DEF Kept, Wire
<1> QED BY <1>1, <1>3, <1>4 DEF Behind

(* The ring is right after a step that leaves the stream alone.              *)
LEMMA RingAfter ==
  ASSUME side' = side, start' = start, NEW h \in acc', \A y \in acc' : h >= y,
         win'.highest = Kept(h), RingAgrees(h, acc', win', sent')
  PROVE  RingHolds'
<1>1. \A m : Slot(m)' = Slot(m)
  BY DEF Slot
<1>2. \A m : Kept(m)' = Kept(m)
  BY DEF Kept
<1>3. RingAgrees(h, acc, win, sent)'
  BY <1>1 DEF RingAgrees
<1>4. acc' # {}
  OBVIOUS
<1> QED BY <1>2, <1>3, <1>4, Zenon DEF RingHolds

(* The greatest accepted packet of a non-empty history.                      *)
LEMMA RingTop ==
  ASSUME ReplayFits, RingInv, acc # {}
  PROVE  \E h \in acc : /\ h \in Nat /\ h < sent /\ Max(acc) = h
                        /\ \A y \in acc : h >= y
                        /\ win.highest = Kept(h) /\ RingAgrees(h, acc, win, sent)
<1>1. PICK h \in acc : /\ \A y \in acc : h >= y
                       /\ win.highest = Kept(h) /\ RingAgrees(h, acc, win, sent)
  BY Zenon DEF RingInv, RingHolds
<1>2. acc \in SUBSET Nat /\ h \in Nat /\ h < sent
  BY Bounds DEF RingInv, RingTypes
<1>3. Max(acc) = h
  BY <1>1, <1>2, MaxIs
<1> QED BY <1>1, <1>2, <1>3

(* Before the first packet the filter remembers nothing.                     *)
LEMMA RingInit ==
  ASSUME ReplayFits, ReplayInit
  PROVE  RingInv
<1>1. RingTypes
  BY Bounds DEF RingTypes, ReplayInit, None
<1>2. RingHolds
  BY DEF RingHolds, ReplayInit, None
<1>3. Verdict
  BY Bounds DEF Verdict, ReplayInit
<1> QED BY <1>1, <1>2, <1>3 DEF RingInv

(* Sending a packet does not touch the filter.                               *)
LEMMA RingSend ==
  ASSUME ReplayFits, RingInv, Send
  PROVE  RingInv'
<1>1. /\ sent' = sent + 1 /\ side' = side /\ start' = start /\ win' = win /\ verdict' = verdict
      /\ sent < MaxSends
      /\ acc' = {m \in acc : m = Max(acc) \/ sent + 1 - m <= MaxLag}
  BY DEF Send
<1>2. RingTypes'
  <2>1. acc' \in SUBSET (0 .. sent - 1) /\ sent' \in 0 .. MaxSends /\ sent \in Nat
    <3>1. sent \in Nat /\ sent + 1 \in 0 .. MaxSends
      BY <1>1, Bounds DEF RingInv, RingTypes
    <3>2. acc' \subseteq acc /\ acc \subseteq 0 .. sent - 1
      BY <1>1, Zenon DEF RingInv, RingTypes
    <3> QED BY <3>1, <3>2, <1>1
  <2>2. acc' \in SUBSET (0 .. sent' - 1)
    BY <2>1, <1>1
  <2> QED BY <2>1, <2>2, <1>1 DEF RingInv, RingTypes
<1>3. RingHolds'
  <2>1. CASE acc = {}
    BY <2>1, <1>1 DEF RingInv, RingHolds
  <2>2. CASE acc # {}
    <3>1. PICK h \in acc : /\ h \in Nat /\ h < sent /\ Max(acc) = h
                           /\ \A y \in acc : h >= y
                           /\ win.highest = Kept(h) /\ RingAgrees(h, acc, win, sent)
      BY <2>2, RingTop
    <3>2. h \in acc' /\ \A y \in acc' : h >= y
      BY <3>1, <1>1
    <3>3. win'.highest = Kept(h)
      BY <3>1, <1>1
    <3>4. RingAgrees(h, acc', win', sent')
      <4> SUFFICES ASSUME NEW m \in Nat, m <= h, h - m < Window, sent' - m <= MaxLag
                   PROVE  m \in acc' <=> Slot(m) \in win'.bits
        BY DEF RingAgrees
      <4>1. sent \in Nat /\ sent - m <= MaxLag /\ sent + 1 - m <= MaxLag
        BY <1>1, Bounds DEF RingInv, RingTypes
      <4>2. m \in acc <=> Slot(m) \in win.bits
        BY <4>1, <3>1 DEF RingAgrees
      <4>3. m \in acc' <=> m \in acc
        BY <4>1, <1>1
      <4> QED BY <4>2, <4>3, <1>1
    <3> QED BY <3>2, <3>3, <3>4, <1>1, RingAfter
  <2> QED BY <2>1, <2>2
<1>4. Verdict'
  BY <1>1 DEF Verdict, RingInv
<1> QED BY <1>2, <1>3, <1>4 DEF RingInv

(* What an arrival leaves, in terms of the filter's answer v.                *)
LEMMA Arrival ==
  ASSUME NEW n, Arrive(n), NEW v, v = Accept(win, Wire(n))
  PROVE  /\ win' = v.w
         /\ acc' = IF v.ok THEN acc \cup {n} ELSE acc
         /\ verdict'.ok = v.ok /\ verdict'.seen = (n \in acc)
         /\ verdict'.age = IF acc = {} THEN 0 ELSE Max(acc) - n
<1>1. /\ win' = v.w
      /\ acc' = IF v.ok THEN acc \cup {n} ELSE acc
      /\ verdict' = [ok |-> v.ok, seen |-> n \in acc,
                     age |-> IF acc = {} THEN 0 ELSE Max(acc) - n]
  BY Zenon DEF Arrive
<1> QED BY <1>1, Zenon

(* A packet on arrival: the first, one ahead of the highest, one behind it.  *)
LEMMA RingFirst ==
  ASSUME ReplayFits, RingInv, NEW n \in Nat, Arrive(n), acc = {}
  PROVE  RingInv'
<1>1. /\ n < sent /\ side' = side /\ start' = start /\ sent' = sent
      /\ side = "client" => n = 0
      /\ win.highest = -1
  BY DEF Arrive, RingInv, RingHolds, RingTypes, ReplayFits
<1>2. Accept(win, Wire(n))
        = [ok |-> TRUE, w |-> [highest |-> Kept(n), bits |-> {Slot(n)}]]
  BY <1>1, AcceptFirst DEF RingInv
<1>3. /\ win' = [highest |-> Kept(n), bits |-> {Slot(n)}]
      /\ acc' = {n}
      /\ verdict'.ok /\ ~verdict'.seen /\ verdict'.age = 0
  <2>1. PICK v : v = Accept(win, Wire(n))
    OBVIOUS
  <2>2. v.ok = TRUE /\ v.w = [highest |-> Kept(n), bits |-> {Slot(n)}]
    BY <2>1, <1>2
  <2>3. /\ win' = v.w /\ acc' = acc \cup {n}
        /\ verdict'.ok /\ verdict'.seen = (n \in acc) /\ verdict'.age = 0
    BY <2>1, <2>2, Arrival, Zenon
  <2> QED BY <2>2, <2>3
<1>4. Kept(n) \in Int /\ Slot(n) \in 0 .. Window - 1
  BY KeptSlot DEF RingInv
<1>5. RingTypes'
  <2>1. acc' \in SUBSET (0 .. sent - 1)
    BY <1>1, <1>3, Bounds DEF RingInv, RingTypes
  <2>2. win' \in [highest : Int, bits : SUBSET (0 .. Window - 1)]
    BY <1>3, <1>4
  <2> QED BY <2>1, <2>2, <1>1 DEF RingInv, RingTypes
<1>6. RingAgrees(n, acc', win', sent')
  <2> SUFFICES ASSUME NEW m \in Nat, m <= n, n - m < Window
               PROVE  m \in acc' <=> Slot(m) \in win'.bits
    BY DEF RingAgrees
  <2>1. Slot(m) = Slot(n) => m = n
    BY SlotApart, Bounds DEF RingInv
  <2> QED BY <2>1, <1>3
<1>7. RingHolds'
  BY <1>1, <1>3, <1>6, RingAfter
<1>8. Verdict'
  BY <1>3, Bounds DEF Verdict
<1> QED BY <1>5, <1>7, <1>8 DEF RingInv

(* The invariant after a packet that moves the window.                       *)
LEMMA RingAhead ==
  ASSUME ReplayFits, RingInv, NEW n \in Nat, Arrive(n), NEW h \in acc, h \in Nat,
         Max(acc) = h, \A y \in acc : h >= y, win.highest = Kept(h),
         RingAgrees(h, acc, win, sent), n > h
  PROVE  RingInv'
<1>1. /\ n < sent /\ side' = side /\ start' = start /\ sent' = sent
      /\ n - h <= MaxJump /\ acc # {}
  BY DEF Arrive
<1> DEFINE gap == {Slot(h + i) : i \in 1 .. (n - h)}
           left == IF n - h >= Window THEN {} ELSE win.bits \ gap
<1>2. Accept(win, Wire(n))
        = [ok |-> TRUE, w |-> [highest |-> Kept(n), bits |-> left \cup {Slot(n)}]]
  BY <1>1, AcceptAhead DEF RingInv
<1>3. PICK b : b = left \cup {Slot(n)}
  OBVIOUS
<1>4. /\ win' = [highest |-> Kept(n), bits |-> b]
      /\ acc' = acc \cup {n}
      /\ verdict'.ok /\ verdict'.seen = (n \in acc) /\ verdict'.age = h - n
  <2>1. PICK v : v = Accept(win, Wire(n))
    OBVIOUS
  <2>2. v.ok = TRUE /\ v.w = [highest |-> Kept(n), bits |-> b]
    BY <2>1, <1>2, <1>3
  <2> QED BY <2>1, <2>2, <1>1, Arrival, Zenon
<1>5. Kept(n) \in Int /\ Slot(n) \in 0 .. Window - 1
  BY KeptSlot DEF RingInv
<1>6. RingTypes'
  <2>1. acc' \in SUBSET (0 .. sent - 1)
    BY <1>1, <1>4, Bounds DEF RingInv, RingTypes
  <2>2. win' \in [highest : Int, bits : SUBSET (0 .. Window - 1)]
    BY <1>3, <1>4, <1>5 DEF RingInv, RingTypes
  <2> QED BY <2>1, <2>2, <1>1 DEF RingInv, RingTypes
<1>7. n \notin acc /\ n \in Int /\ h \in Int
  OBVIOUS
<1>8. RingAgrees(n, acc', win', sent')
  <2> SUFFICES ASSUME NEW m \in Nat, m <= n, n - m < Window, sent - m <= MaxLag
               PROVE  m \in acc' <=> Slot(m) \in b
    BY <1>1, <1>4 DEF RingAgrees
  <2>1. Slot(m) = Slot(n) => m = n
    BY SlotApart, Bounds DEF RingInv
  <2>2. CASE m = n
    BY <2>2, <1>3, <1>4
  <2>3. CASE m > h /\ m # n
    <3>1. m \notin acc'
      BY <2>3, <1>4
    <3>2. Slot(m) \notin left
      <4>1. m - h \in 1 .. (n - h) /\ h + (m - h) = m
        BY <2>3
      <4>2. Slot(m) \in gap
        BY <4>1
      <4> QED BY <4>2
    <3> QED BY <3>1, <3>2, <2>1, <2>3, <1>3
  <2>4. CASE m <= h
    <3>1. n - h < Window /\ h - m < Window
      BY <2>4, Bounds
    <3>2. m \in acc <=> Slot(m) \in win.bits
      BY <2>4, <3>1 DEF RingAgrees
    <3>3. Slot(m) \notin gap
      <4> SUFFICES ASSUME NEW i \in 1 .. (n - h), Slot(m) = Slot(h + i) PROVE FALSE
        OBVIOUS
      <4>1. PICK k : k = h + i
        OBVIOUS
      <4>2. k \in Nat /\ k <= n /\ k > m
        BY <4>1, <2>4
      <4>3. m - k < Window /\ k - m < Window
        BY <4>2, Bounds
      <4>4. m = k
        BY <4>1, <4>2, <4>3, SlotApart DEF RingInv
      <4> QED BY <4>2, <4>4
    <3>4. m # n /\ ~(n - h >= Window)
      BY <2>4, <3>1, Bounds
    <3>5. left = win.bits \ gap
      BY <3>4
    <3> QED BY <3>2, <3>3, <3>4, <3>5, <2>1, <1>3, <1>4
  <2> QED BY <2>2, <2>3, <2>4
<1>9. n \in acc' /\ \A y \in acc' : n >= y
  BY <1>4 DEF RingInv, RingTypes
<1>10. RingHolds'
  BY <1>1, <1>4, <1>8, <1>9, RingAfter
<1>11. Verdict'
  <2>1. verdict'.ok /\ ~verdict'.seen
    BY <1>4, <1>7, Zenon
  <2>2. verdict'.age < Window'
    BY <1>4, <1>7, Bounds
  <2> QED BY <2>1, <2>2, Zenon DEF Verdict
<1> QED BY <1>6, <1>10, <1>11 DEF RingInv

(* The invariant after a packet inside or below the window.                  *)
LEMMA RingBehind ==
  ASSUME ReplayFits, RingInv, NEW n \in Nat, Arrive(n), NEW h \in acc, h \in Nat, h < sent,
         Max(acc) = h, \A y \in acc : h >= y, win.highest = Kept(h),
         RingAgrees(h, acc, win, sent), n <= h
  PROVE  RingInv'
<1>1. /\ n < sent /\ side' = side /\ start' = start /\ sent' = sent
      /\ sent - n <= MaxLag /\ acc # {} /\ sent \in Nat
  BY Bounds DEF Arrive, RingInv, RingTypes
<1>2. h - n < MaxLag
  BY <1>1, Bounds
<1>3. Accept(win, Wire(n))
        = IF h - n >= Window \/ Slot(n) \in win.bits THEN [ok |-> FALSE, w |-> win]
          ELSE [ok |-> TRUE, w |-> [win EXCEPT !.bits = @ \cup {Slot(n)}]]
  BY <1>2, AcceptBehind DEF RingInv
<1>4. h - n < Window => (n \in acc <=> Slot(n) \in win.bits)
  BY <1>1 DEF RingAgrees
<1>5. PICK v : v = Accept(win, Wire(n))
  OBVIOUS
<1>6. /\ win' = v.w
      /\ acc' = IF v.ok THEN acc \cup {n} ELSE acc
      /\ verdict'.ok = v.ok /\ verdict'.seen = (n \in acc) /\ verdict'.age = h - n
  BY <1>1, <1>5, Arrival, Zenon
<1>7. CASE h - n >= Window \/ Slot(n) \in win.bits
  <2>0. v.ok = FALSE /\ v.w = win
    BY <1>3, <1>5, <1>7
  <2>1. /\ win' = win /\ acc' = acc
        /\ ~verdict'.ok /\ verdict'.seen = (n \in acc) /\ verdict'.age = h - n
    BY <2>0, <1>6, Zenon
  <2>2. RingTypes'
    BY <2>1, <1>1 DEF RingInv, RingTypes
  <2>3. RingHolds'
    BY <2>1, <1>1, RingAfter
  <2>4. ~(n \notin acc /\ h - n < Window)
    BY <1>4, <1>7, Bounds
  <2>5. Verdict'
    BY <2>1, <2>4, Zenon DEF Verdict
  <2> QED BY <2>2, <2>3, <2>5 DEF RingInv
<1>8. CASE ~(h - n >= Window \/ Slot(n) \in win.bits)
  <2>1. /\ win' = [win EXCEPT !.bits = @ \cup {Slot(n)}] /\ acc' = acc \cup {n}
        /\ verdict'.ok /\ verdict'.seen = (n \in acc) /\ verdict'.age = h - n
    <3>1. v.ok = TRUE /\ v.w = [win EXCEPT !.bits = @ \cup {Slot(n)}]
      BY <1>3, <1>5, <1>8
    <3> QED BY <3>1, <1>6, Zenon
  <2>2. Slot(n) \in 0 .. Window - 1 /\ win'.highest = win.highest /\ win'.bits = win.bits \cup {Slot(n)}
    BY <2>1, KeptSlot DEF RingInv, RingTypes
  <2>3. RingTypes'
    <3>1. acc' \in SUBSET (0 .. sent - 1)
      BY <2>1, <1>1 DEF RingInv, RingTypes
    <3>2. win' \in [highest : Int, bits : SUBSET (0 .. Window - 1)]
      BY <2>1, <2>2 DEF RingInv, RingTypes
    <3> QED BY <3>1, <3>2, <1>1 DEF RingInv, RingTypes
  <2>4. h - n < Window /\ n \notin acc
    BY <1>4, <1>8, Bounds
  <2>5. RingAgrees(h, acc', win', sent')
    <3> SUFFICES ASSUME NEW m \in Nat, m <= h, h - m < Window, sent - m <= MaxLag
                 PROVE  m \in acc' <=> Slot(m) \in win'.bits
      BY <1>1 DEF RingAgrees
    <3>1. m \in acc <=> Slot(m) \in win.bits
      BY DEF RingAgrees
    <3>2. m - n < Window /\ n - m < Window
      BY <2>4, Bounds
    <3>3. Slot(m) = Slot(n) => m = n
      BY <3>2, SlotApart DEF RingInv
    <3> QED BY <3>1, <3>3, <2>1, <2>2
  <2>6. h \in acc' /\ \A y \in acc' : h >= y
    BY <2>1
  <2>7. RingHolds'
    BY <2>2, <2>5, <2>6, <1>1, RingAfter
  <2>8. Verdict'
    BY <2>1, <2>4, Zenon DEF Verdict
  <2> QED BY <2>3, <2>7, <2>8 DEF RingInv
<1> QED BY <1>7, <1>8

(* ReplayState::accept on the server and ReplayWindow::accept_rtp on the     *)
(* client decide as the set of all accepted packets would: a packet passes   *)
(* exactly when it is new and inside the window below the newest accepted    *)
(* one, through every wrap of the wire number, for every window and modulus, *)
(* and the ring of bits keeps its types. On the client the first packet      *)
(* received is the first one sent; without that the property fails           *)
(* (MCReplayReordered.cfg).                                                  *)
THEOREM FiltersExact ==
  ASSUME ReplayTypes, FirstInOrder \/ "client" \notin Sides
  PROVE  ReplaySpec => []MatchesReference
<1>0. ReplayFits
  BY DEF ReplayFits
<1>1. ReplayInit => RingInv
  BY <1>0, RingInit
<1>2. RingInv /\ [ReplayNext]_replayVars => RingInv'
  <2> SUFFICES ASSUME RingInv, [ReplayNext]_replayVars PROVE RingInv'
    OBVIOUS
  <2>1. CASE Send
    BY <2>1, <1>0, RingSend
  <2>2. ASSUME NEW n \in 0 .. MaxSends - 1, Arrive(n) PROVE RingInv'
    <3>0. n \in Nat
      BY <1>0, Bounds
    <3>1. CASE acc = {}
      BY <3>0, <3>1, <2>2, <1>0, RingFirst
    <3>2. CASE acc # {}
      <4>1. PICK h \in acc : /\ h \in Nat /\ h < sent /\ Max(acc) = h
                             /\ \A y \in acc : h >= y
                             /\ win.highest = Kept(h) /\ RingAgrees(h, acc, win, sent)
        BY <3>2, <1>0, RingTop
      <4>2. CASE n > h
        BY <4>1, <4>2, <3>0, <2>2, <1>0, RingAhead
      <4>3. CASE n <= h
        BY <4>1, <4>3, <3>0, <2>2, <1>0, RingBehind
      <4> QED BY <4>1, <4>2, <4>3, <3>0
    <3> QED BY <3>1, <3>2
  <2>3. CASE UNCHANGED replayVars
    BY <2>3 DEF replayVars, RingInv, RingTypes, RingHolds, RingAgrees, Kept, Slot, Verdict
  <2> QED BY <2>1, <2>2, <2>3 DEF ReplayNext
<1>3. RingInv => MatchesReference
  <2> SUFFICES ASSUME RingInv PROVE MatchesReference
    OBVIOUS
  <2>1. win.bits \subseteq 0 .. (Window - 1) /\ acc \subseteq 0 .. (MaxSends - 1)
    BY <1>0, Bounds DEF RingInv, RingTypes
  <2>2. win.highest \in Nat \cup {-1} /\ (side = "server" => win.highest < Modulus)
    <3>1. CASE acc = {}
      BY <3>1, <1>0, Bounds DEF RingInv, RingHolds
    <3>2. CASE acc # {}
      <4>1. PICK h \in acc : h \in Nat /\ win.highest = Kept(h)
        BY <3>2, <1>0, RingTop
      <4>2. Kept(h) \in Nat /\ Wire(h) \in 0 .. Modulus - 1
        BY <4>1, <1>0, KeptSlot DEF RingInv
      <4>3. side = "server" => Kept(h) = Wire(h)
        BY DEF Kept, Wire
      <4> QED BY <4>1, <4>2, <4>3, <1>0, Bounds
    <3> QED BY <3>1, <3>2
  <2> QED BY <2>1, <2>2 DEF RingInv, Verdict, MatchesReference, ReplayTypeOK, None
<1> QED BY <1>1, <1>2, <1>3, PTL DEF ReplaySpec

------------------------------------------------------------------------------
(* Part 3: FlowReassembly.                                                  *)

(* The pending frame i places after the expected one, and how many follow    *)
(* the expected one without a hole.                                          *)
DrainAt(st, i) == {p \in st.pending : p.seq = (st.expected + i) % FlowModulus}
DrainHead(st, i) == CHOOSE p \in DrainAt(st, i) : TRUE
DrainRuns(st) == {n \in 0 .. Cardinality(st.pending) : \A i \in 0 .. (n - 1) : DrainAt(st, i) # {}}
DrainRun(st) == Max(DrainRuns(st))
DrainGone(st) == {DrainHead(st, i) : i \in 0 .. (DrainRun(st) - 1)}

(* drain_contiguous in terms of the operators above.                         *)
LEMMA DrainIs ==
  ASSUME NEW st
  PROVE  DrainContiguous(st) =
           [state |-> [st EXCEPT !.expected = (@ + DrainRun(st)) % FlowModulus,
                                 !.pending = @ \ DrainGone(st)],
            out |-> [i \in 1 .. DrainRun(st) |-> DrainHead(st, i - 1).n]]
BY Zenon DEF DrainContiguous, DrainAt, DrainHead, DrainRuns, DrainRun, DrainGone

Forward(st) == {p \in st.pending : IsForward(p.seq, st.expected)}
Distance(st, p) == (p.seq - st.expected) % FlowModulus
Low(st) == CHOOSE p \in Forward(st) : \A q \in Forward(st) : Distance(st, p) <= Distance(st, q)
LowDrain(st) == DrainContiguous([st EXCEPT !.expected = (Low(st).seq + 1) % FlowModulus,
                                                !.pending = @ \ {Low(st)}])

(* release_lowest in terms of the operators above.                           *)
LEMMA LowestIs ==
  ASSUME NEW st
  PROVE  ReleaseLowest(st) =
           IF Forward(st) = {} THEN [state |-> [st EXCEPT !.gap = -1], out |-> <<>>]
           ELSE [state |-> [LowDrain(st).state EXCEPT
                              !.gap = IF LowDrain(st).state.pending = {} THEN -1 ELSE now],
                 out |-> <<Low(st).n>> \o LowDrain(st).out]
BY Zenon DEF ReleaseLowest, Forward, Distance, Low, LowDrain, NoGap

------------------------------------------------------------------------------
FlowTypes ==
  /\ FlowModulus \in Nat \ {0} /\ MaxTracked \in Nat \ {0} /\ MaxPerFlow \in Nat \ {0}
  /\ MaxTotal \in Nat \ {0} /\ GapRelease \in Nat \ {0}
  /\ FlowSends \in Nat /\ FlowLag \in Nat /\ MaxTime \in Nat /\ MaxRestarts \in Nat
  /\ FlowModulus \div 2 \in Nat /\ 2 * (FlowModulus \div 2) = FlowModulus
  /\ Before \subseteq 0 .. FlowModulus - 1

(* The assumption on the constants, constant by constant.                    *)
LEMMA FlowBoundsTyped ==
  ASSUME FlowBounds
  PROVE  FlowTypes
<1>1. /\ {FlowModulus, MaxTracked, MaxPerFlow, MaxTotal, GapRelease} \subseteq Nat \ {0}
      /\ {FlowSends, FlowLag, MaxTime, MaxRestarts} \subseteq Nat
      /\ FlowModulus % 2 = 0 /\ Before \subseteq 0 .. FlowModulus - 1
  BY Zenon DEF FlowBounds
<1>2. FlowModulus \in Nat \ {0} /\ FlowModulus \div 2 \in Nat /\ 2 * (FlowModulus \div 2) = FlowModulus
  BY <1>1
<1> QED BY <1>1, <1>2 DEF FlowTypes

(* A pending frame, and the FlowState of one flow.                           *)
Waiting == [seq : 0 .. FlowModulus - 1, n : Nat]
States == [expected : 0 .. FlowModulus - 1, gap : {-1} \cup 0 .. now, pending : SUBSET Waiting]
StateOK(st) == st \in States /\ IsFiniteSet(st.pending)

(* How many pending frames follow the expected one.                          *)
LEMMA DrainRunFacts ==
  ASSUME NEW st, IsFiniteSet(st.pending)
  PROVE  /\ DrainRun(st) \in Nat /\ DrainRun(st) <= Cardinality(st.pending)
         /\ \A i \in 0 .. (DrainRun(st) - 1) :
              DrainHead(st, i) \in DrainAt(st, i) /\ DrainHead(st, i) \in st.pending
         /\ DrainRun(st) < Cardinality(st.pending) => DrainAt(st, DrainRun(st)) = {}
<1>1. PICK c : c = Cardinality(st.pending)
  OBVIOUS
<1>2. c \in Nat
  BY <1>1, FS_CardinalityType
<1>3. DrainRuns(st) = {n \in 0 .. c : \A i \in 0 .. (n - 1) : DrainAt(st, i) # {}}
  BY <1>1, Zenon DEF DrainRuns
<1>4. 0 \in DrainRuns(st) /\ DrainRuns(st) \in SUBSET (0 .. c)
  BY <1>2, <1>3
<1>5. PICK r : r = DrainRun(st)
  OBVIOUS
<1>6. r \in DrainRuns(st) /\ r \in Nat /\ \A y \in DrainRuns(st) : r >= y
  BY <1>2, <1>4, <1>5, MaxFacts DEF DrainRun
<1>7. r <= c /\ \A i \in 0 .. (r - 1) : DrainAt(st, i) # {}
  BY <1>3, <1>6, <1>2
<1>8. \A i \in 0 .. (r - 1) : DrainHead(st, i) \in DrainAt(st, i)
  BY <1>7, Zenon DEF DrainHead
<1>9. \A i \in 0 .. (r - 1) : DrainHead(st, i) \in st.pending
  BY <1>8, Zenon DEF DrainAt
<1>10. ASSUME r < c, DrainAt(st, r) # {} PROVE FALSE
  <2>1. \A i \in 0 .. ((r + 1) - 1) : DrainAt(st, i) # {}
    <3> SUFFICES ASSUME NEW i \in 0 .. ((r + 1) - 1) PROVE DrainAt(st, i) # {}
      OBVIOUS
    <3>1. i = r \/ i \in 0 .. (r - 1)
      BY <1>6
    <3> QED BY <3>1, <1>7, <1>10
  <2>2. r + 1 \in 0 .. c
    BY <1>10, <1>6, <1>2
  <2>3. r + 1 \in DrainRuns(st)
    BY <2>1, <2>2, <1>3, Zenon
  <2>4. r >= r + 1
    BY <2>3, <1>6
  <2> QED BY <2>4, <1>6
<1> QED BY <1>1, <1>5, <1>6, <1>7, <1>8, <1>9, <1>10, Zenon

(* Draining keeps the type and only takes frames out.                        *)
LEMMA DrainShape ==
  ASSUME FlowTypes, NEW st, StateOK(st)
  PROVE  /\ StateOK(DrainContiguous(st).state)
         /\ DrainContiguous(st).state.pending = st.pending \ DrainGone(st)
         /\ DrainContiguous(st).state.gap = st.gap
         /\ DrainContiguous(st).state.expected = (st.expected + DrainRun(st)) % FlowModulus
         /\ DrainContiguous(st).out = [i \in 1 .. DrainRun(st) |-> DrainHead(st, i - 1).n]
         /\ DrainContiguous(st).out \in Seq(Nat)
<1>1. PICK d : d = DrainContiguous(st)
  OBVIOUS
<1>2. st \in States /\ IsFiniteSet(st.pending)
  BY DEF StateOK
<1>3. /\ d.state = [st EXCEPT !.expected = (@ + DrainRun(st)) % FlowModulus,
                              !.pending = @ \ DrainGone(st)]
      /\ d.out = [i \in 1 .. DrainRun(st) |-> DrainHead(st, i - 1).n]
  BY <1>1, DrainIs
<1>4. /\ d.state = [expected |-> (st.expected + DrainRun(st)) % FlowModulus,
                    gap |-> st.gap, pending |-> st.pending \ DrainGone(st)]
  BY <1>2, <1>3 DEF States
<1>5. DrainRun(st) \in Nat /\ \A i \in 0 .. (DrainRun(st) - 1) : DrainHead(st, i) \in st.pending
  BY <1>2, DrainRunFacts
<1>6. (st.expected + DrainRun(st)) % FlowModulus \in 0 .. FlowModulus - 1
  <2>1. st.expected + DrainRun(st) \in Int
    BY <1>2, <1>5 DEF States, FlowTypes
  <2> QED BY <2>1, ModRange DEF FlowTypes
<1>7. st.pending \ DrainGone(st) \in SUBSET Waiting /\ st.gap \in {-1} \cup 0 .. now
  BY <1>2 DEF States
<1>8. IsFiniteSet(st.pending \ DrainGone(st))
  BY <1>2, FS_Difference
<1>9. StateOK(d.state)
  BY <1>4, <1>6, <1>7, <1>8 DEF StateOK, States
<1>10. d.out \in Seq(Nat)
  <2>1. ASSUME NEW i \in 1 .. DrainRun(st) PROVE DrainHead(st, i - 1).n \in Nat
    <3>1. i - 1 \in 0 .. (DrainRun(st) - 1)
      BY <1>5
    <3>2. DrainHead(st, i - 1) \in Waiting
      BY <3>1, <1>5, <1>2 DEF States
    <3> QED BY <3>2 DEF Waiting
  <2> QED BY <2>1, <1>3, <1>5
<1> QED BY <1>1, <1>3, <1>4, <1>9, <1>10

(* The distance on the wire is a number below the modulus.                   *)
LEMMA DistanceType ==
  ASSUME FlowTypes, NEW st, StateOK(st), NEW p \in st.pending
  PROVE  Distance(st, p) \in 0 .. FlowModulus - 1 /\ Distance(st, p) \in Nat
<1>1. p.seq - st.expected \in Int
  BY DEF StateOK, States, Waiting, FlowTypes
<1>2. Distance(st, p) \in 0 .. FlowModulus - 1
  BY <1>1, ModRange DEF Distance, FlowTypes
<1> QED BY <1>2 DEF FlowTypes

(* Of the forward frames one is the nearest.                                 *)
LEMMA LowFacts ==
  ASSUME FlowTypes, NEW st, StateOK(st), Forward(st) # {}
  PROVE  /\ Low(st) \in Forward(st) /\ Low(st) \in st.pending
         /\ \A q \in Forward(st) : Distance(st, Low(st)) <= Distance(st, q)
<1> DEFINE D == {Distance(st, p) : p \in Forward(st)}
           R == OpToRel(<, Nat)
<1>1. \A p \in Forward(st) : p \in st.pending /\ Distance(st, p) \in Nat
  BY DistanceType DEF Forward
<1>2. D \in SUBSET Nat /\ D # {}
  BY <1>1
<1>3. \A x, y \in Nat : <<y, x>> \in R <=> y < x
  BY DEF OpToRel
<1>4. IsWellFoundedOn(R, Nat)
  BY NatLessThanWellFounded
<1> HIDE DEF R
<1>5. PICK x \in D : \A y \in D : ~ (<<y, x>> \in R)
  BY <1>2, <1>4, WFMin
<1>6. PICK p \in Forward(st) : x = Distance(st, p)
  BY <1>5
<1>7. ASSUME NEW q \in Forward(st) PROVE Distance(st, p) <= Distance(st, q)
  <2>1. Distance(st, q) \in D /\ Distance(st, q) \in Nat /\ x \in Nat
    BY <1>1, <1>2
  <2>2. ~ (Distance(st, q) < x)
    BY <2>1, <1>3, <1>5
  <2> QED BY <2>1, <2>2, <1>6
<1>8. \E z \in Forward(st) : \A q \in Forward(st) : Distance(st, z) <= Distance(st, q)
  BY <1>7, Zenon
<1>9. /\ Low(st) \in Forward(st)
      /\ \A q \in Forward(st) : Distance(st, Low(st)) <= Distance(st, q)
  BY <1>8, Zenon DEF Low
<1> QED BY <1>1, <1>9

(* The state release_lowest drains.                                          *)
Passed(st) == [st EXCEPT !.expected = (Low(st).seq + 1) % FlowModulus, !.pending = @ \ {Low(st)}]

(* Passing over the gap keeps the type and takes the lowest frame out.       *)
LEMMA PassedShape ==
  ASSUME FlowTypes, NEW st, StateOK(st), Forward(st) # {}
  PROVE  /\ StateOK(Passed(st))
         /\ Passed(st).pending = st.pending \ {Low(st)}
         /\ Passed(st).expected = (Low(st).seq + 1) % FlowModulus
<1>1. st \in States /\ IsFiniteSet(st.pending)
  BY DEF StateOK
<1>2. Passed(st) = [expected |-> (Low(st).seq + 1) % FlowModulus, gap |-> st.gap,
                    pending |-> st.pending \ {Low(st)}]
  <2>1. PICK e, l : e = (Low(st).seq + 1) % FlowModulus /\ l = Low(st)
    OBVIOUS
  <2>2. Passed(st) = [st EXCEPT !.expected = e, !.pending = @ \ {l}]
    BY <2>1, Zenon DEF Passed
  <2>3. Passed(st) = [expected |-> e, gap |-> st.gap, pending |-> st.pending \ {l}]
    BY <2>2, <1>1 DEF States
  <2> QED BY <2>1, <2>3
<1>3. Low(st) \in Waiting
  BY LowFacts, <1>1 DEF States
<1>4. (Low(st).seq + 1) % FlowModulus \in 0 .. FlowModulus - 1
  <2>1. Low(st).seq + 1 \in Int
    BY <1>3 DEF Waiting, FlowTypes
  <2> QED BY <2>1, ModRange DEF FlowTypes
<1>5. IsFiniteSet(st.pending \ {Low(st)})
  BY <1>1, FS_RemoveElement
<1>6. Passed(st) \in States
  BY <1>1, <1>2, <1>4 DEF States
<1> QED BY <1>2, <1>5, <1>6 DEF StateOK

(* Releasing the lowest frame keeps the type and takes frames out, at least  *)
(* one if any is forward.                                                    *)
LEMMA LowestShape ==
  ASSUME FlowTypes, now \in Nat, NEW st, StateOK(st)
  PROVE  /\ StateOK(ReleaseLowest(st).state)
         /\ ReleaseLowest(st).state.pending \subseteq st.pending
         /\ ReleaseLowest(st).out \in Seq(Nat)
         /\ Forward(st) = {} =>
              /\ ReleaseLowest(st).state.pending = st.pending
              /\ ReleaseLowest(st).state.expected = st.expected
              /\ ReleaseLowest(st).out = <<>>
         /\ Forward(st) # {} =>
              /\ Low(st) \notin ReleaseLowest(st).state.pending
              /\ ReleaseLowest(st).state.pending = LowDrain(st).state.pending
              /\ ReleaseLowest(st).state.expected = LowDrain(st).state.expected
              /\ ReleaseLowest(st).out = <<Low(st).n>> \o LowDrain(st).out
<1>1. PICK r : r = ReleaseLowest(st)
  OBVIOUS
<1>2. st \in States /\ IsFiniteSet(st.pending)
  BY DEF StateOK
<1>3. CASE Forward(st) = {}
  <2>1. r.state = [st EXCEPT !.gap = -1] /\ r.out = <<>>
    BY <1>1, <1>3, LowestIs
  <2>2. r.state \in States /\ r.state.pending = st.pending /\ r.state.expected = st.expected
    BY <2>1, <1>2 DEF States
  <2>3. r.out \in Seq(Nat)
    BY <2>1
  <2> QED BY <2>1, <2>2, <2>3, <1>1, <1>2, <1>3 DEF StateOK
<1>4. CASE Forward(st) # {}
  <2>1. PICK d : d = LowDrain(st)
    OBVIOUS
  <2>2. d = DrainContiguous(Passed(st))
    BY <2>1, Zenon DEF LowDrain, Passed
  <2>3. /\ StateOK(d.state) /\ d.out \in Seq(Nat)
        /\ d.state.pending = Passed(st).pending \ DrainGone(Passed(st))
    BY <2>2, <1>4, PassedShape, DrainShape
  <2>4. /\ r.state = [d.state EXCEPT !.gap = IF d.state.pending = {} THEN -1 ELSE now]
        /\ r.out = <<Low(st).n>> \o d.out
    BY <1>1, <1>4, <2>1, LowestIs
  <2>5. r.state \in States /\ r.state.pending = d.state.pending /\ r.state.expected = d.state.expected
    BY <2>3, <2>4 DEF States, StateOK
  <2>6. StateOK(r.state)
    BY <2>3, <2>5 DEF StateOK
  <2>7. r.out \in Seq(Nat)
    <3>1. Low(st).n \in Nat
      BY <1>2, <1>4, LowFacts DEF States, Waiting
    <3> QED BY <3>1, <2>3, <2>4
  <2>8. r.state.pending \subseteq st.pending /\ Low(st) \notin r.state.pending
    BY <2>3, <2>5, <1>4, PassedShape
  <2> QED BY <2>1, <2>4, <2>5, <2>6, <2>7, <2>8, <1>1, <1>4
<1> QED BY <1>3, <1>4

(* release_expired releases the lowest frame or nothing.                     *)
LEMMA ExpiredIs ==
  ASSUME NEW st
  PROVE  \/ ReleaseExpired(st) = ReleaseLowest(st)
         \/ ReleaseExpired(st) = [state |-> st, out |-> <<>>]
BY Zenon DEF ReleaseExpired

(* release_expired keeps the type and only takes frames out.                 *)
LEMMA ExpiredShape ==
  ASSUME FlowTypes, now \in Nat, NEW st, StateOK(st)
  PROVE  /\ StateOK(ReleaseExpired(st).state)
         /\ ReleaseExpired(st).state.pending \subseteq st.pending
         /\ ReleaseExpired(st).out \in Seq(Nat)
<1>1. CASE ReleaseExpired(st) = ReleaseLowest(st)
  BY <1>1, LowestShape
<1>2. CASE ReleaseExpired(st) = [state |-> st, out |-> <<>>]
  BY <1>2
<1> QED BY <1>1, <1>2, ExpiredIs

------------------------------------------------------------------------------
(* The work of push_at on one flow, R frames being held by the others.       *)
Items == [state : States, out : Seq(Nat), total : Nat]
Work(w, R) ==
  w \in Items /\ IsFiniteSet(w.state.pending) /\ w.total = R + Cardinality(w.state.pending)

(* The types of the parts of what push_at works on.                          *)
LEMMA WorkFacts ==
  ASSUME NEW R \in Nat, NEW w, Work(w, R)
  PROVE  /\ w \in Items /\ StateOK(w.state) /\ w.out \in Seq(Nat) /\ w.total \in Nat
         /\ Cardinality(w.state.pending) \in Nat /\ w.total = R + Cardinality(w.state.pending)
         /\ w.state.pending \subseteq Waiting
<1>1. Cardinality(w.state.pending) \in Nat
  BY FS_CardinalityType DEF Work
<1> QED BY <1>1 DEF Work, Items, StateOK, States

(* The saturating subtractions are exact.                                    *)
LEMMA SettleShape ==
  ASSUME NEW R \in Nat, NEW w, Work(w, R), NEW r, StateOK(r.state),
         r.state.pending \subseteq w.state.pending, r.out \in Seq(Nat)
  PROVE  /\ Work(Settle(w, r), R)
         /\ Settle(w, r).state = r.state
         /\ Settle(w, r).out = w.out \o r.out
         /\ Settle(w, r).total <= w.total
<1>1. PICK s, a, b : /\ s = Settle(w, r) /\ a = Cardinality(w.state.pending)
                     /\ b = Cardinality(r.state.pending)
  OBVIOUS
<1>2. a \in Nat /\ w.total \in Nat /\ w.total = R + a /\ w \in Items
  BY <1>1, WorkFacts
<1>3. IsFiniteSet(w.state.pending) /\ IsFiniteSet(r.state.pending) /\ r.state \in States
  BY DEF Work, StateOK
<1>4. b \in Nat /\ b <= a
  BY <1>1, <1>3, FS_CardinalityType, FS_Subset
<1>5. SatSub(w.total, SatSub(a, b)) = R + b
  BY <1>2, <1>4 DEF SatSub
<1>6. s = [w EXCEPT !.state = r.state, !.out = @ \o r.out,
                    !.total = SatSub(@, SatSub(a, b))]
  BY <1>1, Zenon DEF Settle
<1>7. s = [state |-> r.state, out |-> w.out \o r.out, total |-> SatSub(w.total, SatSub(a, b))]
  BY <1>6, <1>2 DEF Items
<1>8. w.out \o r.out \in Seq(Nat)
  BY <1>2 DEF Items
<1>9. s.state = r.state /\ s.out = w.out \o r.out /\ s.total = R + b
  BY <1>5, <1>7
<1>10. R + b \in Nat /\ R + b <= w.total
  BY <1>2, <1>4
<1>11. s \in Items
  BY <1>3, <1>5, <1>7, <1>8, <1>10 DEF Items
<1> QED BY <1>1, <1>3, <1>9, <1>10, <1>11 DEF Work

Released(w) == Settle(w, ReleaseLowest(w.state))

(* Releasing the lowest frame keeps the count exact; if the count stays, so  *)
(* does the expected number.                                                 *)
LEMMA ReleasedShape ==
  ASSUME FlowTypes, now \in Nat, NEW R \in Nat, NEW w, Work(w, R)
  PROVE  /\ Work(Released(w), R) /\ Released(w).total <= w.total
         /\ Released(w).state = ReleaseLowest(w.state).state
         /\ Released(w).out = w.out \o ReleaseLowest(w.state).out
         /\ Released(w).state.pending \subseteq w.state.pending
         /\ Forward(w.state) # {} => Released(w).total < w.total
         /\ Released(w).total = w.total => Released(w).state.expected = w.state.expected
<1>1. PICK r, s : r = ReleaseLowest(w.state) /\ s = Released(w)
  OBVIOUS
<1>2. /\ StateOK(w.state) /\ w.total \in Nat
      /\ w.total = R + Cardinality(w.state.pending) /\ Cardinality(w.state.pending) \in Nat
  BY WorkFacts
<1>3. /\ StateOK(r.state) /\ r.state.pending \subseteq w.state.pending /\ r.out \in Seq(Nat)
      /\ Forward(w.state) = {} => r.state.expected = w.state.expected
      /\ Forward(w.state) # {} => Low(w.state) \notin r.state.pending
  BY <1>1, <1>2, LowestShape
<1>4. Work(s, R) /\ s.state = r.state /\ s.out = w.out \o r.out /\ s.total <= w.total
  <2>1. s = Settle(w, r)
    BY <1>1, Zenon DEF Released
  <2>2. StateOK(r.state) /\ r.state.pending \subseteq w.state.pending /\ r.out \in Seq(Nat)
    BY <1>3
  <2>3. /\ Work(Settle(w, r), R) /\ Settle(w, r).state = r.state
        /\ Settle(w, r).out = w.out \o r.out /\ Settle(w, r).total <= w.total
    BY <2>2, SettleShape
  <2> QED BY <2>1, <2>3, Zenon
<1>5. s.total = R + Cardinality(r.state.pending) /\ Cardinality(r.state.pending) \in Nat /\ s.total \in Nat
  BY <1>4, WorkFacts
<1>6. ASSUME Forward(w.state) # {} PROVE s.total < w.total
  <2>1. Low(w.state) \in w.state.pending
    BY <1>2, <1>6, LowFacts
  <2>2. r.state.pending # w.state.pending
    BY <2>1, <1>3, <1>6
  <2>3. IsFiniteSet(w.state.pending) /\ r.state.pending \in SUBSET w.state.pending
    BY <1>2, <1>3 DEF StateOK
  <2>4. /\ Cardinality(r.state.pending) <= Cardinality(w.state.pending)
        /\ Cardinality(r.state.pending) # Cardinality(w.state.pending)
    <3>1. Cardinality(r.state.pending) <= Cardinality(w.state.pending)
      BY <2>3, FS_Subset
    <3>2. Cardinality(w.state.pending) = Cardinality(r.state.pending) => w.state.pending = r.state.pending
      BY <2>3, FS_Subset
    <3> QED BY <3>1, <3>2, <2>2
  <2> QED BY <2>4, <1>2, <1>5
<1>7. ASSUME s.total = w.total PROVE s.state.expected = w.state.expected
  <2>1. Forward(w.state) = {}
    BY <1>6, <1>7, <1>2
  <2> QED BY <2>1, <1>3, <1>4
<1> QED BY <1>1, <1>3, <1>4, <1>6, <1>7

RoomOne(w) == IF Cardinality(w.state.pending) = MaxPerFlow THEN Released(w) ELSE w
RoomTwo(v) == IF v.total = MaxTotal /\ v.state.pending # {} THEN Released(v) ELSE v

(* Making room is the two steps above.                                       *)
LEMMA RoomIs ==
  ASSUME NEW w
  PROVE  MakeRoom(w) = RoomTwo(RoomOne(w))
BY Zenon DEF MakeRoom, RoomOne, RoomTwo, Released

(* Making room keeps the count exact; if the count stays, so does the        *)
(* expected number.                                                          *)
LEMMA RoomShape ==
  ASSUME FlowTypes, now \in Nat, NEW R \in Nat, NEW w, Work(w, R)
  PROVE  /\ Work(MakeRoom(w), R) /\ MakeRoom(w).total <= w.total
         /\ MakeRoom(w).state.pending \subseteq w.state.pending
         /\ MakeRoom(w).total = w.total
              => MakeRoom(w).state.expected = w.state.expected
<1>1. PICK v, u : v = RoomOne(w) /\ u = RoomTwo(v)
  OBVIOUS
<1>2. /\ Work(v, R) /\ v.total <= w.total /\ v.state.pending \subseteq w.state.pending
      /\ v.total = w.total => v.state.expected = w.state.expected
  <2>1. CASE v = Released(w)
    BY <2>1, ReleasedShape
  <2>2. CASE v = w
    BY <2>2, WorkFacts
  <2> QED BY <2>1, <2>2, <1>1, Zenon DEF RoomOne
<1>3. /\ Work(u, R) /\ u.total <= v.total /\ u.state.pending \subseteq v.state.pending
      /\ u.total = v.total => u.state.expected = v.state.expected
  <2>1. CASE u = Released(v)
    BY <2>1, <1>2, ReleasedShape
  <2>2. CASE u = v
    BY <2>2, <1>2, WorkFacts
  <2> QED BY <2>1, <2>2, <1>1, Zenon DEF RoomTwo
<1>4. u = MakeRoom(w)
  BY <1>1, RoomIs
<1>5. u.total \in Nat /\ v.total \in Nat /\ w.total \in Nat
  BY <1>2, <1>3, WorkFacts
<1>6. u.total <= w.total /\ (u.total = w.total => u.total = v.total /\ v.total = w.total)
  BY <1>2, <1>3, <1>5
<1> QED BY <1>2, <1>3, <1>4, <1>6

(* The frame in turn.                                                        *)
Taken(w) == [w.state EXCEPT !.expected = (@ + 1) % FlowModulus, !.gap = -1]
Handed(w, fr) == [w EXCEPT !.out = Append(@, fr.n)]

(* The expected frame: hand it out, then drain.                              *)
LEMMA InOrderIs ==
  ASSUME NEW w, NEW fr
  PROVE  InOrder(w, fr) = Settle(Handed(w, fr), DrainContiguous(Taken(w)))
BY Zenon DEF InOrder, Taken, Handed, NoGap

Frames(fr) == fr.seq \in 0 .. FlowModulus - 1 /\ fr.n \in Nat

(* Moving on by one number and handing the frame out keep the count.         *)
LEMMA TakenShape ==
  ASSUME FlowTypes, NEW R \in Nat, NEW w, Work(w, R), NEW fr, Frames(fr)
  PROVE  /\ StateOK(Taken(w)) /\ Taken(w).pending = w.state.pending
         /\ Taken(w).expected = (w.state.expected + 1) % FlowModulus
         /\ Work(Handed(w, fr), R) /\ Handed(w, fr).state = w.state
         /\ Handed(w, fr).total = w.total /\ Handed(w, fr).out = Append(w.out, fr.n)
<1>1. w.state \in States /\ IsFiniteSet(w.state.pending) /\ w \in Items
  BY WorkFacts DEF StateOK
<1>2. PICK e : e = (w.state.expected + 1) % FlowModulus
  OBVIOUS
<1>3. e \in 0 .. FlowModulus - 1
  <2>1. w.state.expected + 1 \in Int
    BY <1>1 DEF States, FlowTypes
  <2> QED BY <2>1, <1>2, ModRange DEF FlowTypes
<1>4. Taken(w) = [w.state EXCEPT !.expected = e, !.gap = -1]
  BY <1>2, Zenon DEF Taken
<1>5. Taken(w) \in States /\ Taken(w).pending = w.state.pending /\ Taken(w).expected = e
  BY <1>1, <1>3, <1>4 DEF States
<1>6. /\ Handed(w, fr).state = w.state /\ Handed(w, fr).total = w.total
      /\ Handed(w, fr).out = Append(w.out, fr.n) /\ Handed(w, fr) \in Items
  <2>1. PICK o : o = Append(w.out, fr.n)
    OBVIOUS
  <2>2. o \in Seq(Nat)
    BY <1>1, <2>1 DEF Items, Frames
  <2>3. Handed(w, fr) = [w EXCEPT !.out = o]
    BY <2>1, Zenon DEF Handed
  <2>4. Handed(w, fr) = [state |-> w.state, out |-> o, total |-> w.total]
    BY <2>3, <1>1 DEF Items
  <2> QED BY <2>1, <2>2, <2>4, <1>1 DEF Items
<1>7. Work(Handed(w, fr), R)
  BY <1>6 DEF Work
<1> QED BY <1>1, <1>2, <1>5, <1>6, <1>7 DEF StateOK

(* The expected frame keeps the count exact.                                 *)
LEMMA InOrderShape ==
  ASSUME FlowTypes, NEW R \in Nat, NEW w, Work(w, R), NEW fr, Frames(fr)
  PROVE  /\ Work(InOrder(w, fr), R) /\ InOrder(w, fr).total <= w.total
         /\ InOrder(w, fr).state = DrainContiguous(Taken(w)).state
         /\ InOrder(w, fr).out = Append(w.out, fr.n) \o DrainContiguous(Taken(w)).out
<1>1. PICK h, d : h = Handed(w, fr) /\ d = DrainContiguous(Taken(w))
  OBVIOUS
<1>2. /\ StateOK(d.state) /\ d.out \in Seq(Nat)
      /\ d.state.pending \subseteq h.state.pending
  <2>1. /\ StateOK(Taken(w)) /\ Taken(w).pending = w.state.pending /\ h.state = w.state
    BY <1>1, TakenShape, Zenon
  <2>2. /\ StateOK(d.state) /\ d.out \in Seq(Nat)
        /\ d.state.pending = Taken(w).pending \ DrainGone(Taken(w))
    BY <1>1, <2>1, DrainShape, Zenon
  <2> QED BY <2>1, <2>2
<1>3. Work(h, R) /\ h.total = w.total /\ h.out = Append(w.out, fr.n)
  BY <1>1, TakenShape
<1>4. InOrder(w, fr) = Settle(h, d)
  BY <1>1, InOrderIs
<1>5. /\ Work(InOrder(w, fr), R) /\ InOrder(w, fr).total <= h.total
      /\ InOrder(w, fr).state = d.state /\ InOrder(w, fr).out = h.out \o d.out
  <2>1. /\ Work(Settle(h, d), R) /\ Settle(h, d).state = d.state
        /\ Settle(h, d).out = h.out \o d.out /\ Settle(h, d).total <= h.total
    BY <1>2, <1>3, SettleShape
  <2> QED BY <2>1, <1>4, Zenon
<1> QED BY <1>1, <1>3, <1>5, Zenon

(* The frame put aside.                                                      *)
Pair(fr) == [seq |-> fr.seq, n |-> fr.n]
Added(w, fr) == [w EXCEPT !.state.pending = @ \cup {Pair(fr)}, !.total = @ + 1]
Keep(a) == IF a.total > MaxTotal THEN Released(a) ELSE a
Timed(k) == [k EXCEPT !.state.gap = IF @ = -1 THEN now ELSE @]
Expire(w) == Settle(w, ReleaseExpired(w.state))

(* Storing a frame is the four steps above.                                  *)
LEMMA StoreIs ==
  ASSUME NEW w, NEW fr
  PROVE  Store(w, fr) = Expire(Timed(Keep(Added(w, fr))))
BY Zenon DEF Store, Added, Keep, Timed, Expire, Pair, Released, NoGap

(* Giving up on an old gap keeps the count exact.                            *)
LEMMA ExpireShape ==
  ASSUME FlowTypes, now \in Nat, NEW R \in Nat, NEW w, Work(w, R)
  PROVE  /\ Work(Expire(w), R) /\ Expire(w).total <= w.total
         /\ Expire(w).state = ReleaseExpired(w.state).state
         /\ Expire(w).out = w.out \o ReleaseExpired(w.state).out
         /\ Expire(w).state.pending \subseteq w.state.pending
<1>1. StateOK(w.state)
  BY WorkFacts
<1>2. PICK r : r = ReleaseExpired(w.state)
  OBVIOUS
<1>3. StateOK(r.state) /\ r.state.pending \subseteq w.state.pending /\ r.out \in Seq(Nat)
  BY <1>1, <1>2, ExpiredShape
<1>4. Expire(w) = Settle(w, r)
  BY <1>2, Zenon DEF Expire
<1>5. /\ Work(Expire(w), R) /\ Expire(w).total <= w.total
      /\ Expire(w).state = r.state /\ Expire(w).out = w.out \o r.out
  <2>1. /\ Work(Settle(w, r), R) /\ Settle(w, r).state = r.state
        /\ Settle(w, r).out = w.out \o r.out /\ Settle(w, r).total <= w.total
    BY <1>3, SettleShape
  <2> QED BY <2>1, <1>4, Zenon
<1> QED BY <1>2, <1>3, <1>5, Zenon

(* A frame put aside is counted once.                                        *)
LEMMA AddedShape ==
  ASSUME FlowTypes, NEW R \in Nat, NEW w, Work(w, R), NEW fr, Frames(fr), Pair(fr) \notin w.state.pending
  PROVE  /\ Work(Added(w, fr), R) /\ Added(w, fr).total = w.total + 1
         /\ Added(w, fr).state.pending = w.state.pending \cup {Pair(fr)}
         /\ Added(w, fr).state.expected = w.state.expected
         /\ Added(w, fr).out = w.out
<1>1. /\ w.state \in States /\ IsFiniteSet(w.state.pending) /\ w \in Items
      /\ w.total = R + Cardinality(w.state.pending) /\ Cardinality(w.state.pending) \in Nat
  BY WorkFacts DEF StateOK
<1>2. PICK p : p = Pair(fr)
  OBVIOUS
<1>3. p \in Waiting
  BY <1>2 DEF Pair, Frames, Waiting
<1>4. Added(w, fr) = [w EXCEPT !.state.pending = @ \cup {p}, !.total = @ + 1]
  BY <1>2, Zenon DEF Added
<1>5. PICK s : s = [w.state EXCEPT !.pending = @ \cup {p}]
  OBVIOUS
<1>6. s \in States /\ s.pending = w.state.pending \cup {p} /\ s.expected = w.state.expected
  BY <1>1, <1>3, <1>5 DEF States
<1>7. Added(w, fr) = [state |-> s, out |-> w.out, total |-> w.total + 1]
  BY <1>1, <1>4, <1>5 DEF Items
<1>8. IsFiniteSet(s.pending) /\ Cardinality(s.pending) = Cardinality(w.state.pending) + 1
  BY <1>1, <1>2, <1>6, FS_AddElement
<1>9. Added(w, fr) \in Items
  BY <1>1, <1>6, <1>7 DEF Items
<1>10. w.total + 1 = R + Cardinality(s.pending)
  BY <1>1, <1>8
<1> QED BY <1>2, <1>6, <1>7, <1>8, <1>9, <1>10 DEF Work

(* The gap clock does not touch the frames.                                  *)
LEMMA TimedShape ==
  ASSUME now \in Nat, NEW R \in Nat, NEW w, Work(w, R)
  PROVE  /\ Work(Timed(w), R) /\ Timed(w).total = w.total /\ Timed(w).out = w.out
         /\ Timed(w).state.pending = w.state.pending
         /\ Timed(w).state.expected = w.state.expected
<1>1. w.state \in States /\ IsFiniteSet(w.state.pending) /\ w \in Items
  BY WorkFacts DEF StateOK
<1>2. PICK g : g = IF w.state.gap = -1 THEN now ELSE w.state.gap
  OBVIOUS
<1>3. g \in {-1} \cup 0 .. now
  BY <1>1, <1>2 DEF States
<1>4. PICK s : s = [w.state EXCEPT !.gap = g]
  OBVIOUS
<1>5. s \in States /\ s.pending = w.state.pending /\ s.expected = w.state.expected
  BY <1>1, <1>3, <1>4 DEF States
<1>6. Timed(w) = [w EXCEPT !.state.gap = g]
  BY <1>2, Zenon DEF Timed
<1>7. Timed(w) = [state |-> s, out |-> w.out, total |-> w.total]
  BY <1>1, <1>4, <1>6 DEF Items
<1>8. Timed(w) \in Items
  BY <1>1, <1>5, <1>7 DEF Items
<1> QED BY <1>1, <1>5, <1>7, <1>8 DEF Work

Jumped(v, fr) == [v EXCEPT !.out = Append(@, fr.n),
                           !.state.expected = (fr.seq + 1) % FlowModulus, !.state.gap = -1]

(* push_at by cases.                                                         *)
LEMMA PushIs ==
  ASSUME NEW w0, NEW fr, NEW w, w = Expire(w0), NEW v, v = MakeRoom(w)
  PROVE  PushAt(w0, fr) =
           IF fr.seq = w.state.expected THEN InOrder(w, fr)
           ELSE IF Known(w.state, fr) THEN w
           ELSE IF v.total = MaxTotal /\ v.state.pending = {} THEN Jumped(v, fr)
           ELSE Store(v, fr)
BY Zenon DEF PushAt, Expire, Jumped, NoGap

(* Jumping to a frame leaves the pending frames alone.                       *)
LEMMA JumpedShape ==
  ASSUME FlowTypes, NEW R \in Nat, NEW v, Work(v, R), NEW fr, Frames(fr)
  PROVE  /\ Work(Jumped(v, fr), R) /\ Jumped(v, fr).total = v.total
         /\ Jumped(v, fr).state.pending = v.state.pending
         /\ Jumped(v, fr).state.expected = (fr.seq + 1) % FlowModulus
         /\ Jumped(v, fr).out = Append(v.out, fr.n)
<1>1. v.state \in States /\ IsFiniteSet(v.state.pending) /\ v \in Items
  BY WorkFacts DEF StateOK
<1>2. PICK e, o : e = (fr.seq + 1) % FlowModulus /\ o = Append(v.out, fr.n)
  OBVIOUS
<1>3. e \in 0 .. FlowModulus - 1
  <2>1. fr.seq + 1 \in Int
    BY DEF Frames, FlowTypes
  <2> QED BY <2>1, <1>2, ModRange DEF FlowTypes
<1>4. o \in Seq(Nat)
  BY <1>1, <1>2 DEF Items, Frames
<1>5. Jumped(v, fr) = [v EXCEPT !.out = o, !.state.expected = e, !.state.gap = -1]
  BY <1>2, Zenon DEF Jumped
<1>6. PICK s : s = [v.state EXCEPT !.expected = e, !.gap = -1]
  OBVIOUS
<1>7. s \in States /\ s.pending = v.state.pending /\ s.expected = e
  BY <1>1, <1>3, <1>6 DEF States
<1>8. Jumped(v, fr) = [state |-> s, out |-> o, total |-> v.total]
  BY <1>1, <1>5, <1>6 DEF Items
<1>9. Jumped(v, fr) \in Items
  BY <1>1, <1>4, <1>7, <1>8 DEF Items
<1> QED BY <1>1, <1>2, <1>7, <1>8, <1>9 DEF Work

(* Storing a frame keeps the count exact and within MAX_PENDING_TOTAL.       *)
LEMMA StoreShape ==
  ASSUME FlowTypes, now \in Nat, NEW R \in Nat, NEW v, Work(v, R), NEW fr, Frames(fr),
         Pair(fr) \notin v.state.pending, v.total <= MaxTotal,
         v.total = MaxTotal => IsForward(fr.seq, v.state.expected)
  PROVE  Work(Store(v, fr), R) /\ Store(v, fr).total <= MaxTotal
<1>1. PICK a, k, t : a = Added(v, fr) /\ k = Keep(a) /\ t = Timed(k)
  OBVIOUS
<1>2. /\ Work(a, R) /\ a.total = v.total + 1
      /\ a.state.pending = v.state.pending \cup {Pair(fr)} /\ a.state.expected = v.state.expected
  BY <1>1, AddedShape
<1>3. a.total \in Nat /\ v.total \in Nat /\ MaxTotal \in Nat
  BY <1>2, WorkFacts DEF FlowTypes
<1>4. Work(k, R) /\ k.total <= MaxTotal
  <2>1. CASE a.total > MaxTotal
    <3>1. k = Released(a)
      BY <2>1, <1>1 DEF Keep
    <3>2. v.total = MaxTotal
      BY <2>1, <1>2, <1>3
    <3>3. Pair(fr) \in Forward(a.state)
      BY <3>2, <1>2 DEF Forward, Pair
    <3>4. Work(k, R) /\ k.total < a.total
      BY <3>1, <3>3, <1>2, ReleasedShape
    <3>5. k.total \in Nat
      BY <3>4, WorkFacts
    <3> QED BY <3>2, <3>4, <3>5, <1>2, <1>3
  <2>2. CASE ~(a.total > MaxTotal)
    <3>1. k = a
      BY <2>2, <1>1 DEF Keep
    <3> QED BY <3>1, <2>2, <1>2, <1>3
  <2> QED BY <2>1, <2>2
<1>5. Work(t, R) /\ t.total = k.total
  BY <1>1, <1>4, TimedShape
<1>6. Work(Expire(t), R) /\ Expire(t).total <= t.total
  BY <1>5, ExpireShape
<1>7. Store(v, fr) = Expire(t)
  BY <1>1, StoreIs
<1>8. Expire(t).total \in Nat /\ t.total \in Nat /\ k.total \in Nat
  BY <1>4, <1>5, <1>6, WorkFacts
<1>9. Expire(t).total <= MaxTotal
  BY <1>3, <1>4, <1>5, <1>6, <1>8
<1> QED BY <1>6, <1>7, <1>9

(* push_at counts exactly and stays within MAX_PENDING_TOTAL.                *)
LEMMA PushShape ==
  ASSUME FlowTypes, now \in Nat, NEW R \in Nat, NEW w0, Work(w0, R), w0.total <= MaxTotal,
         NEW fr, Frames(fr)
  PROVE  Work(PushAt(w0, fr), R) /\ PushAt(w0, fr).total <= MaxTotal
<1>1. PICK w, v, r : w = Expire(w0) /\ v = MakeRoom(w) /\ r = PushAt(w0, fr)
  OBVIOUS
<1>2. Work(w, R) /\ w.total <= w0.total
  BY <1>1, ExpireShape
<1>3. /\ Work(v, R) /\ v.total <= w.total /\ v.state.pending \subseteq w.state.pending
      /\ v.total = w.total => v.state.expected = w.state.expected
  BY <1>1, <1>2, RoomShape
<1>4. MaxTotal \in Nat /\ w0.total \in Nat /\ w.total \in Nat /\ v.total \in Nat
  BY <1>2, <1>3, WorkFacts DEF FlowTypes
<1>5. w.total <= MaxTotal /\ v.total <= MaxTotal
  BY <1>2, <1>3, <1>4
<1>6. r = IF fr.seq = w.state.expected THEN InOrder(w, fr)
          ELSE IF Known(w.state, fr) THEN w
          ELSE IF v.total = MaxTotal /\ v.state.pending = {} THEN Jumped(v, fr)
          ELSE Store(v, fr)
  BY <1>1, PushIs, Zenon
<1>7. CASE fr.seq = w.state.expected
  <2>1. r = InOrder(w, fr)
    BY <1>6, <1>7, Zenon
  <2>2. Work(r, R) /\ r.total <= w.total
    BY <2>1, <1>2, InOrderShape
  <2>3. r.total \in Nat
    BY <2>2, WorkFacts
  <2>4. r.total <= MaxTotal
    BY <2>2, <2>3, <1>4, <1>5
  <2> QED BY <2>2, <2>4, <1>1
<1>8. CASE fr.seq # w.state.expected /\ Known(w.state, fr)
  <2>1. r = w
    BY <1>6, <1>8, Zenon
  <2> QED BY <2>1, <1>1, <1>2, <1>5
<1>9. CASE fr.seq # w.state.expected /\ ~Known(w.state, fr)
  <2>1. CASE v.total = MaxTotal /\ v.state.pending = {}
    <3>1. r = Jumped(v, fr)
      BY <1>6, <1>9, <2>1, Zenon
    <3>2. Work(r, R) /\ r.total = v.total
      BY <3>1, <1>3, JumpedShape
    <3> QED BY <3>2, <1>1, <1>5
  <2>2. CASE ~(v.total = MaxTotal /\ v.state.pending = {})
    <3>1. r = Store(v, fr)
      BY <1>6, <1>9, <2>2, Zenon
    <3>2. IsForward(fr.seq, w.state.expected) /\ \A p \in w.state.pending : p.seq # fr.seq
      BY <1>9, Zenon DEF Known
    <3>3. Pair(fr) \notin v.state.pending
      <4>1. Pair(fr).seq = fr.seq
        BY DEF Pair
      <4> QED BY <4>1, <3>2, <1>3
    <3>4. v.total = MaxTotal => IsForward(fr.seq, v.state.expected)
      <4>1. v.total = MaxTotal => v.total = w.total
        BY <1>3, <1>4, <1>5
      <4> QED BY <4>1, <3>2, <1>3
    <3>5. Work(r, R) /\ r.total <= MaxTotal
      BY <3>1, <3>3, <3>4, <1>3, <1>5, StoreShape
    <3> QED BY <3>5, <1>1
  <2> QED BY <2>1, <2>2
<1> QED BY <1>7, <1>8, <1>9

------------------------------------------------------------------------------
(* The frames the flows other than k hold.                                   *)
Held(fl) == UNION {{j} \X fl[j].pending : j \in DOMAIN fl}
Others(fl, k) == UNION {{j} \X fl[j].pending : j \in DOMAIN fl \ {k}}

(* The held frames are those of k and those of the others.                   *)
LEMMA HeldSplit ==
  ASSUME NEW fl, NEW k, IsFiniteSet(DOMAIN fl), \A j \in DOMAIN fl : IsFiniteSet(fl[j].pending)
  PROVE  /\ IsFiniteSet(Others(fl, k)) /\ Cardinality(Others(fl, k)) \in Nat
         /\ k \notin DOMAIN fl => Held(fl) = Others(fl, k)
         /\ k \in DOMAIN fl =>
              Cardinality(Held(fl)) = Cardinality(Others(fl, k)) + Cardinality(fl[k].pending)
<1> DEFINE D == DOMAIN fl \ {k}
           F == [j \in D |-> {j} \X fl[j].pending]
           T == {{j} \X fl[j].pending : j \in D}
<1>1. IsFiniteSet(D)
  BY FS_RemoveElement
<1>2. IsFiniteSet(T)
  <2>1. F \in Surjection(D, T)
    BY DEF Surjection
  <2> QED BY <2>1, <1>1, FS_Surjection
<1>3. \A S \in T : IsFiniteSet(S)
  <2> SUFFICES ASSUME NEW j \in D PROVE IsFiniteSet({j} \X fl[j].pending)
    OBVIOUS
  <2>1. IsFiniteSet({j}) /\ IsFiniteSet(fl[j].pending)
    BY FS_Singleton
  <2> QED BY <2>1, FS_Product
<1>4. IsFiniteSet(UNION T)
  BY <1>2, <1>3, FS_UNION
<1>5. Others(fl, k) = UNION T
  BY DEF Others
<1>6. IsFiniteSet(Others(fl, k)) /\ Cardinality(Others(fl, k)) \in Nat
  BY <1>4, <1>5, FS_CardinalityType
<1>7. ASSUME k \notin DOMAIN fl PROVE Held(fl) = Others(fl, k)
  <2>1. DOMAIN fl \ {k} = DOMAIN fl
    BY <1>7
  <2> QED BY <2>1 DEF Held, Others
<1>8. ASSUME k \in DOMAIN fl
      PROVE  Cardinality(Held(fl)) = Cardinality(Others(fl, k)) + Cardinality(fl[k].pending)
  <2>1. PICK O, P : O = Others(fl, k) /\ P = {k} \X fl[k].pending
    OBVIOUS
  <2>2. Held(fl) = O \cup P
    BY <2>1, <1>8 DEF Held, Others
  <2>3. O \cap P = {}
    BY <2>1 DEF Others
  <2>4. IsFiniteSet({k}) /\ Cardinality({k}) = 1 /\ IsFiniteSet(fl[k].pending)
    BY <1>8, FS_Singleton
  <2>5. IsFiniteSet(P) /\ Cardinality(P) = 1 * Cardinality(fl[k].pending)
    BY <2>1, <2>4, FS_Product
  <2>6. Cardinality(fl[k].pending) \in Nat /\ Cardinality({}) = 0
    BY <2>4, FS_CardinalityType, FS_EmptySet
  <2>7. Cardinality(O \cup P) = Cardinality(O) + Cardinality(P) - Cardinality(O \cap P)
    BY <2>1, <2>5, <1>6, FS_Union
  <2>8. Cardinality(O \cap P) = 0
    BY <2>3, <2>6
  <2>9. Cardinality(O) \in Nat
    BY <2>1, <1>6
  <2>10. Cardinality(O \cup P) = Cardinality(O) + Cardinality(fl[k].pending)
    BY <2>5, <2>6, <2>7, <2>8, <2>9
  <2> QED BY <2>1, <2>2, <2>10
<1> QED BY <1>6, <1>7, <1>8

(* A new FlowState of k leaves the other flows alone.                        *)
LEMMA PutOthers ==
  ASSUME NEW fl, NEW k, NEW s
  PROVE  Others(Put(fl, k, s), k) = Others(fl, k)
<1>1. PICK g : g = Put(fl, k, s)
  OBVIOUS
<1>2. DOMAIN g \ {k} = DOMAIN fl \ {k} /\ \A j \in DOMAIN fl \ {k} : g[j] = fl[j]
  BY <1>1 DEF Put
<1>3. Others(g, k) = Others(fl, k)
  BY <1>2 DEF Others
<1> QED BY <1>1, <1>3

(* What the accounting rests on: the counters, the frames on the paths and   *)
(* the table, with every FlowState of its type.                              *)
FlowIds ==
  /\ sends \in 0 .. FlowSends /\ restarts \in 0 .. MaxRestarts
  /\ sender \in Nat /\ 1 <= sender /\ sender <= (sends + restarts) + 1
  /\ now \in Nat

SequencerOK ==
  /\ DOMAIN sequences \subseteq Flows /\ \A f \in DOMAIN sequences : sequences[f] \in 0 .. FlowModulus - 1
  /\ IsFiniteSet(DOMAIN sequences) /\ Cardinality(DOMAIN sequences) <= MaxTracked
  /\ DOMAIN flowSent \subseteq Keys /\ \A k \in DOMAIN flowSent : flowSent[k] \in Nat
  /\ \A fr \in net : fr.key \in Keys /\ Frames(fr)

TableOK ==
  /\ DOMAIN flows \subseteq Keys
  /\ IsFiniteSet(DOMAIN flows) /\ Cardinality(DOMAIN flows) <= MaxTracked
  /\ \A k \in DOMAIN flows : StateOK(flows[k])

HoldInv ==
  FlowIds /\ SequencerOK /\ TableOK /\ total = Cardinality(Held(flows)) /\ total <= MaxTotal

(* The empty table.                                                          *)
LEMMA EmptyTable ==
  /\ DOMAIN NoFlows = {} /\ IsFiniteSet(DOMAIN NoFlows)
  /\ Cardinality(DOMAIN NoFlows) = 0
  /\ Held(NoFlows) = {} /\ Cardinality(Held(NoFlows)) = 0
<1>1. DOMAIN NoFlows = {}
  BY DEF NoFlows
<1>2. Held(NoFlows) = {}
  BY <1>1 DEF Held
<1> QED BY <1>1, <1>2, FS_EmptySet

(* The number of entries after one is put into a table.                      *)
LEMMA PutCount ==
  ASSUME NEW f, NEW k, NEW v, IsFiniteSet(DOMAIN f)
  PROVE  /\ IsFiniteSet(DOMAIN Put(f, k, v))
         /\ Cardinality(DOMAIN Put(f, k, v)) =
              IF k \in DOMAIN f THEN Cardinality(DOMAIN f) ELSE Cardinality(DOMAIN f) + 1
<1>1. DOMAIN Put(f, k, v) = DOMAIN f \cup {k}
  BY DEF Put
<1> QED BY <1>1, FS_AddElement

(* The keys the sequencer uses.                                              *)
LEMMA KeysAre ==
  ASSUME FlowTypes, NEW s \in Nat, 1 <= s, s <= (FlowSends + MaxRestarts) + 1, NEW f \in Flows
  PROVE  [sender |-> s, flow |-> f] \in Keys
BY DEF Keys, FlowTypes

(* A new FlowState.                                                          *)
LEMMA NewStateOK ==
  ASSUME FlowTypes, now \in Nat
  PROVE  StateOK(NewState) /\ NewState.pending = {} /\ NewState.expected = 0
<1>1. NewState = [expected |-> 0, gap |-> -1, pending |-> {}]
  BY DEF NewState, NoGap
<1>2. NewState \in States
  BY <1>1 DEF States, FlowTypes
<1> QED BY <1>1, <1>2, FS_EmptySet DEF StateOK

(* The accounting invariant holds initially.                                 *)
LEMMA HoldInit ==
  ASSUME FlowTypes, FlowInit
  PROVE  HoldInv
<1>1. PICK f \in Flows, b \in Before :
        LET k == [sender |-> 1, flow |-> f]
            had(v) == IF b = 0 THEN NoFlows ELSE Put(NoFlows, k, v)
        IN  /\ sequences = IF b = 0 THEN NoFlows ELSE Put(NoFlows, f, b)
            /\ flowSent = had(b)
            /\ flows = had([NewState EXCEPT !.expected = b])
  BY Zenon DEF FlowInit
<1>2. FlowIds
  BY DEF FlowInit, FlowIds, FlowTypes
<1>3. PICK k, s : k = [sender |-> 1, flow |-> f] /\ s = [NewState EXCEPT !.expected = b]
  OBVIOUS
<1>4. b \in 0 .. FlowModulus - 1 /\ k \in Keys
  BY <1>3, KeysAre DEF FlowTypes
<1>5. s = [expected |-> b, gap |-> -1, pending |-> {}]
  BY <1>3 DEF NewState, NoGap
<1>6. StateOK(s) /\ s.pending = {}
  <2>1. s \in States
    BY <1>4, <1>5, <1>2 DEF States, FlowIds
  <2> QED BY <2>1, <1>5, FS_EmptySet DEF StateOK
<1>7. net = {} /\ total = 0 /\ MaxTotal \in Nat /\ MaxTracked \in Nat \ {0}
  BY DEF FlowInit, FlowTypes
<1>8. CASE b = 0
  <2>1. sequences = NoFlows /\ flowSent = NoFlows /\ flows = NoFlows
    BY <1>1, <1>8, Zenon
  <2> QED BY <2>1, <1>2, <1>7, EmptyTable DEF HoldInv, SequencerOK, TableOK
<1>9. CASE b # 0
  <2>1. /\ sequences = Put(NoFlows, f, b) /\ flowSent = Put(NoFlows, k, b)
        /\ flows = Put(NoFlows, k, s)
    BY <1>1, <1>3, <1>9, Zenon
  <2>2. DOMAIN sequences = {f} /\ sequences[f] = b /\ DOMAIN flowSent = {k} /\ flowSent[k] = b
    BY <2>1, EmptyTable DEF Put
  <2>3. DOMAIN flows = {k} /\ flows[k] = s
    BY <2>1, EmptyTable DEF Put
  <2>4. /\ IsFiniteSet(DOMAIN sequences) /\ Cardinality(DOMAIN sequences) = 1
        /\ IsFiniteSet(DOMAIN flows) /\ Cardinality(DOMAIN flows) = 1
    BY <2>2, <2>3, FS_Singleton
  <2>5. Held(flows) = {}
    BY <2>3, <1>6 DEF Held
  <2>6. Cardinality(Held(flows)) = 0
    BY <2>5, FS_EmptySet
  <2>7. SequencerOK
    BY <2>2, <2>4, <1>4, <1>7 DEF SequencerOK, FlowTypes
  <2>8. TableOK
    BY <2>3, <2>4, <1>4, <1>6, <1>7 DEF TableOK
  <2> QED BY <2>6, <2>7, <2>8, <1>2, <1>7 DEF HoldInv
<1> QED BY <1>8, <1>9

(* The clock only moves the end of the interval the gap clocks lie in.       *)
LEMMA StateKept ==
  ASSUME now \in Nat, now' \in Nat, now' >= now, NEW st, StateOK(st)
  PROVE  st \in States' /\ IsFiniteSet(st.pending)
<1>1. st \in States /\ IsFiniteSet(st.pending)
  BY DEF StateOK
<1>2. 0 .. now \subseteq 0 .. now'
  OBVIOUS
<1>3. States \subseteq States'
  BY <1>2 DEF States, Waiting
<1> QED BY <1>1, <1>3

(* A step that leaves the table alone keeps it typed.                        *)
LEMMA TableKept ==
  ASSUME TableOK, now \in Nat, now' \in Nat, now' >= now, flows' = flows
  PROVE  TableOK'
BY StateKept DEF TableOK, StateOK

(* Stamping a packet keeps the accounting invariant.                         *)
LEMMA HoldSequencer ==
  ASSUME FlowTypes, HoldInv, NEW f \in Flows, SequencerNext(f)
  PROVE  HoldInv'
<1>1. PICK id, seq, k :
        /\ id = IF Overflow(f) THEN sender + 1 ELSE sender
        /\ seq = IF Overflow(f) THEN NoFlows ELSE sequences
        /\ k = [sender |-> id, flow |-> f]
  OBVIOUS
<1>2. /\ sends < FlowSends /\ sends' = sends + 1 /\ sender' = id
      /\ sequences' = Put(seq, f, (Get(seq, f, 0) + 1) % FlowModulus)
      /\ flowSent' = Put(flowSent, k, Get(flowSent, k, 0) + 1)
      /\ net' = net \cup {Frame(k, Get(seq, f, 0), Get(flowSent, k, 0))}
      /\ flows' = flows /\ total' = total /\ now' = now /\ restarts' = restarts
  BY <1>1, Zenon DEF SequencerNext, reassembler
<1>3. FlowIds
  BY DEF HoldInv
<1>4. FlowIds'
  BY <1>1, <1>2, <1>3 DEF FlowIds, FlowTypes
<1>5. k \in Keys
  <2>1. id \in Nat /\ 1 <= id /\ id <= (FlowSends + MaxRestarts) + 1
    BY <1>1, <1>2, <1>3 DEF FlowIds, FlowTypes
  <2> QED BY <2>1, <1>1, KeysAre
<1>6. /\ DOMAIN seq \subseteq Flows /\ \A g \in DOMAIN seq : seq[g] \in 0 .. FlowModulus - 1
      /\ IsFiniteSet(DOMAIN seq) /\ Cardinality(DOMAIN seq) \in Nat
      /\ Cardinality(DOMAIN seq) <= MaxTracked
      /\ f \notin DOMAIN seq => Cardinality(DOMAIN seq) < MaxTracked
  <2>1. CASE Overflow(f)
    BY <2>1, <1>1, EmptyTable DEF FlowTypes
  <2>2. CASE ~Overflow(f)
    <3>1. seq = sequences
      BY <2>2, <1>1
    <3>2. Cardinality(DOMAIN sequences) \in Nat /\ MaxTracked \in Nat
      BY FS_CardinalityType DEF HoldInv, SequencerOK, FlowTypes
    <3>3. f \notin DOMAIN sequences => Cardinality(DOMAIN sequences) # MaxTracked
      BY <2>2 DEF Overflow
    <3> QED BY <3>1, <3>2, <3>3 DEF HoldInv, SequencerOK
  <2> QED BY <2>1, <2>2
<1>7. PICK q, c : q = Get(seq, f, 0) /\ c = Get(flowSent, k, 0)
  OBVIOUS
<1>8. q \in 0 .. FlowModulus - 1 /\ c \in Nat
  BY <1>6, <1>7 DEF Get, HoldInv, SequencerOK, FlowTypes
<1>9. (q + 1) % FlowModulus \in 0 .. FlowModulus - 1
  <2>1. q + 1 \in Int
    BY <1>8 DEF FlowTypes
  <2> QED BY <2>1, ModRange DEF FlowTypes
<1>10. SequencerOK'
  <2>1. PICK p : p = (q + 1) % FlowModulus
    OBVIOUS
  <2>2. sequences' = Put(seq, f, p) /\ flowSent' = Put(flowSent, k, c + 1)
    BY <2>1, <1>2, <1>7
  <2>3. DOMAIN sequences' = DOMAIN seq \cup {f} /\ \A g \in DOMAIN sequences' : sequences'[g] \in 0 .. FlowModulus - 1
    BY <2>1, <2>2, <1>6, <1>9 DEF Put
  <2>4. IsFiniteSet(DOMAIN sequences') /\ Cardinality(DOMAIN sequences') <= MaxTracked
    <3>1. /\ IsFiniteSet(DOMAIN sequences')
          /\ Cardinality(DOMAIN sequences') =
               IF f \in DOMAIN seq THEN Cardinality(DOMAIN seq) ELSE Cardinality(DOMAIN seq) + 1
      BY <2>2, <1>6, PutCount
    <3> QED BY <3>1, <1>6 DEF FlowTypes
  <2>5. DOMAIN flowSent' \subseteq Keys /\ \A j \in DOMAIN flowSent' : flowSent'[j] \in Nat
    BY <2>2, <1>5, <1>8 DEF HoldInv, SequencerOK, Put
  <2>6. ASSUME NEW fr \in net' PROVE fr.key \in Keys /\ Frames(fr)
    <3>1. CASE fr \in net
      BY <3>1 DEF HoldInv, SequencerOK
    <3>2. CASE fr = Frame(k, q, c)
      BY <3>2, <1>5, <1>8 DEF Frame, Frames
    <3> QED BY <3>1, <3>2, <1>2, <1>7
  <2>7. Keys' = Keys /\ \A fr : Frames(fr)' = Frames(fr)
    BY DEF Keys, Frames
  <2> QED BY <2>3, <2>4, <2>5, <2>6, <2>7, <1>6 DEF SequencerOK
<1>11. TableOK'
  BY <1>2, <1>3, TableKept DEF HoldInv, FlowIds
<1>12. (total = Cardinality(Held(flows)) /\ total <= MaxTotal)'
  BY <1>2 DEF HoldInv, Held
<1> QED BY <1>4, <1>10, <1>11, <1>12 DEF HoldInv

(* An arrival in terms of the table it works on.                             *)
Table(k) == IF TableFull(k) THEN NoFlows ELSE flows
Start(k) == [state |-> Get(Table(k), k, NewState), out |-> <<>>,
             total |-> IF TableFull(k) THEN 0 ELSE total]
History(k) == IF TableFull(k) THEN NoFlows ELSE out

(* An arrival, variable by variable.                                         *)
LEMMA ArriveIs ==
  ASSUME NEW fr, ArriveFrame(fr), NEW k, k = fr.key, NEW w, w = PushAt(Start(k), fr)
  PROVE  /\ fr \in net /\ ~Late(fr)
         /\ flows' = Put(Table(k), k, w.state) /\ total' = w.total
         /\ out' = Put(History(k), k, Get(History(k), k, <<>>) \o w.out)
         /\ arrived' = IF TableFull(k) THEN Put(NoFlows, k, {fr.n})
                       ELSE Put(arrived, k, Get(arrived, k, {}) \cup {fr.n})
         /\ sender' = sender /\ sequences' = sequences /\ sends' = sends /\ lossless' = lossless
         /\ flowSent' = flowSent /\ net' = net /\ now' = now /\ restarts' = restarts
BY Zenon DEF ArriveFrame, Table, Start, History, sequencer

(* What push_at starts from is counted exactly.                              *)
LEMMA StartShape ==
  ASSUME FlowTypes, HoldInv, NEW k \in Keys
  PROVE  /\ DOMAIN Table(k) \subseteq Keys /\ IsFiniteSet(DOMAIN Table(k))
         /\ \A j \in DOMAIN Table(k) : StateOK(Table(k)[j])
         /\ Cardinality(DOMAIN Put(Table(k), k, 0)) <= MaxTracked
         /\ Cardinality(Others(Table(k), k)) \in Nat
         /\ Work(Start(k), Cardinality(Others(Table(k), k)))
         /\ Start(k).total <= MaxTotal
<1>1. PICK t, s : t = Table(k) /\ s = Get(t, k, NewState)
  OBVIOUS
<1>2. /\ now \in Nat /\ TableOK /\ MaxTracked \in Nat \ {0} /\ MaxTotal \in Nat
  BY DEF HoldInv, FlowIds, FlowTypes
<1>3. /\ DOMAIN t \subseteq Keys /\ IsFiniteSet(DOMAIN t)
      /\ \A j \in DOMAIN t : StateOK(t[j])
      /\ Cardinality(DOMAIN t) \in Nat /\ Cardinality(DOMAIN t) <= MaxTracked
      /\ k \notin DOMAIN t => Cardinality(DOMAIN t) < MaxTracked
      /\ Start(k).total = Cardinality(Held(t)) /\ Start(k).total <= MaxTotal
  <2>0. Start(k).total = IF TableFull(k) THEN 0 ELSE total
    BY DEF Start
  <2>1. CASE TableFull(k)
    <3>1. t = NoFlows
      BY <2>1, <1>1 DEF Table
    <3> QED BY <3>1, <2>0, <2>1, <1>2, EmptyTable
  <2>2. CASE ~TableFull(k)
    <3>1. t = flows
      BY <2>2, <1>1 DEF Table
    <3>2. Cardinality(DOMAIN flows) \in Nat
      BY <1>2, FS_CardinalityType DEF TableOK
    <3>3. k \notin DOMAIN flows => Cardinality(DOMAIN flows) # MaxTracked
      BY <2>2 DEF TableFull
    <3> QED BY <3>1, <3>2, <3>3, <2>0, <2>2, <1>2 DEF TableOK, HoldInv
  <2> QED BY <2>1, <2>2
<1>4. StateOK(s)
  BY <1>1, <1>2, <1>3, NewStateOK DEF Get
<1>5. \A j \in DOMAIN t : IsFiniteSet(t[j].pending)
  BY <1>3 DEF StateOK
<1>6. PICK R : R = Cardinality(Others(t, k))
  OBVIOUS
<1>7. R \in Nat /\ Cardinality(Held(t)) = R + Cardinality(s.pending)
  <2>1. /\ R \in Nat
        /\ k \notin DOMAIN t => Held(t) = Others(t, k)
        /\ k \in DOMAIN t => Cardinality(Held(t)) = R + Cardinality(t[k].pending)
    BY <1>3, <1>5, <1>6, HeldSplit
  <2>2. CASE k \in DOMAIN t
    BY <2>1, <2>2, <1>1 DEF Get
  <2>3. CASE k \notin DOMAIN t
    <3>1. s.pending = {}
      BY <2>3, <1>1, <1>2, NewStateOK DEF Get
    <3>2. Cardinality(s.pending) = 0
      BY <3>1, FS_EmptySet
    <3> QED BY <2>1, <2>3, <3>2, <1>6
  <2> QED BY <2>1, <2>2, <2>3
<1>8. Start(k).state = s /\ Start(k).out = <<>> /\ Start(k) = [state |-> s, out |-> <<>>, total |-> Start(k).total]
  BY <1>1 DEF Start
<1>9. Start(k).total \in Nat /\ s \in States /\ IsFiniteSet(s.pending) /\ Cardinality(s.pending) \in Nat
  BY <1>3, <1>4, <1>7, FS_CardinalityType DEF StateOK
<1>10. Start(k) \in Items
  <2>1. <<>> \in Seq(Nat)
    OBVIOUS
  <2> QED BY <2>1, <1>8, <1>9 DEF Items
<1>11. Work(Start(k), R)
  BY <1>3, <1>7, <1>8, <1>9, <1>10 DEF Work
<1>12. Cardinality(DOMAIN Put(t, k, 0)) <= MaxTracked
  <2>1. Cardinality(DOMAIN Put(t, k, 0)) =
          IF k \in DOMAIN t THEN Cardinality(DOMAIN t) ELSE Cardinality(DOMAIN t) + 1
    BY <1>3, PutCount
  <2> QED BY <2>1, <1>2, <1>3
<1> QED BY <1>1, <1>3, <1>6, <1>7, <1>11, <1>12

(* An arrival keeps the accounting invariant.                                *)
LEMMA HoldArrive ==
  ASSUME FlowTypes, HoldInv, NEW fr, ArriveFrame(fr)
  PROVE  HoldInv'
<1>1. PICK k, w, R, t : /\ k = fr.key /\ w = PushAt(Start(k), fr)
                        /\ R = Cardinality(Others(t, k)) /\ t = Table(k)
  OBVIOUS
<1>2. /\ fr \in net
      /\ flows' = Put(t, k, w.state) /\ total' = w.total
      /\ sender' = sender /\ sequences' = sequences /\ sends' = sends
      /\ flowSent' = flowSent /\ net' = net /\ now' = now /\ restarts' = restarts
  BY <1>1, ArriveIs, Zenon
<1>3. k \in Keys /\ Frames(fr) /\ now \in Nat
  BY <1>1, <1>2 DEF HoldInv, SequencerOK, FlowIds
<1>4. /\ DOMAIN t \subseteq Keys /\ IsFiniteSet(DOMAIN t)
      /\ \A j \in DOMAIN t : StateOK(t[j])
      /\ Cardinality(DOMAIN Put(t, k, 0)) <= MaxTracked
      /\ R \in Nat /\ Work(Start(k), R) /\ Start(k).total <= MaxTotal
  BY <1>1, <1>3, StartShape
<1>5. Work(w, R) /\ w.total <= MaxTotal
  BY <1>1, <1>3, <1>4, PushShape
<1>6. StateOK(w.state) /\ w.total = R + Cardinality(w.state.pending)
  BY <1>4, <1>5, WorkFacts
<1>7. /\ DOMAIN flows' = DOMAIN t \cup {k} /\ flows'[k] = w.state
      /\ \A j \in DOMAIN t : j # k => flows'[j] = t[j]
      /\ Others(flows', k) = Others(t, k)
  <2>1. PICK g, s : g = flows' /\ s = w.state
    OBVIOUS
  <2>2. g = Put(t, k, s)
    BY <2>1, <1>2
  <2>3. /\ DOMAIN g = DOMAIN t \cup {k} /\ g[k] = s
        /\ \A j \in DOMAIN t : j # k => g[j] = t[j]
    BY <2>2 DEF Put
  <2>4. Others(g, k) = Others(t, k)
    BY <2>2, PutOthers
  <2> QED BY <2>1, <2>3, <2>4
<1>8. IsFiniteSet(DOMAIN flows') /\ Cardinality(DOMAIN flows') <= MaxTracked
  <2>1. DOMAIN flows' = DOMAIN Put(t, k, 0)
    BY <1>7 DEF Put
  <2>2. IsFiniteSet(DOMAIN Put(t, k, 0))
    BY <1>4, PutCount
  <2> QED BY <2>1, <2>2, <1>4
<1>9. \A j \in DOMAIN flows' : StateOK(flows'[j])
  BY <1>4, <1>6, <1>7
<1>10. Cardinality(Held(flows')) = R + Cardinality(w.state.pending)
  <2>1. \A j \in DOMAIN flows' : IsFiniteSet(flows'[j].pending)
    BY <1>9 DEF StateOK
  <2>2. k \in DOMAIN flows'
    BY <1>7
  <2>3. PICK g : g = flows'
    OBVIOUS
  <2>4. Cardinality(Held(g)) = Cardinality(Others(g, k)) + Cardinality(g[k].pending)
    BY <2>1, <2>2, <2>3, <1>8, HeldSplit
  <2> QED BY <2>3, <2>4, <1>1, <1>7
<1>11. TableOK'
  <2>1. \A j \in DOMAIN flows' : flows'[j] \in States' /\ IsFiniteSet(flows'[j].pending)
    <3>1. States' = States
      BY <1>2 DEF States, Waiting
    <3> QED BY <3>1, <1>9 DEF StateOK
  <2>2. DOMAIN flows' \subseteq Keys
    BY <1>3, <1>4, <1>7
  <2> QED BY <2>1, <2>2, <1>8 DEF TableOK, StateOK, Keys
<1>12. FlowIds'
  BY <1>2 DEF HoldInv, FlowIds
<1>13. SequencerOK'
  BY <1>2 DEF HoldInv, SequencerOK, Frames, Keys
<1>14. (total = Cardinality(Held(flows)) /\ total <= MaxTotal)'
  BY <1>2, <1>5, <1>6, <1>10 DEF Held
<1> QED BY <1>11, <1>12, <1>13, <1>14 DEF HoldInv

(* Every step keeps the accounting invariant.                                *)
LEMMA HoldNext ==
  ASSUME FlowTypes, HoldInv, [FlowNext]_flowVars
  PROVE  HoldInv'
<1>1. ASSUME NEW f \in Flows, SequencerNext(f) PROVE HoldInv'
  BY <1>1, HoldSequencer
<1>2. ASSUME NEW fr \in net, ArriveFrame(fr) PROVE HoldInv'
  BY <1>2, HoldArrive
<1>3. CASE SequencerNew
  <2>1. /\ restarts < MaxRestarts /\ restarts' = restarts + 1
        /\ sender' = sender + 1 /\ sequences' = NoFlows
        /\ flowSent' = flowSent /\ sends' = sends /\ net' = net /\ flows' = flows /\ total' = total /\ now' = now
    BY <1>3, Zenon DEF SequencerNew, reassembler
  <2>2. FlowIds'
    BY <2>1 DEF HoldInv, FlowIds, FlowTypes
  <2>3. SequencerOK'
    BY <2>1, EmptyTable DEF HoldInv, SequencerOK, Frames, Keys, FlowTypes
  <2>4. TableOK'
    BY <2>1, TableKept DEF HoldInv, FlowIds
  <2>5. (total = Cardinality(Held(flows)) /\ total <= MaxTotal)'
    BY <2>1 DEF HoldInv, Held
  <2> QED BY <2>2, <2>3, <2>4, <2>5 DEF HoldInv
<1>4. CASE ReassemblerNew
  <2>1. /\ restarts < MaxRestarts /\ restarts' = restarts + 1
        /\ flows' = NoFlows /\ total' = 0
        /\ sender' = sender /\ sequences' = sequences
        /\ flowSent' = flowSent /\ sends' = sends /\ net' = net /\ now' = now
    BY <1>4, Zenon DEF ReassemblerNew, sequencer
  <2>2. FlowIds'
    BY <2>1 DEF HoldInv, FlowIds, FlowTypes
  <2>3. SequencerOK'
    BY <2>1 DEF HoldInv, SequencerOK, Frames, Keys
  <2>4. TableOK'
    BY <2>1, EmptyTable DEF TableOK, FlowTypes
  <2>5. (total = Cardinality(Held(flows)) /\ total <= MaxTotal)'
    <3>1. Held(flows)' = {}
      BY <2>1, EmptyTable DEF Held
    <3> QED BY <3>1, <2>1, FS_EmptySet DEF FlowTypes
  <2> QED BY <2>2, <2>3, <2>4, <2>5 DEF HoldInv
<1>5. CASE Tick
  <2>1. /\ now' = now + 1 /\ flows' = flows /\ total' = total
        /\ sender' = sender /\ sequences' = sequences
        /\ flowSent' = flowSent /\ sends' = sends /\ net' = net /\ restarts' = restarts
    BY <1>5, Zenon DEF Tick, sequencer, reassembler
  <2>2. FlowIds'
    BY <2>1 DEF HoldInv, FlowIds
  <2>3. SequencerOK'
    BY <2>1 DEF HoldInv, SequencerOK, Frames, Keys
  <2>4. TableOK'
    BY <2>1, TableKept DEF HoldInv, FlowIds
  <2>5. (total = Cardinality(Held(flows)) /\ total <= MaxTotal)'
    BY <2>1 DEF HoldInv, Held
  <2> QED BY <2>2, <2>3, <2>4, <2>5 DEF HoldInv
<1>6. CASE UNCHANGED flowVars
  <2>1. /\ now' = now /\ flows' = flows /\ total' = total
        /\ sender' = sender /\ sequences' = sequences
        /\ flowSent' = flowSent /\ sends' = sends /\ net' = net /\ restarts' = restarts
    BY <1>6, Zenon DEF flowVars
  <2>2. FlowIds'
    BY <2>1 DEF HoldInv, FlowIds
  <2>3. SequencerOK'
    BY <2>1 DEF HoldInv, SequencerOK, Frames, Keys
  <2>4. TableOK'
    BY <2>1, TableKept DEF HoldInv, FlowIds
  <2>5. (total = Cardinality(Held(flows)) /\ total <= MaxTotal)'
    BY <2>1 DEF HoldInv, Held
  <2> QED BY <2>2, <2>3, <2>4, <2>5 DEF HoldInv
<1> QED BY <1>1, <1>2, <1>3, <1>4, <1>5, <1>6, Zenon DEF FlowNext

(* pending_total is what the FlowStates really hold and never exceeds        *)
(* MAX_PENDING_TOTAL: push_at counts every release although it subtracts     *)
(* with saturation, and clearing a full table forgets exactly what it drops. *)
THEOREM PendingExact ==
  ASSUME FlowBounds
  PROVE  FlowSpec => []TotalExact
<1>0. FlowTypes
  BY FlowBoundsTyped
<1>1. FlowInit => HoldInv
  BY <1>0, HoldInit
<1>2. HoldInv /\ [FlowNext]_flowVars => HoldInv'
  BY <1>0, HoldNext
<1>3. HoldInv => TotalExact
  <2> SUFFICES ASSUME HoldInv PROVE TotalExact
    OBVIOUS
  <2>1. total = Cardinality(Buffered)
    BY DEF HoldInv, Held, Buffered
  <2>2. total \in Nat
    <3>1. \A j \in DOMAIN flows : IsFiniteSet(flows[j].pending)
      BY DEF HoldInv, TableOK, StateOK
    <3>2. PICK k : k \notin DOMAIN flows
      <4>1. [sender |-> 0, flow |-> 0] \notin Keys
        BY <1>0 DEF Keys, FlowTypes
      <4> QED BY <4>1 DEF HoldInv, TableOK
    <3>3. Held(flows) = Others(flows, k) /\ Cardinality(Others(flows, k)) \in Nat
      BY <3>1, <3>2, HeldSplit DEF HoldInv, TableOK
    <3> QED BY <3>3 DEF HoldInv
  <2>3. FlowTypeOK
    <3>1. \A k \in DOMAIN flows : flows[k].expected \in 0 .. (FlowModulus - 1) /\ flows[k].gap \in {-1} \cup 0 .. now
      BY DEF HoldInv, TableOK, StateOK, States
    <3>2. /\ Cardinality(DOMAIN flows) <= MaxTracked /\ Cardinality(DOMAIN sequences) <= MaxTracked
      BY DEF HoldInv, TableOK, SequencerOK
    <3> QED BY <3>1, <3>2, <2>2 DEF HoldInv, TableOK, FlowTypeOK, NoGap
  <2> QED BY <2>1, <2>3 DEF HoldInv, TotalExact
<1> QED BY <1>1, <1>2, <1>3, PTL DEF FlowSpec

(* The order of a flow, on true numbers: the flow's frames are the numbers   *)
(* from lo on, fewer than half the modulus; e is the true expected number.   *)
SpanFits == FlowTypes /\ FlowSends < FlowModulus \div 2

Place(st, e, lo) ==
  /\ e \in Nat /\ lo \in Nat /\ e <= lo + FlowSends /\ lo + FlowSends <= e + FlowModulus
  /\ st.expected = e % FlowModulus
  /\ \A p \in st.pending : /\ p.seq = p.n % FlowModulus /\ lo <= p.n /\ p.n < lo + FlowSends
                           /\ p.n - e < FlowModulus \div 2

(* An increasing sequence of numbers from a up to below b.                   *)
Rises(s, a, b) ==
  /\ s \in Seq(Nat)
  /\ \A i, j \in 1 .. Len(s) : i < j => s[i] < s[j]
  /\ \A i \in 1 .. Len(s) : a <= s[i] /\ s[i] < b

(* Increasing sequences one above the other, put together.                   *)
LEMMA RisesConcat ==
  ASSUME NEW a \in Nat, NEW b \in Nat, NEW c \in Nat, a <= b, b <= c,
         NEW s, NEW t, Rises(s, a, b), Rises(t, b, c)
  PROVE  Rises(s \o t, a, c)
<1>1. s \in Seq(Nat) /\ t \in Seq(Nat)
  BY DEF Rises
<1>2. PICK u, m, n : u = s \o t /\ m = Len(s) /\ n = Len(t)
  OBVIOUS
<1>3. /\ u \in Seq(Nat) /\ m \in Nat /\ n \in Nat /\ Len(u) = m + n
      /\ \A i \in 1 .. Len(u) : u[i] = IF i <= m THEN s[i] ELSE t[i - m]
  BY <1>1, <1>2
<1>4. \A i \in 1 .. m : s[i] \in Nat /\ a <= s[i] /\ s[i] < b
  BY <1>1, <1>2 DEF Rises
<1>5. \A i \in 1 .. n : t[i] \in Nat /\ b <= t[i] /\ t[i] < c
  BY <1>1, <1>2 DEF Rises
<1>6. ASSUME NEW i \in 1 .. Len(u) PROVE a <= u[i] /\ u[i] < c
  <2>1. CASE i <= m
    <3>1. i \in 1 .. m /\ u[i] = s[i]
      BY <2>1, <1>3
    <3>2. s[i] \in Nat /\ a <= s[i] /\ s[i] < b
      BY <3>1, <1>4
    <3> QED BY <3>1, <3>2
  <2>2. CASE i > m
    <3>1. i - m \in 1 .. n /\ u[i] = t[i - m]
      BY <2>2, <1>3
    <3> QED BY <3>1, <1>5
  <2> QED BY <2>1, <2>2, <1>3
<1>7. ASSUME NEW i \in 1 .. Len(u), NEW j \in 1 .. Len(u), i < j PROVE u[i] < u[j]
  <2>1. CASE j <= m
    <3>1. i \in 1 .. m /\ j \in 1 .. m /\ u[i] = s[i] /\ u[j] = s[j]
      BY <2>1, <1>7, <1>3
    <3> QED BY <3>1, <1>7, <1>2 DEF Rises
  <2>2. CASE i > m
    <3>1. i - m \in 1 .. n /\ j - m \in 1 .. n /\ i - m < j - m /\ ~(i <= m) /\ ~(j <= m)
      BY <2>2, <1>7, <1>3
    <3>2. u[i] = t[i - m]
      BY <3>1, <1>3
    <3>3. u[j] = t[j - m]
      BY <3>1, <1>3
    <3>4. t[i - m] < t[j - m]
      BY <3>1, <1>2 DEF Rises
    <3> QED BY <3>2, <3>3, <3>4
  <2>3. CASE i <= m /\ j > m
    <3>1. i \in 1 .. m /\ j - m \in 1 .. n /\ u[i] = s[i] /\ u[j] = t[j - m]
      BY <2>3, <1>3
    <3> QED BY <3>1, <1>4, <1>5
  <2> QED BY <2>1, <2>2, <2>3, <1>3
<1>8. Rises(u, a, c)
  BY <1>3, <1>6, <1>7 DEF Rises
<1> QED BY <1>2, <1>8

(* No number, and one number.                                                *)
LEMMA RisesBase ==
  ASSUME NEW a \in Nat, NEW n \in Nat, a <= n
  PROVE  Rises(<<>>, a, n) /\ Rises(<<n>>, a, n + 1)
BY DEF Rises

(* Appending is concatenating one element.                                   *)
LEMMA AppendConcat ==
  ASSUME NEW s \in Seq(Nat), NEW n \in Nat
  PROVE  Append(s, n) = s \o <<n>>
OBVIOUS

(* Adding to a remainder.                                                    *)
LEMMA ModNext ==
  ASSUME FlowTypes, NEW e \in Nat, NEW i \in Nat
  PROVE  ((e % FlowModulus) + i) % FlowModulus = (e + i) % FlowModulus
<1>1. FlowModulus \in Int /\ FlowModulus = FlowModulus * 1 + 0 /\ 0 \in 0 .. FlowModulus - 1
  BY DEF FlowTypes
<1>2. FlowModulus % FlowModulus = 0
  BY <1>1, ModUnique DEF FlowTypes
<1>3. e \in Int /\ i \in Int /\ FlowModulus \in Nat \ {0}
  BY DEF FlowTypes
<1> QED BY <1>2, <1>3, ModMod

(* The numbers in Place and the bounds between them.                         *)
LEMMA PlaceFacts ==
  ASSUME SpanFits, NEW st, NEW e, NEW lo, Place(st, e, lo)
  PROVE  /\ FlowModulus \in Nat \ {0} /\ FlowModulus \div 2 \in Nat
         /\ 2 * (FlowModulus \div 2) = FlowModulus
         /\ FlowSends \in Nat /\ FlowSends < FlowModulus \div 2
         /\ e \in Nat /\ lo \in Nat /\ e <= lo + FlowSends /\ lo + FlowSends <= e + FlowModulus
BY DEF SpanFits, FlowTypes, Place

(* A frame of the flow has the expected number only if it is the expected    *)
(* one, and counts as forward only if it lies ahead.                         *)
LEMMA FrameIn ==
  ASSUME SpanFits, NEW st, NEW e, NEW lo, Place(st, e, lo),
         NEW n \in Nat, lo <= n, n < lo + FlowSends
  PROVE  /\ n % FlowModulus = st.expected => n = e
         /\ IsForward(n % FlowModulus, st.expected)
              => n > e /\ n - e < FlowModulus \div 2
         /\ n > e /\ n - e < FlowModulus \div 2
              => IsForward(n % FlowModulus, st.expected)
<1>1. PICK M, H : M = FlowModulus /\ H = FlowModulus \div 2
  OBVIOUS
<1>2. /\ M \in Nat \ {0} /\ H \in Nat /\ 2 * H = M /\ e \in Nat
      /\ n - e < M /\ e - n < H /\ e - n < M /\ st.expected = e % M
  <2>1. st.expected = e % FlowModulus
    BY DEF Place
  <2> QED BY <2>1, <1>1, PlaceFacts
<1>3. n % M = e % M => n = e
  <2>1. n \in Int /\ e \in Int
    BY <1>2
  <2> QED BY <2>1, <1>2, ModApart
<1>4. PICK d : d = n - e
  OBVIOUS
<1>5. d \in Int /\ d < M /\ 0 - d < H
  BY <1>2, <1>4
<1>6. ((n % M) - (e % M)) % M = d % M
  <2>1. n \in Int /\ e \in Int
    BY <1>2
  <2> QED BY <2>1, <1>2, <1>4, ModMinus
<1>7. d >= 0 => d % M = d
  BY <1>2, <1>5, ModSmall
<1>8. d < 0 => d % M = d + M
  <2>1. 0 - M <= d
    BY <1>2, <1>5
  <2> QED BY <2>1, <1>2, <1>5, ModSmall
<1>9. IsForward(n % M, e % M) <=> n % M # e % M /\ d % M < H
  BY <1>1, <1>6, Zenon DEF IsForward
<1>10. ASSUME IsForward(n % M, e % M) PROVE n > e /\ n - e < H
  <2>1. n % M # e % M /\ d % M < H
    BY <1>9, <1>10
  <2>2. d # 0
    BY <2>1, <1>2, <1>4
  <2>3. ~(d < 0)
    <3> SUFFICES ASSUME d < 0 PROVE FALSE
      OBVIOUS
    <3>1. d % M = d + M
      BY <1>8
    <3> QED BY <3>1, <2>1, <1>2, <1>5
  <2>4. d % M = d
    BY <2>3, <1>5, <1>7
  <2> QED BY <2>1, <2>2, <2>3, <2>4, <1>2, <1>4
<1>11. ASSUME n > e, n - e < H PROVE IsForward(n % M, e % M)
  <2>1. d >= 0 /\ d < H
    BY <1>11, <1>2, <1>4
  <2>2. d % M < H
    BY <2>1, <1>7
  <2>3. n % M # e % M
    BY <1>3, <1>11, <1>2
  <2> QED BY <2>2, <2>3, <1>9
<1> QED BY <1>1, <1>2, <1>3, <1>10, <1>11

(* drain_contiguous releases the numbers from the expected one on, without a *)
(* hole.                                                                     *)
LEMMA DrainPlace ==
  ASSUME SpanFits, NEW st, StateOK(st), NEW e, NEW lo, Place(st, e, lo)
  PROVE  /\ DrainRun(st) \in Nat
         /\ Place(DrainContiguous(st).state, e + DrainRun(st), lo)
         /\ Rises(DrainContiguous(st).out, e, e + DrainRun(st))
         /\ DrainContiguous(st).out = [i \in 1 .. DrainRun(st) |-> e + (i - 1)]
         /\ \A i \in 0 .. (DrainRun(st) - 1) : DrainHead(st, i) \in st.pending /\ DrainHead(st, i).n = e + i
<1>1. PICK M, H, r : M = FlowModulus /\ H = FlowModulus \div 2 /\ r = DrainRun(st)
  OBVIOUS
<1>2. /\ M \in Nat \ {0} /\ H \in Nat /\ 2 * H = M /\ FlowSends \in Nat /\ FlowSends < H
      /\ e \in Nat /\ lo \in Nat /\ e <= lo + FlowSends /\ lo + FlowSends <= e + M
  BY <1>1, PlaceFacts
<1>3. FlowTypes /\ st \in States /\ IsFiniteSet(st.pending)
  BY DEF SpanFits, StateOK
<1>4. r \in Nat /\ \A i \in 0 .. (r - 1) : DrainHead(st, i) \in DrainAt(st, i) /\ DrainHead(st, i) \in st.pending
  BY <1>1, <1>3, DrainRunFacts
<1>5. \A p \in st.pending : /\ p.n \in Nat /\ p.seq = p.n % M /\ lo <= p.n /\ p.n < lo + FlowSends
                            /\ p.n - e < H /\ e - p.n < H
  <2> SUFFICES ASSUME NEW p \in st.pending
               PROVE  /\ p.n \in Nat /\ p.seq = p.n % M /\ lo <= p.n /\ p.n < lo + FlowSends
                      /\ p.n - e < H /\ e - p.n < H
    OBVIOUS
  <2>1. p.n \in Nat
    BY <1>3 DEF States, Waiting
  <2>2. p.seq = p.n % M /\ lo <= p.n /\ p.n < lo + FlowSends /\ p.n - e < H
    BY <1>1 DEF Place
  <2> QED BY <2>1, <2>2, <1>2
<1>6. \A i \in 0 .. (r - 1) : DrainHead(st, i).n % M = (e + i) % M
  <2> SUFFICES ASSUME NEW i \in 0 .. (r - 1) PROVE DrainHead(st, i).n % M = (e + i) % M
    OBVIOUS
  <2>1. DrainHead(st, i).seq = (st.expected + i) % M
    BY <1>1, <1>4 DEF DrainAt
  <2>2. st.expected = e % M /\ i \in Nat
    BY <1>1, <1>4 DEF Place
  <2>3. ((e % M) + i) % M = (e + i) % M
    BY <2>2, <1>1, <1>2, <1>3, ModNext
  <2>4. DrainHead(st, i).seq = DrainHead(st, i).n % M
    BY <1>4, <1>5
  <2> QED BY <2>1, <2>2, <2>3, <2>4
<1>7. ASSUME NEW i \in 0 .. (r - 1), i <= H PROVE DrainHead(st, i).n = e + i
  <2>1. PICK x, y : x = DrainHead(st, i).n /\ y = e + i
    OBVIOUS
  <2>2. x \in Nat /\ x - e < H /\ e - x < H
    BY <2>1, <1>4, <1>5
  <2>3. x \in Int /\ y \in Int /\ x - y < M /\ y - x < M
    BY <2>1, <2>2, <1>2, <1>4, <1>7
  <2>4. x % M = y % M
    BY <2>1, <1>6
  <2>5. x = y
    BY <2>3, <2>4, <1>2, ModApart
  <2> QED BY <2>1, <2>5
<1>8. r <= H
  <2> SUFFICES ASSUME r > H PROVE FALSE
    BY <1>2, <1>4
  <2>1. H \in 0 .. (r - 1) /\ H <= H
    BY <1>2, <1>4
  <2>2. DrainHead(st, H).n = e + H
    BY <2>1, <1>7
  <2>3. DrainHead(st, H).n - e < H /\ DrainHead(st, H).n \in Nat
    BY <2>1, <1>4, <1>5
  <2> QED BY <2>2, <2>3, <1>2
<1>9. \A i \in 0 .. (r - 1) : DrainHead(st, i) \in st.pending /\ DrainHead(st, i).n = e + i
  <2> SUFFICES ASSUME NEW i \in 0 .. (r - 1) PROVE DrainHead(st, i) \in st.pending /\ DrainHead(st, i).n = e + i
    OBVIOUS
  <2>1. i <= H
    BY <1>2, <1>4, <1>8
  <2> QED BY <2>1, <1>4, <1>7
<1>10. PICK d : d = DrainContiguous(st)
  OBVIOUS
<1>11. /\ d.state.pending = st.pending \ DrainGone(st)
       /\ d.state.expected = (st.expected + r) % M
       /\ d.out = [i \in 1 .. r |-> DrainHead(st, i - 1).n]
  BY <1>1, <1>3, <1>10, DrainShape
<1>12. d.out = [i \in 1 .. r |-> e + (i - 1)]
  <2>1. \A i \in 1 .. r : DrainHead(st, i - 1).n = e + (i - 1)
    <3> SUFFICES ASSUME NEW i \in 1 .. r PROVE DrainHead(st, i - 1).n = e + (i - 1)
      OBVIOUS
    <3>1. i - 1 \in 0 .. (r - 1)
      BY <1>4
    <3> QED BY <3>1, <1>9
  <2> QED BY <2>1, <1>11
<1>13. Rises(d.out, e, e + r)
  <2>1. d.out \in Seq(Nat) /\ Len(d.out) = r /\ \A i \in 1 .. r : d.out[i] = e + (i - 1)
    BY <1>2, <1>4, <1>12
  <2> QED BY <2>1, <1>2, <1>4 DEF Rises
<1>14. d.state.expected = (e + r) % M
  <2>1. st.expected = e % M
    BY <1>1 DEF Place
  <2>2. ((e % M) + r) % M = (e + r) % M
    BY <1>1, <1>2, <1>3, <1>4, ModNext
  <2> QED BY <2>1, <2>2, <1>11
<1>15. e + r \in Nat /\ e + r <= lo + FlowSends /\ lo + FlowSends <= (e + r) + M
  <2>1. CASE r = 0
    BY <2>1, <1>2
  <2>2. CASE r # 0
    <3>1. r - 1 \in 0 .. (r - 1)
      BY <2>2, <1>4
    <3>2. e + (r - 1) < lo + FlowSends
      BY <3>1, <1>9, <1>5
    <3> QED BY <3>2, <1>2, <1>4
  <2> QED BY <2>1, <2>2
<1>16. \A p \in d.state.pending : /\ p.seq = p.n % M /\ lo <= p.n /\ p.n < lo + FlowSends
                                  /\ p.n - (e + r) < H
  <2> SUFFICES ASSUME NEW p \in d.state.pending
               PROVE  /\ p.seq = p.n % M /\ lo <= p.n /\ p.n < lo + FlowSends
                      /\ p.n - (e + r) < H
    OBVIOUS
  <2>1. p \in st.pending
    BY <1>11
  <2> QED BY <2>1, <1>2, <1>4, <1>5
<1>17. Place(d.state, e + r, lo)
  BY <1>1, <1>2, <1>14, <1>15, <1>16 DEF Place
<1> QED BY <1>1, <1>4, <1>9, <1>10, <1>12, <1>13, <1>17

(* Place looks at the expected number and at the pending frames only, and    *)
(* fewer pending frames are as good.                                         *)
LEMMA PlaceKept ==
  ASSUME NEW st, NEW s, NEW e, NEW lo, Place(st, e, lo),
         s.expected = st.expected, s.pending \subseteq st.pending
  PROVE  Place(s, e, lo)
<1>1. \A p \in s.pending : p \in st.pending
  OBVIOUS
<1> QED BY <1>1 DEF Place

(* Going past frame n moves the true expected number to n + 1.               *)
LEMMA PlaceMoved ==
  ASSUME SpanFits, NEW st, NEW s, NEW e, NEW lo, Place(st, e, lo),
         NEW n \in Nat, lo <= n, n < lo + FlowSends, e <= n,
         \A p \in st.pending : p.n \in Nat,
         s.expected = (n + 1) % FlowModulus, s.pending \subseteq st.pending
  PROVE  Place(s, n + 1, lo)
<1>1. PICK H : H = FlowModulus \div 2
  OBVIOUS
<1>2. /\ FlowModulus \in Nat /\ H \in Nat /\ FlowSends \in Nat /\ e \in Nat /\ lo \in Nat
      /\ lo + FlowSends <= e + FlowModulus
  BY <1>1, PlaceFacts
<1>3. n + 1 \in Nat /\ n + 1 <= lo + FlowSends /\ lo + FlowSends <= (n + 1) + FlowModulus
  BY <1>2
<1>4. \A p \in s.pending : /\ p.seq = p.n % FlowModulus /\ lo <= p.n /\ p.n < lo + FlowSends
                           /\ p.n - (n + 1) < H
  <2> SUFFICES ASSUME NEW p \in s.pending
               PROVE  /\ p.seq = p.n % FlowModulus /\ lo <= p.n /\ p.n < lo + FlowSends
                      /\ p.n - (n + 1) < H
    OBVIOUS
  <2>1. p \in st.pending
    OBVIOUS
  <2>2. p.seq = p.n % FlowModulus /\ lo <= p.n /\ p.n < lo + FlowSends /\ p.n - e < H
    BY <2>1, <1>1 DEF Place
  <2>3. p.n \in Nat
    BY <2>1
  <2> QED BY <2>2, <2>3, <1>2
<1> QED BY <1>1, <1>2, <1>3, <1>4 DEF Place

(* release_lowest releases later numbers than before, in order.              *)
LEMMA LowestPlace ==
  ASSUME SpanFits, now \in Nat, NEW st, StateOK(st), NEW e, NEW lo, Place(st, e, lo)
  PROVE  \E c \in Nat : /\ e <= c /\ Place(ReleaseLowest(st).state, c, lo)
                        /\ Rises(ReleaseLowest(st).out, e, c)
<1>1. PICK r : r = ReleaseLowest(st)
  OBVIOUS
<1>2. FlowTypes /\ e \in Nat /\ lo \in Nat /\ FlowSends \in Nat
  BY PlaceFacts DEF SpanFits
<1>3. CASE Forward(st) = {}
  <2>1. r.state.pending = st.pending /\ r.state.expected = st.expected /\ r.out = <<>>
    BY <1>1, <1>2, <1>3, LowestShape
  <2>2. Place(r.state, e, lo)
    BY <2>1, PlaceKept
  <2>3. Rises(r.out, e, e)
    <3>1. e <= e
      BY <1>2
    <3> QED BY <3>1, <2>1, <1>2, RisesBase, Zenon
  <2> QED BY <2>2, <2>3, <1>1, <1>2
<1>4. CASE Forward(st) # {}
  <2>1. PICK d, x, y : d = LowDrain(st) /\ x = Low(st) /\ y = Passed(st)
    OBVIOUS
  <2>2. /\ r.state.pending = d.state.pending /\ r.state.expected = d.state.expected
        /\ r.out = <<x.n>> \o d.out
    BY <2>1, <1>1, <1>2, <1>4, LowestShape
  <2>3. d = DrainContiguous(y)
    BY <2>1, Zenon DEF LowDrain, Passed
  <2>4. StateOK(y) /\ y.pending = st.pending \ {x} /\ y.expected = (x.seq + 1) % FlowModulus
    BY <2>1, <1>2, <1>4, PassedShape
  <2>5. x \in st.pending /\ IsForward(x.seq, st.expected)
    BY <2>1, <1>2, <1>4, LowFacts DEF Forward
  <2>6. \A p \in st.pending : p.n \in Nat
    BY DEF StateOK, States, Waiting
  <2>7. x.n \in Nat /\ x.seq = x.n % FlowModulus /\ lo <= x.n /\ x.n < lo + FlowSends
    BY <2>5, <2>6 DEF Place
  <2>8. PICK n : n = x.n
    OBVIOUS
  <2>9. n \in Nat /\ lo <= n /\ n < lo + FlowSends /\ IsForward(n % FlowModulus, st.expected)
    BY <2>5, <2>7, <2>8
  <2>10. n > e
    BY <2>9, FrameIn
  <2>11. y.expected = (n + 1) % FlowModulus
    BY <2>4, <2>7, <2>8, <2>9, <1>2, ModNext
  <2>12. Place(y, n + 1, lo)
    <3>1. e <= n /\ y.pending \subseteq st.pending
      BY <2>4, <2>9, <2>10, <1>2
    <3> QED BY <3>1, <2>6, <2>9, <2>11, PlaceMoved
  <2>13. PICK q : q = DrainRun(y)
    OBVIOUS
  <2>14. q \in Nat /\ Place(d.state, (n + 1) + q, lo) /\ Rises(d.out, n + 1, (n + 1) + q)
    BY <2>3, <2>4, <2>12, <2>13, DrainPlace
  <2>15. PICK b, c : b = n + 1 /\ c = (n + 1) + q
    OBVIOUS
  <2>16. b \in Nat /\ c \in Nat /\ e <= b /\ b <= c /\ e <= c
    BY <2>9, <2>10, <2>14, <2>15, <1>2
  <2>17. Place(r.state, c, lo)
    BY <2>2, <2>14, <2>15, PlaceKept
  <2>18. Rises(<<n>>, e, b)
    BY <2>9, <2>10, <2>15, <1>2, RisesBase
  <2>19. Rises(d.out, b, c)
    BY <2>14, <2>15
  <2>20. Rises(<<n>> \o d.out, e, c)
    BY <2>16, <2>18, <2>19, <1>2, RisesConcat
  <2> QED BY <2>2, <2>8, <2>16, <2>17, <2>20, <1>1
<1> QED BY <1>3, <1>4

(* release_expired releases later numbers than before, in order.             *)
LEMMA ExpiredPlace ==
  ASSUME SpanFits, now \in Nat, NEW st, StateOK(st), NEW e, NEW lo, Place(st, e, lo)
  PROVE  \E c \in Nat : /\ e <= c /\ Place(ReleaseExpired(st).state, c, lo)
                        /\ Rises(ReleaseExpired(st).out, e, c)
<1>1. CASE ReleaseExpired(st) = ReleaseLowest(st)
  BY <1>1, LowestPlace
<1>2. CASE ReleaseExpired(st) = [state |-> st, out |-> <<>>]
  <2>1. ReleaseExpired(st).state = st /\ ReleaseExpired(st).out = <<>>
    BY <1>2
  <2>2. e \in Nat
    BY PlaceFacts
  <2>3. Rises(<<>>, e, e)
    <3>1. e <= e
      BY <2>2
    <3> QED BY <3>1, <2>2, RisesBase, Zenon
  <2> QED BY <2>1, <2>2, <2>3
<1> QED BY <1>1, <1>2, ExpiredIs

(* What push_at has released so far starts at a and ends below e.            *)
Ordered(w, a, e, lo) ==
  a \in Nat /\ e \in Nat /\ a <= e /\ Place(w.state, e, lo) /\ Rises(w.out, a, e)

(* Releasing the lowest frame keeps the output in order.                     *)
LEMMA ReleasedPlace ==
  ASSUME SpanFits, now \in Nat, NEW R \in Nat, NEW w, Work(w, R), NEW a, NEW e, NEW lo, Ordered(w, a, e, lo)
  PROVE  \E c \in Nat : e <= c /\ Ordered(Released(w), a, c, lo)
<1>1. /\ FlowTypes /\ a \in Nat /\ e \in Nat /\ a <= e /\ StateOK(w.state)
      /\ Place(w.state, e, lo) /\ Rises(w.out, a, e)
  BY WorkFacts DEF SpanFits, Ordered
<1>2. PICK r, s : r = ReleaseLowest(w.state) /\ s = Released(w)
  OBVIOUS
<1>3. s.state = r.state /\ s.out = w.out \o r.out
  BY <1>1, <1>2, ReleasedShape
<1>4. PICK c \in Nat : e <= c /\ Place(r.state, c, lo) /\ Rises(r.out, e, c)
  BY <1>1, <1>2, LowestPlace
<1>5. Rises(w.out \o r.out, a, c)
  BY <1>1, <1>4, RisesConcat
<1>6. Ordered(s, a, c, lo)
  BY <1>1, <1>3, <1>4, <1>5 DEF Ordered
<1> QED BY <1>2, <1>4, <1>6

(* Giving up on an old gap keeps the output in order.                        *)
LEMMA ExpirePlace ==
  ASSUME SpanFits, now \in Nat, NEW R \in Nat, NEW w, Work(w, R), NEW a, NEW e, NEW lo, Ordered(w, a, e, lo)
  PROVE  \E c \in Nat : e <= c /\ Ordered(Expire(w), a, c, lo)
<1>1. /\ FlowTypes /\ a \in Nat /\ e \in Nat /\ a <= e /\ StateOK(w.state)
      /\ Place(w.state, e, lo) /\ Rises(w.out, a, e)
  BY WorkFacts DEF SpanFits, Ordered
<1>2. PICK r, s : r = ReleaseExpired(w.state) /\ s = Expire(w)
  OBVIOUS
<1>3. s.state = r.state /\ s.out = w.out \o r.out
  BY <1>1, <1>2, ExpireShape
<1>4. PICK c \in Nat : e <= c /\ Place(r.state, c, lo) /\ Rises(r.out, e, c)
  BY <1>1, <1>2, ExpiredPlace
<1>5. Rises(w.out \o r.out, a, c)
  BY <1>1, <1>4, RisesConcat
<1>6. Ordered(s, a, c, lo)
  BY <1>1, <1>3, <1>4, <1>5 DEF Ordered
<1> QED BY <1>2, <1>4, <1>6

(* Making room keeps the output in order.                                    *)
LEMMA RoomPlace ==
  ASSUME SpanFits, now \in Nat, NEW R \in Nat, NEW w, Work(w, R), NEW a, NEW e, NEW lo, Ordered(w, a, e, lo)
  PROVE  \E c \in Nat : e <= c /\ Ordered(MakeRoom(w), a, c, lo)
<1>1. PICK v, u : v = RoomOne(w) /\ u = RoomTwo(v)
  OBVIOUS
<1>2. FlowTypes /\ e \in Nat /\ e <= e
  BY DEF SpanFits, Ordered
<1>3. (v = Released(w) \/ v = w) /\ (u = Released(v) \/ u = v)
  BY <1>1, Zenon DEF RoomOne, RoomTwo
<1>4. Work(v, R)
  BY <1>2, <1>3, ReleasedShape
<1>5. PICK b \in Nat : e <= b /\ Ordered(v, a, b, lo)
  BY <1>2, <1>3, ReleasedPlace
<1>6. PICK c \in Nat : b <= c /\ Ordered(u, a, c, lo)
  <2>1. CASE u = Released(v)
    BY <2>1, <1>4, <1>5, ReleasedPlace
  <2>2. CASE u = v
    BY <2>2, <1>5
  <2> QED BY <2>1, <2>2, <1>3
<1>7. u = MakeRoom(w)
  BY <1>1, RoomIs
<1>8. e <= c
  BY <1>2, <1>5, <1>6
<1> QED BY <1>6, <1>7, <1>8

(* A frame of a flow whose numbers start at lo.                              *)
FrameOf(fr, lo) ==
  /\ Frames(fr) /\ fr.seq = fr.n % FlowModulus
  /\ lo <= fr.n /\ fr.n < lo + FlowSends

(* The true number of a pending frame.                                       *)
LEMMA PendingNat ==
  ASSUME NEW st, StateOK(st)
  PROVE  \A p \in st.pending : p.n \in Nat
BY DEF StateOK, States, Waiting

(* The expected frame, and the run behind it, keep the output in order.      *)
LEMMA InOrderPlace ==
  ASSUME SpanFits, NEW R \in Nat, NEW w, Work(w, R), NEW a, NEW e, NEW lo, Ordered(w, a, e, lo),
         NEW fr, FrameOf(fr, lo), fr.seq = w.state.expected
  PROVE  \E c \in Nat : e <= c /\ Ordered(InOrder(w, fr), a, c, lo)
<1>1. /\ FlowTypes /\ a \in Nat /\ e \in Nat /\ a <= e /\ StateOK(w.state)
      /\ Place(w.state, e, lo) /\ Rises(w.out, a, e)
  BY WorkFacts DEF SpanFits, Ordered
<1>2. PICK n : n = fr.n
  OBVIOUS
<1>3. /\ Frames(fr) /\ n \in Nat /\ lo <= n /\ n < lo + FlowSends
      /\ n % FlowModulus = w.state.expected
  BY <1>2 DEF FrameOf, Frames
<1>4. n = e
  BY <1>1, <1>3, FrameIn
<1>5. PICK t, d, r : t = Taken(w) /\ d = DrainContiguous(t) /\ r = InOrder(w, fr)
  OBVIOUS
<1>6. StateOK(t) /\ t.pending = w.state.pending /\ t.expected = (w.state.expected + 1) % FlowModulus
  BY <1>1, <1>3, <1>5, TakenShape
<1>7. t.expected = (n + 1) % FlowModulus
  BY <1>1, <1>3, <1>6, ModNext
<1>8. Place(t, n + 1, lo)
  <2>1. e <= n /\ t.pending \subseteq w.state.pending
    BY <1>1, <1>4, <1>6
  <2>2. \A p \in w.state.pending : p.n \in Nat
    BY <1>1, PendingNat
  <2> QED BY <2>1, <2>2, <1>1, <1>3, <1>7, PlaceMoved
<1>9. PICK q : q = DrainRun(t)
  OBVIOUS
<1>10. q \in Nat /\ Place(d.state, (n + 1) + q, lo) /\ Rises(d.out, n + 1, (n + 1) + q)
  BY <1>5, <1>6, <1>8, <1>9, DrainPlace
<1>11. PICK b, c : b = n + 1 /\ c = (n + 1) + q
  OBVIOUS
<1>12. b \in Nat /\ c \in Nat /\ e <= b /\ b <= c /\ e <= c /\ a <= c /\ a <= b
  BY <1>1, <1>3, <1>4, <1>10, <1>11
<1>13. r.state = d.state /\ r.out = Append(w.out, n) \o d.out
  BY <1>1, <1>2, <1>3, <1>5, InOrderShape
<1>14. Rises(Append(w.out, n), a, b)
  <2>1. Append(w.out, n) = w.out \o <<n>>
    BY <1>1, <1>3, AppendConcat DEF Rises
  <2>2. Rises(<<n>>, e, b)
    BY <1>1, <1>3, <1>4, <1>11, <1>12, RisesBase
  <2>3. Rises(w.out \o <<n>>, a, b)
    BY <2>2, <1>1, <1>12, RisesConcat
  <2> QED BY <2>1, <2>3
<1>15. Rises(Append(w.out, n) \o d.out, a, c)
  <2>1. Rises(d.out, b, c)
    BY <1>10, <1>11
  <2> QED BY <2>1, <1>1, <1>12, <1>14, RisesConcat
<1>16. Ordered(r, a, c, lo)
  BY <1>1, <1>10, <1>11, <1>12, <1>13, <1>15 DEF Ordered
<1> QED BY <1>5, <1>12, <1>16

(* Jumping to a forward frame keeps the output in order.                     *)
LEMMA JumpedPlace ==
  ASSUME SpanFits, NEW R \in Nat, NEW v, Work(v, R), NEW a, NEW e, NEW lo, Ordered(v, a, e, lo),
         NEW fr, FrameOf(fr, lo), IsForward(fr.seq, v.state.expected)
  PROVE  \E c \in Nat : e <= c /\ Ordered(Jumped(v, fr), a, c, lo)
<1>1. /\ FlowTypes /\ a \in Nat /\ e \in Nat /\ a <= e /\ StateOK(v.state)
      /\ Place(v.state, e, lo) /\ Rises(v.out, a, e)
  BY WorkFacts DEF SpanFits, Ordered
<1>2. PICK n, r : n = fr.n /\ r = Jumped(v, fr)
  OBVIOUS
<1>3. /\ Frames(fr) /\ n \in Nat /\ lo <= n /\ n < lo + FlowSends
      /\ fr.seq = n % FlowModulus /\ IsForward(n % FlowModulus, v.state.expected)
  BY <1>2 DEF FrameOf, Frames
<1>4. n > e
  BY <1>1, <1>3, FrameIn
<1>5. /\ r.state.pending = v.state.pending /\ r.state.expected = (fr.seq + 1) % FlowModulus
      /\ r.out = Append(v.out, n)
  BY <1>1, <1>2, <1>3, JumpedShape
<1>6. r.state.expected = (n + 1) % FlowModulus
  BY <1>1, <1>3, <1>5, ModNext
<1>7. Place(r.state, n + 1, lo)
  <2>1. e <= n /\ r.state.pending \subseteq v.state.pending
    BY <1>1, <1>3, <1>4, <1>5
  <2>2. \A p \in v.state.pending : p.n \in Nat
    BY <1>1, PendingNat
  <2> QED BY <2>1, <2>2, <1>1, <1>3, <1>6, PlaceMoved
<1>8. PICK b : b = n + 1
  OBVIOUS
<1>9. b \in Nat /\ e <= b /\ a <= b /\ e <= n
  BY <1>1, <1>3, <1>4, <1>8
<1>10. Rises(Append(v.out, n), a, b)
  <2>1. Append(v.out, n) = v.out \o <<n>>
    BY <1>1, <1>3, AppendConcat DEF Rises
  <2>2. Rises(<<n>>, e, b)
    BY <1>1, <1>3, <1>8, <1>9, RisesBase
  <2>3. Rises(v.out \o <<n>>, a, b)
    BY <2>2, <1>1, <1>9, RisesConcat
  <2> QED BY <2>1, <2>3
<1>11. Ordered(r, a, b, lo)
  BY <1>1, <1>5, <1>7, <1>8, <1>9, <1>10 DEF Ordered
<1> QED BY <1>2, <1>9, <1>11

(* Storing a frame keeps the output in order.                                *)
LEMMA StorePlace ==
  ASSUME SpanFits, now \in Nat, NEW R \in Nat, NEW v, Work(v, R), NEW a, NEW e, NEW lo,
         Ordered(v, a, e, lo), NEW fr, FrameOf(fr, lo), Pair(fr) \notin v.state.pending,
         fr.n - e < FlowModulus \div 2
  PROVE  \E c \in Nat : e <= c /\ Ordered(Store(v, fr), a, c, lo)
<1>1. /\ FlowTypes /\ a \in Nat /\ e \in Nat /\ a <= e
      /\ Place(v.state, e, lo) /\ Rises(v.out, a, e) /\ Frames(fr)
  BY WorkFacts DEF SpanFits, Ordered, FrameOf
<1>2. PICK x, k, t : x = Added(v, fr) /\ k = Keep(x) /\ t = Timed(k)
  OBVIOUS
<1>3. /\ Work(x, R) /\ x.state.pending = v.state.pending \cup {Pair(fr)}
      /\ x.state.expected = v.state.expected /\ x.out = v.out
  BY <1>1, <1>2, AddedShape
<1>4. Place(x.state, e, lo)
  <2>1. /\ Pair(fr).n = fr.n /\ Pair(fr).seq = fr.seq
    BY DEF Pair
  <2>2. \A p \in x.state.pending : p \in v.state.pending \/ p = Pair(fr)
    BY <1>3
  <2>3. \A p \in x.state.pending :
          /\ p.seq = p.n % FlowModulus /\ lo <= p.n /\ p.n < lo + FlowSends
          /\ p.n - e < FlowModulus \div 2
    <3> SUFFICES ASSUME NEW p \in x.state.pending
                 PROVE  /\ p.seq = p.n % FlowModulus /\ lo <= p.n /\ p.n < lo + FlowSends
                        /\ p.n - e < FlowModulus \div 2
      OBVIOUS
    <3>1. CASE p \in v.state.pending
      BY <3>1, <1>1 DEF Place
    <3>2. CASE p = Pair(fr)
      BY <3>2, <2>1 DEF FrameOf
    <3> QED BY <3>1, <3>2, <2>2
  <2> QED BY <2>3, <1>1, <1>3 DEF Place
<1>5. Ordered(x, a, e, lo)
  BY <1>1, <1>3, <1>4 DEF Ordered
<1>6. k = Released(x) \/ k = x
  BY <1>2, Zenon DEF Keep
<1>7. Work(k, R)
  <2>1. Work(Released(x), R)
    BY <1>1, <1>3, ReleasedShape
  <2> QED BY <2>1, <1>3, <1>6
<1>8. PICK b \in Nat : e <= b /\ Ordered(k, a, b, lo)
  <2>1. CASE k = Released(x)
    BY <2>1, <1>3, <1>5, ReleasedPlace
  <2>2. CASE k = x
    BY <2>2, <1>1, <1>5
  <2> QED BY <2>1, <2>2, <1>6
<1>9. /\ Work(t, R) /\ t.out = k.out /\ t.state.pending = k.state.pending
      /\ t.state.expected = k.state.expected
  BY <1>2, <1>7, TimedShape
<1>10. Ordered(t, a, b, lo)
  <2>1. Place(t.state, b, lo)
    <3>1. Place(k.state, b, lo) /\ t.state.pending \subseteq k.state.pending
      BY <1>8, <1>9 DEF Ordered
    <3> QED BY <3>1, <1>9, PlaceKept
  <2> QED BY <2>1, <1>8, <1>9 DEF Ordered
<1>11. PICK c \in Nat : b <= c /\ Ordered(Expire(t), a, c, lo)
  BY <1>9, <1>10, ExpirePlace
<1>12. Store(v, fr) = Expire(t)
  BY <1>2, StoreIs
<1>13. e <= c
  BY <1>1, <1>8, <1>11
<1> QED BY <1>11, <1>12, <1>13

(* push_at releases in order, after what was released before.                *)
LEMMA PushPlace ==
  ASSUME SpanFits, now \in Nat, NEW R \in Nat, NEW w0, Work(w0, R), w0.total <= MaxTotal,
         NEW a, NEW e, NEW lo, Ordered(w0, a, e, lo), NEW fr, FrameOf(fr, lo)
  PROVE  \E c \in Nat : Ordered(PushAt(w0, fr), a, c, lo)
<1>1. PICK w, v, r : w = Expire(w0) /\ v = MakeRoom(w) /\ r = PushAt(w0, fr)
  OBVIOUS
<1>2. FlowTypes /\ MaxTotal \in Nat
  BY DEF SpanFits, FlowTypes
<1>3. Work(w, R) /\ w.total <= w0.total
  BY <1>1, <1>2, ExpireShape
<1>4. PICK b \in Nat : Ordered(w, a, b, lo)
  BY <1>1, ExpirePlace
<1>5. /\ Work(v, R) /\ v.total <= w.total /\ v.state.pending \subseteq w.state.pending
      /\ v.total = w.total => v.state.expected = w.state.expected
  BY <1>1, <1>2, <1>3, RoomShape
<1>6. PICK d \in Nat : b <= d /\ Ordered(v, a, d, lo)
  BY <1>1, <1>3, <1>4, RoomPlace
<1>7. r = IF fr.seq = w.state.expected THEN InOrder(w, fr)
          ELSE IF Known(w.state, fr) THEN w
          ELSE IF v.total = MaxTotal /\ v.state.pending = {} THEN Jumped(v, fr)
          ELSE Store(v, fr)
  BY <1>1, PushIs, Zenon
<1>8. CASE fr.seq = w.state.expected
  <2>1. r = InOrder(w, fr)
    BY <1>7, <1>8, Zenon
  <2> QED BY <2>1, <1>1, <1>3, <1>4, <1>8, InOrderPlace
<1>9. CASE fr.seq # w.state.expected /\ Known(w.state, fr)
  <2>1. r = w
    BY <1>7, <1>9, Zenon
  <2> QED BY <2>1, <1>1, <1>4
<1>10. CASE fr.seq # w.state.expected /\ ~Known(w.state, fr)
  <2>1. IsForward(fr.seq, w.state.expected) /\ \A p \in w.state.pending : p.seq # fr.seq
    BY <1>10, Zenon DEF Known
  <2>2. CASE v.total = MaxTotal /\ v.state.pending = {}
    <3>1. r = Jumped(v, fr)
      BY <1>7, <1>10, <2>2, Zenon
    <3>2. v.total \in Nat /\ w.total \in Nat /\ w0.total \in Nat
      BY <1>3, <1>5, WorkFacts
    <3>3. v.total = w.total
      BY <3>2, <2>2, <1>2, <1>3, <1>5
    <3>4. IsForward(fr.seq, v.state.expected)
      BY <3>3, <2>1, <1>5
    <3> QED BY <3>1, <3>4, <1>1, <1>5, <1>6, JumpedPlace
  <2>3. CASE ~(v.total = MaxTotal /\ v.state.pending = {})
    <3>1. r = Store(v, fr)
      BY <1>7, <1>10, <2>3, Zenon
    <3>2. Pair(fr) \notin v.state.pending
      <4>1. Pair(fr).seq = fr.seq
        BY DEF Pair
      <4> QED BY <4>1, <2>1, <1>5
    <3>3. fr.n - d < FlowModulus \div 2
      <4>1. PICK n : n = fr.n
        OBVIOUS
      <4>2. /\ n \in Nat /\ lo <= n /\ n < lo + FlowSends
            /\ IsForward(n % FlowModulus, w.state.expected) /\ Place(w.state, b, lo)
        BY <4>1, <2>1, <1>4 DEF FrameOf, Frames, Ordered
      <4>3. n - b < FlowModulus \div 2
        BY <4>2, FrameIn
      <4> QED BY <4>1, <4>2, <4>3, <1>2, <1>6 DEF FlowTypes
    <3> QED BY <3>1, <3>2, <3>3, <1>1, <1>5, <1>6, StorePlace
  <2> QED BY <2>2, <2>3
<1> QED BY <1>8, <1>9, <1>10

(* The sequencer stamps a flow's packet n with n modulo the modulus, and     *)
(* a new sender id is one that no flow had before.                           *)
Counted(k) == Get(flowSent, k, 0)

SeqInv ==
  /\ \A f \in DOMAIN sequences : LET k == [sender |-> sender, flow |-> f] IN
       k \in DOMAIN flowSent /\ sequences[f] = flowSent[k] % FlowModulus
  /\ \A k \in DOMAIN flowSent : k.sender <= sender /\ (k.sender = sender => k.flow \in DOMAIN sequences)

(* The flow's frames on the paths are the numbers from lo up to the count.   *)
Stamped(k, lo) ==
  /\ lo \in 0 .. FlowModulus - 1 /\ lo <= Counted(k) /\ Counted(k) <= lo + sends
  /\ \A fr \in net : fr.key = k => fr.seq = fr.n % FlowModulus /\ lo <= fr.n /\ fr.n < Counted(k)

(* Stamping a packet, variable by variable.                                  *)
LEMMA SequencerIs ==
  ASSUME NEW f, SequencerNext(f)
  PROVE  \E id, seq, k :
        /\ id = IF Overflow(f) THEN sender + 1 ELSE sender
        /\ seq = IF Overflow(f) THEN NoFlows ELSE sequences
        /\ k = [sender |-> id, flow |-> f]
        /\ sends < FlowSends /\ sends' = sends + 1 /\ sender' = id
        /\ sequences' = Put(seq, f, (Get(seq, f, 0) + 1) % FlowModulus)
        /\ flowSent' = Put(flowSent, k, Get(flowSent, k, 0) + 1)
        /\ net' = net \cup {Frame(k, Get(seq, f, 0), Get(flowSent, k, 0))}
        /\ flows' = flows /\ total' = total /\ now' = now /\ restarts' = restarts
        /\ arrived' = arrived /\ out' = out /\ lossless' = lossless
        /\ lossless => /\ DOMAIN flowSent \subseteq {k}
                       /\ 0 .. Get(flowSent, k, 0) - MaxPerFlow - 1 \subseteq Get(arrived, k, {})
<1>1. PICK id, seq, k :
        /\ id = IF Overflow(f) THEN sender + 1 ELSE sender
        /\ seq = IF Overflow(f) THEN NoFlows ELSE sequences
        /\ k = [sender |-> id, flow |-> f]
  OBVIOUS
<1>2.   /\ sends < FlowSends /\ sends' = sends + 1 /\ sender' = id
        /\ sequences' = Put(seq, f, (Get(seq, f, 0) + 1) % FlowModulus)
        /\ flowSent' = Put(flowSent, k, Get(flowSent, k, 0) + 1)
        /\ net' = net \cup {Frame(k, Get(seq, f, 0), Get(flowSent, k, 0))}
        /\ flows' = flows /\ total' = total /\ now' = now /\ restarts' = restarts
        /\ arrived' = arrived /\ out' = out /\ lossless' = lossless
        /\ lossless => /\ DOMAIN flowSent \subseteq {k}
                       /\ 0 .. Get(flowSent, k, 0) - MaxPerFlow - 1 \subseteq Get(arrived, k, {})
  BY <1>1, Zenon DEF SequencerNext, reassembler
<1> QED BY <1>1, <1>2, Zenon

(* The number a packet gets, and the keys it leaves.                         *)
LEMMA SequencerStep ==
  ASSUME FlowTypes, HoldInv, SeqInv, NEW f \in Flows, SequencerNext(f)
  PROVE  \E k \in Keys :
           /\ SeqInv'
           /\ Counted(k) \in Nat /\ Counted(k)' = Counted(k) + 1 /\ sends' = sends + 1
           /\ sends < FlowSends
           /\ \A j : j # k => Counted(j)' = Counted(j)
           /\ net' = net \cup {Frame(k, Counted(k) % FlowModulus, Counted(k))}
           /\ DOMAIN flowSent' = DOMAIN flowSent \cup {k}
           /\ flows' = flows /\ arrived' = arrived /\ out' = out /\ lossless' = lossless /\ now' = now
           /\ lossless => /\ DOMAIN flowSent \subseteq {k}
                          /\ 0 .. Counted(k) - MaxPerFlow - 1 \subseteq Get(arrived, k, {})
<1>1. PICK id, seq, k :
        /\ id = IF Overflow(f) THEN sender + 1 ELSE sender
        /\ seq = IF Overflow(f) THEN NoFlows ELSE sequences
        /\ k = [sender |-> id, flow |-> f]
        /\ sends < FlowSends /\ sends' = sends + 1 /\ sender' = id
        /\ sequences' = Put(seq, f, (Get(seq, f, 0) + 1) % FlowModulus)
        /\ flowSent' = Put(flowSent, k, Get(flowSent, k, 0) + 1)
        /\ net' = net \cup {Frame(k, Get(seq, f, 0), Get(flowSent, k, 0))}
        /\ flows' = flows /\ total' = total /\ now' = now /\ restarts' = restarts
        /\ arrived' = arrived /\ out' = out /\ lossless' = lossless
        /\ lossless => /\ DOMAIN flowSent \subseteq {k}
                       /\ 0 .. Get(flowSent, k, 0) - MaxPerFlow - 1 \subseteq Get(arrived, k, {})
  BY SequencerIs, Zenon
<1>2. FlowIds /\ FlowModulus \in Nat \ {0}
  BY DEF HoldInv, FlowTypes
<1>3. k \in Keys
  <2>1. id \in Nat /\ 1 <= id /\ id <= (FlowSends + MaxRestarts) + 1
    BY <1>1, <1>2 DEF FlowIds, FlowTypes
  <2> QED BY <2>1, <1>1, KeysAre
<1>4. PICK q, c : q = Get(seq, f, 0) /\ c = Get(flowSent, k, 0)
  OBVIOUS
<1>5. c \in Nat /\ c = Counted(k)
  BY <1>4 DEF HoldInv, SequencerOK, Get, Counted
<1>6. k.sender = id /\ k.flow = f
  BY <1>1
<1>7. \A j \in DOMAIN flowSent : j.sender <= id /\ (j.sender = id => j.flow \in DOMAIN seq)
  <2>1. CASE Overflow(f)
    <3>1. id = sender + 1
      BY <2>1, <1>1
    <3>2. \A j \in DOMAIN flowSent : j.sender \in Nat
      BY DEF HoldInv, SequencerOK, Keys, FlowTypes
    <3> QED BY <3>1, <3>2, <1>2 DEF SeqInv, FlowIds
  <2>2. CASE ~Overflow(f)
    BY <2>2, <1>1 DEF SeqInv
  <2> QED BY <2>1, <2>2
<1>8. \A g \in DOMAIN seq : LET j == [sender |-> id, flow |-> g] IN
        j \in DOMAIN flowSent /\ seq[g] = flowSent[j] % FlowModulus
  <2>1. CASE Overflow(f)
    BY <2>1, <1>1, EmptyTable
  <2>2. CASE ~Overflow(f)
    BY <2>2, <1>1 DEF SeqInv
  <2> QED BY <2>1, <2>2
<1>9. q = c % FlowModulus
  <2>1. CASE f \in DOMAIN seq
    BY <2>1, <1>1, <1>4, <1>8 DEF Get
  <2>2. CASE f \notin DOMAIN seq
    <3>1. k \notin DOMAIN flowSent
      BY <2>2, <1>6, <1>7
    <3>2. q = 0 /\ c = 0
      BY <3>1, <2>2, <1>4 DEF Get
    <3>3. 0 \in Int /\ 0 % FlowModulus = 0
      BY <1>2, ModSmall
    <3> QED BY <3>2, <3>3
  <2> QED BY <2>1, <2>2
<1>10. PICK p : p = (q + 1) % FlowModulus
  OBVIOUS
<1>11. p = (c + 1) % FlowModulus
  BY <1>5, <1>9, <1>10, ModNext
<1>12. sequences' = Put(seq, f, p) /\ flowSent' = Put(flowSent, k, c + 1)
  BY <1>1, <1>4, <1>10
<1>13. /\ DOMAIN flowSent' = DOMAIN flowSent \cup {k} /\ flowSent'[k] = c + 1
       /\ \A j \in DOMAIN flowSent : j # k => flowSent'[j] = flowSent[j]
  <2>1. PICK g, x : g = flowSent' /\ x = c + 1
    OBVIOUS
  <2>2. g = Put(flowSent, k, x)
    BY <2>1, <1>12
  <2>3. /\ DOMAIN g = DOMAIN flowSent \cup {k} /\ g[k] = x
        /\ \A j \in DOMAIN flowSent : j # k => g[j] = flowSent[j]
    BY <2>2 DEF Put
  <2> QED BY <2>1, <2>3
<1>14. /\ DOMAIN sequences' = DOMAIN seq \cup {f} /\ sequences'[f] = p
       /\ \A g \in DOMAIN seq : g # f => sequences'[g] = seq[g]
  <2>1. PICK g : g = sequences'
    OBVIOUS
  <2>2. g = Put(seq, f, p)
    BY <2>1, <1>12
  <2>3. /\ DOMAIN g = DOMAIN seq \cup {f} /\ g[f] = p
        /\ \A j \in DOMAIN seq : j # f => g[j] = seq[j]
    BY <2>2 DEF Put
  <2> QED BY <2>1, <2>3
<1>15. SeqInv'
  <2>1. ASSUME NEW g \in DOMAIN sequences', NEW j, j = [sender |-> id, flow |-> g]
        PROVE  j \in DOMAIN flowSent' /\ sequences'[g] = flowSent'[j] % FlowModulus
    <3>1. CASE g = f
      <4>1. j = k
        BY <3>1, <2>1, <1>1
      <4> QED BY <4>1, <3>1, <1>11, <1>13, <1>14
    <3>2. CASE g # f
      <4>1. g \in DOMAIN seq /\ sequences'[g] = seq[g]
        BY <3>2, <1>14
      <4>2. j \in DOMAIN flowSent /\ seq[g] = flowSent[j] % FlowModulus
        BY <4>1, <2>1, <1>8
      <4>3. j # k
        <5>1. j.flow = g
          BY <2>1
        <5> QED BY <5>1, <3>2, <1>6
      <4> QED BY <4>1, <4>2, <4>3, <1>13
    <3> QED BY <3>1, <3>2
  <2>2. ASSUME NEW j \in DOMAIN flowSent'
        PROVE  j.sender <= id /\ (j.sender = id => j.flow \in DOMAIN sequences')
    <3>1. CASE j = k
      BY <3>1, <1>1, <1>2, <1>6, <1>14 DEF FlowIds
    <3>2. CASE j # k
      BY <3>2, <1>7, <1>13, <1>14
    <3> QED BY <3>1, <3>2
  <2>3. sender' = id
    BY <1>1
  <2> QED BY <2>1, <2>2, <2>3 DEF SeqInv
<1>16. Counted(k)' = c + 1
  <2>1. Counted(k)' = IF k \in DOMAIN flowSent' THEN flowSent'[k] ELSE 0
    BY DEF Counted, Get
  <2> QED BY <2>1, <1>13
<1>17. \A j : j # k => Counted(j)' = Counted(j)
  <2> SUFFICES ASSUME NEW j, j # k PROVE Counted(j)' = Counted(j)
    OBVIOUS
  <2>1. Counted(j)' = IF j \in DOMAIN flowSent' THEN flowSent'[j] ELSE 0
    BY DEF Counted, Get
  <2>2. Counted(j) = IF j \in DOMAIN flowSent THEN flowSent[j] ELSE 0
    BY DEF Counted, Get
  <2> QED BY <2>1, <2>2, <1>13
<1>18. net' = net \cup {Frame(k, Counted(k) % FlowModulus, Counted(k))}
  BY <1>1, <1>4, <1>5, <1>9
<1>19. lossless => /\ DOMAIN flowSent \subseteq {k}
                   /\ 0 .. Counted(k) - MaxPerFlow - 1 \subseteq Get(arrived, k, {})
  BY <1>1, Zenon DEF Counted
<1> WITNESS k \in Keys
<1> QED BY <1>1, <1>5, <1>13, <1>15, <1>16, <1>17, <1>18, <1>19

(* Stamping a packet keeps the frames of every flow numbered.                *)
LEMMA StampedStep ==
  ASSUME FlowTypes, HoldInv, SeqInv, NEW f \in Flows, SequencerNext(f),
         NEW j \in Keys, NEW lo, Stamped(j, lo)
  PROVE  Stamped(j, lo)'
<1>1. PICK k \in Keys :
           /\ Counted(k) \in Nat /\ Counted(k)' = Counted(k) + 1 /\ sends' = sends + 1
           /\ \A i : i # k => Counted(i)' = Counted(i)
           /\ net' = net \cup {Frame(k, Counted(k) % FlowModulus, Counted(k))}
  BY SequencerStep
<1>2. PICK c : c = Counted(j)
  OBVIOUS
<1>3. c \in Nat /\ lo \in Nat /\ sends \in Nat /\ \A fr \in net : fr.n \in Nat
  <2>1. c \in Nat
    BY <1>2 DEF Counted, Get, HoldInv, SequencerOK
  <2> QED BY <2>1 DEF Stamped, FlowTypes, HoldInv, FlowIds, SequencerOK, Frames
<1>4. /\ lo \in 0 .. FlowModulus - 1 /\ lo <= c /\ c <= lo + sends
      /\ \A fr \in net : fr.key = j => fr.seq = fr.n % FlowModulus /\ lo <= fr.n /\ fr.n < c
  BY <1>2 DEF Stamped
<1>5. CASE j = k
  <2>1. Counted(j)' = c + 1 /\ sends' = sends + 1
    BY <1>1, <1>2, <1>5
  <2>2. ASSUME NEW fr \in net', fr.key = j
        PROVE  fr.seq = fr.n % FlowModulus /\ lo <= fr.n /\ fr.n < c + 1
    <3>1. CASE fr \in net
      BY <3>1, <2>2, <1>3, <1>4
    <3>2. CASE fr = Frame(k, c % FlowModulus, c)
      BY <3>2, <1>3, <1>4 DEF Frame
    <3> QED BY <3>1, <3>2, <1>1, <1>2, <1>5
  <2> QED BY <2>1, <2>2, <1>3, <1>4 DEF Stamped
<1>6. CASE j # k
  <2>1. Counted(j)' = c /\ sends' = sends + 1
    BY <1>1, <1>2, <1>6
  <2>2. ASSUME NEW fr \in net', fr.key = j
        PROVE  fr.seq = fr.n % FlowModulus /\ lo <= fr.n /\ fr.n < c
    <3>1. Frame(k, Counted(k) % FlowModulus, Counted(k)).key = k
      BY DEF Frame
    <3>2. fr \in net
      BY <3>1, <2>2, <1>1, <1>6
    <3> QED BY <3>2, <2>2, <1>4
  <2> QED BY <2>1, <2>2, <1>3, <1>4 DEF Stamped
<1> QED BY <1>5, <1>6

(* The order of each flow: what was released lies below the true expected    *)
(* number, and that number fits the flow's frames.                           *)
Placed(k, lo) ==
  k \in DOMAIN flows => \E e \in Nat : Place(flows[k], e, lo) /\ Rises(out[k], 0, e)

OrderInv ==
  /\ HoldInv /\ SeqInv /\ DOMAIN out = DOMAIN flows
  /\ \A k \in Keys : \E lo \in 0 .. FlowModulus - 1 : Stamped(k, lo) /\ Placed(k, lo)

(* The initial state, variable by variable.                                  *)
LEMMA InitIs ==
  ASSUME FlowInit
  PROVE  \E f \in Flows, b \in Before : \E k :
           /\ k = [sender |-> 1, flow |-> f]
           /\ sequences = IF b = 0 THEN NoFlows ELSE Put(NoFlows, f, b)
           /\ flowSent = IF b = 0 THEN NoFlows ELSE Put(NoFlows, k, b)
           /\ arrived = IF b = 0 THEN NoFlows ELSE Put(NoFlows, k, 0 .. b - 1)
           /\ out = IF b = 0 THEN NoFlows ELSE Put(NoFlows, k, [i \in 1 .. b |-> i - 1])
           /\ flows = IF b = 0 THEN NoFlows ELSE Put(NoFlows, k, [NewState EXCEPT !.expected = b])
           /\ sender = 1 /\ net = {} /\ sends = 0 /\ now = 0
<1>1. PICK f \in Flows, b \in Before :
        LET k == [sender |-> 1, flow |-> f]
            had(v) == IF b = 0 THEN NoFlows ELSE Put(NoFlows, k, v)
        IN  /\ sequences = IF b = 0 THEN NoFlows ELSE Put(NoFlows, f, b)
            /\ flowSent = had(b) /\ arrived = had(0 .. b - 1) /\ out = had([i \in 1 .. b |-> i - 1])
            /\ flows = had([NewState EXCEPT !.expected = b])
  BY Zenon DEF FlowInit
<1>2. sender = 1 /\ net = {} /\ sends = 0 /\ now = 0
  BY DEF FlowInit
<1> QED BY <1>1, <1>2, Zenon

(* Before the first step: nothing, or one flow with the frames below b.      *)
LEMMA FirstFlow ==
  ASSUME FlowTypes, FlowInit
  PROVE  \/ /\ DOMAIN sequences = {} /\ DOMAIN flowSent = {} /\ DOMAIN flows = {}
            /\ DOMAIN arrived = {} /\ DOMAIN out = {}
         \/ \E f \in Flows, b \in 1 .. FlowModulus - 1, k \in Keys :
              /\ k = [sender |-> 1, flow |-> f]
              /\ DOMAIN sequences = {f} /\ sequences[f] = b
              /\ DOMAIN flowSent = {k} /\ flowSent[k] = b
              /\ DOMAIN arrived = {k} /\ arrived[k] = 0 .. b - 1
              /\ DOMAIN out = {k} /\ out[k] = [i \in 1 .. b |-> i - 1]
              /\ DOMAIN flows = {k} /\ flows[k].expected = b /\ flows[k].pending = {}
<1>0. PICK f \in Flows, b \in Before : \E k :
           /\ k = [sender |-> 1, flow |-> f]
           /\ sequences = IF b = 0 THEN NoFlows ELSE Put(NoFlows, f, b)
           /\ flowSent = IF b = 0 THEN NoFlows ELSE Put(NoFlows, k, b)
           /\ arrived = IF b = 0 THEN NoFlows ELSE Put(NoFlows, k, 0 .. b - 1)
           /\ out = IF b = 0 THEN NoFlows ELSE Put(NoFlows, k, [i \in 1 .. b |-> i - 1])
           /\ flows = IF b = 0 THEN NoFlows ELSE Put(NoFlows, k, [NewState EXCEPT !.expected = b])
  BY InitIs, Zenon
<1>1. PICK k :
           /\ k = [sender |-> 1, flow |-> f]
           /\ sequences = IF b = 0 THEN NoFlows ELSE Put(NoFlows, f, b)
           /\ flowSent = IF b = 0 THEN NoFlows ELSE Put(NoFlows, k, b)
           /\ arrived = IF b = 0 THEN NoFlows ELSE Put(NoFlows, k, 0 .. b - 1)
           /\ out = IF b = 0 THEN NoFlows ELSE Put(NoFlows, k, [i \in 1 .. b |-> i - 1])
           /\ flows = IF b = 0 THEN NoFlows ELSE Put(NoFlows, k, [NewState EXCEPT !.expected = b])
  BY <1>0, Zenon
<1>2. CASE b = 0
  <2>1. /\ sequences = NoFlows /\ flowSent = NoFlows /\ arrived = NoFlows
        /\ out = NoFlows /\ flows = NoFlows
    BY <1>1, <1>2, Zenon
  <2> QED BY <2>1, EmptyTable
<1>3. CASE b # 0
  <2>1. PICK r, o, s : r = 0 .. b - 1 /\ o = [i \in 1 .. b |-> i - 1] /\ s = [NewState EXCEPT !.expected = b]
    OBVIOUS
  <2>2. /\ sequences = Put(NoFlows, f, b) /\ flowSent = Put(NoFlows, k, b)
        /\ arrived = Put(NoFlows, k, r) /\ out = Put(NoFlows, k, o)
        /\ flows = Put(NoFlows, k, s)
    BY <1>1, <1>3, <2>1, Zenon
  <2>3. DOMAIN sequences = {f} /\ sequences[f] = b /\ DOMAIN flowSent = {k} /\ flowSent[k] = b
    BY <2>2, EmptyTable DEF Put
  <2>4. DOMAIN arrived = {k} /\ arrived[k] = r /\ DOMAIN out = {k} /\ out[k] = o
    BY <2>2, EmptyTable DEF Put
  <2>5. DOMAIN flows = {k} /\ flows[k] = s
    BY <2>2, EmptyTable DEF Put
  <2>6. s.expected = b /\ s.pending = {}
    <3>1. s = [expected |-> b, gap |-> -1, pending |-> {}]
      BY <2>1 DEF NewState, NoGap
    <3> QED BY <3>1
  <2>7. b \in 1 .. FlowModulus - 1
    BY <1>3 DEF FlowTypes
  <2>8. k \in Keys
    <3>1. 1 \in Nat /\ 1 <= 1 /\ 1 <= (FlowSends + MaxRestarts) + 1
      BY DEF FlowTypes
    <3> QED BY <3>1, <1>1, KeysAre
  <2>9. /\ k = [sender |-> 1, flow |-> f]
        /\ DOMAIN sequences = {f} /\ sequences[f] = b
        /\ DOMAIN flowSent = {k} /\ flowSent[k] = b
        /\ DOMAIN arrived = {k} /\ arrived[k] = 0 .. b - 1
        /\ DOMAIN out = {k} /\ out[k] = [i \in 1 .. b |-> i - 1]
        /\ DOMAIN flows = {k} /\ flows[k].expected = b /\ flows[k].pending = {}
    BY <2>1, <2>3, <2>4, <2>5, <2>6, <1>1
  <2>10. \E f1 \in Flows, b1 \in 1 .. FlowModulus - 1, k1 \in Keys :
           /\ k1 = [sender |-> 1, flow |-> f1]
           /\ DOMAIN sequences = {f1} /\ sequences[f1] = b1
           /\ DOMAIN flowSent = {k1} /\ flowSent[k1] = b1
           /\ DOMAIN arrived = {k1} /\ arrived[k1] = 0 .. b1 - 1
           /\ DOMAIN out = {k1} /\ out[k1] = [i \in 1 .. b1 |-> i - 1]
           /\ DOMAIN flows = {k1} /\ flows[k1].expected = b1 /\ flows[k1].pending = {}
    <3> WITNESS f \in Flows, b \in 1 .. FlowModulus - 1, k \in Keys
    <3> QED BY <2>9
  <2> QED BY <2>10
<1> QED BY <1>2, <1>3

(* The flow that had b frames: it is placed at b.                            *)
LEMMA FirstPlace ==
  ASSUME SpanFits, NEW b \in 1 .. FlowModulus - 1, NEW st, st.expected = b, st.pending = {}
  PROVE  /\ b \in Nat /\ b % FlowModulus = b /\ Place(st, b, b)
         /\ Rises([i \in 1 .. b |-> i - 1], 0, b) /\ Len([i \in 1 .. b |-> i - 1]) = b
<1>1. FlowModulus \in Nat \ {0} /\ FlowSends \in Nat /\ FlowSends <= FlowModulus /\ b \in Nat /\ b \in Int
  BY DEF SpanFits, FlowTypes
<1>2. b % FlowModulus = b
  BY <1>1, ModSmall
<1>3. b <= b + FlowSends /\ b + FlowSends <= b + FlowModulus
  BY <1>1
<1>4. Place(st, b, b)
  BY <1>1, <1>2, <1>3 DEF Place
<1>5. PICK o : o = [i \in 1 .. b |-> i - 1]
  OBVIOUS
<1>6. o \in Seq(Nat) /\ Len(o) = b /\ \A i \in 1 .. b : o[i] = i - 1
  BY <1>1, <1>5
<1>7. Rises(o, 0, b)
  BY <1>1, <1>6 DEF Rises
<1> QED BY <1>1, <1>2, <1>4, <1>5, <1>6, <1>7

(* The numbering holds initially.                                            *)
LEMMA SeqInit ==
  ASSUME FlowTypes, FlowInit
  PROVE  SeqInv /\ sender = 1 /\ net = {} /\ sends = 0 /\ now = 0
<1>1. sender = 1 /\ net = {} /\ sends = 0 /\ now = 0
  BY DEF FlowInit
<1>2. CASE DOMAIN sequences = {} /\ DOMAIN flowSent = {}
  BY <1>1, <1>2 DEF SeqInv
<1>3. CASE \E f \in Flows, b \in 1 .. FlowModulus - 1, k \in Keys :
              /\ k = [sender |-> 1, flow |-> f]
              /\ DOMAIN sequences = {f} /\ sequences[f] = b
              /\ DOMAIN flowSent = {k} /\ flowSent[k] = b
  <2>1. PICK f \in Flows, b \in 1 .. FlowModulus - 1, k \in Keys :
              /\ k = [sender |-> 1, flow |-> f]
              /\ DOMAIN sequences = {f} /\ sequences[f] = b
              /\ DOMAIN flowSent = {k} /\ flowSent[k] = b
    BY <1>3
  <2>2. b % FlowModulus = b
    BY ModSmall DEF FlowTypes
  <2>3. k.sender = 1 /\ k.flow = f
    BY <2>1
  <2> QED BY <2>1, <2>2, <2>3, <1>1 DEF SeqInv
<1> QED
  <2>1. \/ DOMAIN sequences = {} /\ DOMAIN flowSent = {}
        \/ \E f \in Flows, b \in 1 .. FlowModulus - 1, k \in Keys :
              /\ k = [sender |-> 1, flow |-> f]
              /\ DOMAIN sequences = {f} /\ sequences[f] = b
              /\ DOMAIN flowSent = {k} /\ flowSent[k] = b
    BY FirstFlow, Zenon
  <2> QED BY <2>1, <1>1, <1>2, <1>3

(* The order invariant holds initially.                                      *)
LEMMA OrderInit ==
  ASSUME SpanFits, FlowInit
  PROVE  OrderInv
<1>1. FlowTypes /\ FlowModulus \in Nat \ {0}
  BY DEF SpanFits, FlowTypes
<1>2. HoldInv /\ SeqInv /\ net = {} /\ sends = 0
  BY <1>1, HoldInit, SeqInit
<1>3. CASE DOMAIN flowSent = {} /\ DOMAIN flows = {} /\ DOMAIN out = {}
  <2>1. \A k : Stamped(k, 0)
    BY <1>1, <1>2, <1>3 DEF Stamped, Counted, Get
  <2>2. \A k : Placed(k, 0)
    BY <1>3 DEF Placed
  <2> QED BY <2>1, <2>2, <1>1, <1>2, <1>3 DEF OrderInv
<1>4. ASSUME NEW f \in Flows, NEW b \in 1 .. FlowModulus - 1, NEW k \in Keys,
             DOMAIN flowSent = {k}, flowSent[k] = b, DOMAIN out = {k},
             out[k] = [i \in 1 .. b |-> i - 1],
             DOMAIN flows = {k}, flows[k].expected = b, flows[k].pending = {}
      PROVE  OrderInv
  <2>1. /\ b \in Nat /\ b \in 0 .. FlowModulus - 1 /\ Place(flows[k], b, b)
        /\ Rises(out[k], 0, b)
    BY <1>1, <1>4, FirstPlace
  <2>2. Stamped(k, b) /\ Placed(k, b)
    <3>1. Counted(k) = b /\ b <= b + sends /\ b <= b
      BY <2>1, <1>2, <1>4 DEF Counted, Get
    <3> QED BY <3>1, <2>1, <1>2 DEF Stamped, Placed
  <2>3. ASSUME NEW j, j # k PROVE Stamped(j, 0) /\ Placed(j, 0)
    BY <2>3, <1>1, <1>2, <1>4 DEF Stamped, Placed, Counted, Get
  <2>4. 0 \in 0 .. FlowModulus - 1
    BY <1>1
  <2> QED BY <2>1, <2>2, <2>3, <2>4, <1>2, <1>4 DEF OrderInv
<1> QED
  <2>1. \/ DOMAIN flowSent = {} /\ DOMAIN flows = {} /\ DOMAIN out = {}
        \/ \E f \in Flows, b \in 1 .. FlowModulus - 1, k \in Keys :
             /\ DOMAIN flowSent = {k} /\ flowSent[k] = b /\ DOMAIN out = {k}
             /\ out[k] = [i \in 1 .. b |-> i - 1]
             /\ DOMAIN flows = {k} /\ flows[k].expected = b /\ flows[k].pending = {}
    BY <1>1, FirstFlow, Zenon
  <2> QED BY <2>1, <1>3, <1>4

(* A flow the table does not know starts at number 0 of the wire, which is   *)
(* the true 0 or the true modulus.                                           *)
LEMMA NewPlace ==
  ASSUME SpanFits, now \in Nat, NEW lo \in 0 .. FlowModulus - 1
  PROVE  /\ \E e \in Nat : Place(NewState, e, lo)
         /\ lo = 0 => Place(NewState, 0, lo)
<1>1. FlowTypes /\ FlowModulus \in Nat \ {0} /\ FlowSends \in Nat /\ FlowSends < FlowModulus
  BY DEF SpanFits, FlowTypes
<1>2. NewState.pending = {} /\ NewState.expected = 0
  BY <1>1, NewStateOK
<1>3. 0 % FlowModulus = 0
  BY <1>1, ModSmall
<1>4. FlowModulus % FlowModulus = 0
  <2>1. FlowModulus \in Int /\ FlowModulus = FlowModulus * 1 + 0 /\ 0 \in 0 .. FlowModulus - 1
    BY <1>1
  <2> QED BY <2>1, <1>1, ModUnique
<1>5. lo + FlowSends <= FlowModulus => Place(NewState, 0, lo)
  BY <1>1, <1>2, <1>3 DEF Place
<1>6. ~(lo + FlowSends <= FlowModulus) => Place(NewState, FlowModulus, lo)
  BY <1>1, <1>2, <1>4 DEF Place
<1>7. lo = 0 => lo + FlowSends <= FlowModulus
  BY <1>1
<1> QED BY <1>1, <1>5, <1>6, <1>7

(* An arrival keeps the order invariant.                                     *)
LEMMA OrderArrive ==
  ASSUME SpanFits, OrderInv, NEW fr, ArriveFrame(fr)
  PROVE  OrderInv'
<1>0. FlowTypes /\ HoldInv /\ SeqInv /\ DOMAIN out = DOMAIN flows
  BY DEF SpanFits, OrderInv
<1>1. PICK k, w, R, t, h :
        /\ k = fr.key /\ w = PushAt(Start(k), fr)
        /\ R = Cardinality(Others(t, k)) /\ t = Table(k) /\ h = History(k)
  OBVIOUS
<1>2. /\ fr \in net
      /\ flows' = Put(t, k, w.state)
      /\ out' = Put(h, k, Get(h, k, <<>>) \o w.out)
      /\ sender' = sender /\ sequences' = sequences /\ sends' = sends
      /\ flowSent' = flowSent /\ net' = net /\ now' = now
  BY <1>1, ArriveIs, Zenon
<1>3. k \in Keys /\ Frames(fr) /\ now \in Nat /\ sends \in Nat /\ sends <= FlowSends
  BY <1>0, <1>1, <1>2 DEF HoldInv, SequencerOK, FlowIds, FlowTypes
<1>4. R \in Nat /\ Work(Start(k), R) /\ Start(k).total <= MaxTotal
  BY <1>0, <1>1, <1>3, StartShape
<1>5. PICK lo \in 0 .. FlowModulus - 1 : Stamped(k, lo) /\ Placed(k, lo)
  BY <1>3 DEF OrderInv
<1>6. FrameOf(fr, lo)
  <2>1. /\ fr.seq = fr.n % FlowModulus /\ lo <= fr.n /\ fr.n < Counted(k)
        /\ Counted(k) <= lo + sends
    BY <1>1, <1>2, <1>5 DEF Stamped
  <2>2. Counted(k) \in Nat /\ lo \in Nat /\ fr.n \in Nat
    BY <1>0, <1>3, <1>5 DEF Counted, Get, HoldInv, SequencerOK, FlowTypes, Frames
  <2>3. fr.n < lo + FlowSends
    BY <2>1, <2>2, <1>0, <1>3 DEF FlowTypes
  <2> QED BY <2>1, <2>3, <1>3 DEF FrameOf
<1>7. (t = flows /\ h = out) \/ (t = NoFlows /\ h = NoFlows)
  BY <1>1, Zenon DEF Table, History
<1>8. /\ DOMAIN h = DOMAIN t /\ DOMAIN t \subseteq DOMAIN flows
      /\ \A j \in DOMAIN t : t[j] = flows[j] /\ h[j] = out[j]
  BY <1>0, <1>7, EmptyTable
<1>9. PICK s, g : s = Get(t, k, NewState) /\ g = Get(h, k, <<>>)
  OBVIOUS
<1>10. PICK e \in Nat : Place(s, e, lo) /\ Rises(g, 0, e)
  <2>1. CASE k \in DOMAIN t
    <3>1. s = flows[k] /\ g = out[k] /\ k \in DOMAIN flows
      BY <2>1, <1>8, <1>9 DEF Get
    <3> QED BY <3>1, <1>5 DEF Placed
  <2>2. CASE k \notin DOMAIN t
    <3>1. s = NewState /\ g = <<>>
      BY <2>2, <1>8, <1>9 DEF Get
    <3>2. PICK e \in Nat : Place(s, e, lo)
      BY <3>1, <1>3, <1>5, NewPlace
    <3>3. 0 \in Nat /\ 0 <= e
      OBVIOUS
    <3>4. Rises(g, 0, e)
      BY <3>1, <3>3, RisesBase, Zenon
    <3> QED BY <3>2, <3>4
  <2> QED BY <2>1, <2>2
<1>11. Start(k).state = s /\ Start(k).out = <<>>
  BY <1>1, <1>9 DEF Start
<1>12. Ordered(Start(k), e, e, lo)
  <2>1. e <= e
    OBVIOUS
  <2>2. Rises(<<>>, e, e)
    BY <2>1, RisesBase, Zenon
  <2> QED BY <2>1, <2>2, <1>10, <1>11 DEF Ordered
<1>13. PICK c \in Nat : Ordered(w, e, c, lo)
  BY <1>1, <1>3, <1>4, <1>6, <1>12, PushPlace
<1>14. Place(w.state, c, lo) /\ Rises(w.out, e, c) /\ e <= c
  BY <1>13 DEF Ordered
<1>15. Rises(g \o w.out, 0, c)
  BY <1>10, <1>14, RisesConcat
<1>16. /\ DOMAIN flows' = DOMAIN t \cup {k} /\ flows'[k] = w.state
       /\ \A j \in DOMAIN t : j # k => flows'[j] = t[j]
  <2>1. PICK x, y : x = flows' /\ y = w.state
    OBVIOUS
  <2>2. x = Put(t, k, y)
    BY <2>1, <1>2
  <2>3. /\ DOMAIN x = DOMAIN t \cup {k} /\ x[k] = y
        /\ \A j \in DOMAIN t : j # k => x[j] = t[j]
    BY <2>2 DEF Put
  <2> QED BY <2>1, <2>3
<1>17. /\ DOMAIN out' = DOMAIN h \cup {k} /\ out'[k] = g \o w.out
       /\ \A j \in DOMAIN h : j # k => out'[j] = h[j]
  <2>1. PICK x, y : x = out' /\ y = g \o w.out
    OBVIOUS
  <2>2. x = Put(h, k, y)
    BY <2>1, <1>2, <1>9
  <2>3. /\ DOMAIN x = DOMAIN h \cup {k} /\ x[k] = y
        /\ \A j \in DOMAIN h : j # k => x[j] = h[j]
    BY <2>2 DEF Put
  <2> QED BY <2>1, <2>3
<1>18. DOMAIN out' = DOMAIN flows'
  BY <1>8, <1>16, <1>17
<1>19. HoldInv'
  BY <1>0, HoldArrive
<1>20. SeqInv'
  BY <1>0, <1>2 DEF SeqInv
<1>21. \A j, l : Stamped(j, l)' = Stamped(j, l)
  BY <1>2 DEF Stamped, Counted, Get
<1>22. ASSUME NEW j \in Keys
       PROVE  \E l \in 0 .. FlowModulus - 1 : Stamped(j, l)' /\ Placed(j, l)'
  <2>1. CASE j = k
    <3>1. Placed(k, lo)'
      BY <1>14, <1>15, <1>16, <1>17 DEF Placed, Place, Rises
    <3> QED BY <3>1, <2>1, <1>5, <1>21
  <2>2. CASE j # k
    <3>1. PICK l \in 0 .. FlowModulus - 1 : Stamped(j, l) /\ Placed(j, l)
      BY DEF OrderInv
    <3>2. Placed(j, l)'
      <4> SUFFICES ASSUME j \in DOMAIN flows' PROVE \E c2 \in Nat : Place(flows'[j], c2, l) /\ Rises(out'[j], 0, c2)
        BY DEF Placed, Place, Rises
      <4>1. j \in DOMAIN t /\ j \in DOMAIN h /\ j \in DOMAIN flows
        BY <2>2, <1>8, <1>16
      <4>2. flows'[j] = flows[j] /\ out'[j] = out[j]
        BY <4>1, <2>2, <1>8, <1>16, <1>17
      <4> QED BY <4>1, <4>2, <3>1 DEF Placed
    <3> QED BY <3>1, <3>2, <1>21
  <2> QED BY <2>1, <2>2
<1>23. Keys' = Keys
  BY DEF Keys
<1> QED BY <1>18, <1>19, <1>20, <1>22, <1>23 DEF OrderInv

(* Every step keeps the order invariant.                                     *)
LEMMA OrderNext ==
  ASSUME SpanFits, OrderInv, [FlowNext]_flowVars
  PROVE  OrderInv'
<1>0. FlowTypes /\ HoldInv /\ SeqInv /\ DOMAIN out = DOMAIN flows /\ HoldInv'
  BY HoldNext DEF SpanFits, OrderInv
<1>1. Keys' = Keys
  BY DEF Keys
<1>2. ASSUME NEW f \in Flows, SequencerNext(f) PROVE OrderInv'
  <2>1. SeqInv' /\ flows' = flows /\ out' = out
    BY <1>0, <1>2, SequencerStep
  <2>2. ASSUME NEW j \in Keys
        PROVE  \E l \in 0 .. FlowModulus - 1 : Stamped(j, l)' /\ Placed(j, l)'
    <3>1. PICK l \in 0 .. FlowModulus - 1 : Stamped(j, l) /\ Placed(j, l)
      BY DEF OrderInv
    <3>2. Stamped(j, l)'
      BY <3>1, <1>0, <1>2, StampedStep
    <3>3. Placed(j, l)'
      BY <3>1, <2>1 DEF Placed, Place, Rises
    <3> QED BY <3>2, <3>3
  <2> QED BY <2>1, <2>2, <1>0, <1>1 DEF OrderInv
<1>3. ASSUME NEW fr \in net, ArriveFrame(fr) PROVE OrderInv'
  BY <1>3, OrderArrive
<1>4. CASE SequencerNew
  <2>1. /\ sender' = sender + 1 /\ sequences' = NoFlows /\ flowSent' = flowSent
        /\ sends' = sends /\ net' = net /\ flows' = flows /\ out' = out
    BY <1>4, Zenon DEF SequencerNew, reassembler
  <2>2. SeqInv'
    <3>1. \A k \in DOMAIN flowSent : k.sender \in Nat /\ k.sender <= sender
      BY <1>0 DEF SeqInv, HoldInv, SequencerOK, Keys, FlowTypes
    <3>2. sender \in Nat
      BY <1>0 DEF HoldInv, FlowIds
    <3> QED BY <3>1, <3>2, <2>1, EmptyTable DEF SeqInv
  <2>3. \A j, l : Stamped(j, l)' = Stamped(j, l) /\ Placed(j, l)' = Placed(j, l)
    BY <2>1 DEF Stamped, Counted, Get, Placed, Place, Rises
  <2> QED BY <2>1, <2>2, <2>3, <1>0, <1>1 DEF OrderInv
<1>5. CASE ReassemblerNew
  <2>1. /\ sender' = sender /\ sequences' = sequences /\ flowSent' = flowSent
        /\ sends' = sends /\ net' = net /\ flows' = NoFlows /\ out' = NoFlows
    BY <1>5, Zenon DEF ReassemblerNew, sequencer
  <2>2. SeqInv'
    BY <1>0, <2>1 DEF SeqInv
  <2>3. \A j, l : Stamped(j, l)' = Stamped(j, l) /\ Placed(j, l)'
    BY <2>1, EmptyTable DEF Stamped, Counted, Get, Placed
  <2>4. DOMAIN out' = DOMAIN flows'
    BY <2>1
  <2> QED BY <2>2, <2>3, <2>4, <1>0, <1>1 DEF OrderInv
<1>6. CASE Tick \/ UNCHANGED flowVars
  <2>1. /\ sender' = sender /\ sequences' = sequences /\ flowSent' = flowSent
        /\ sends' = sends /\ net' = net /\ flows' = flows /\ out' = out
    <3>1. CASE Tick
      BY <3>1, Zenon DEF Tick, sequencer, reassembler
    <3>2. CASE UNCHANGED flowVars
      BY <3>2, Zenon DEF flowVars
    <3> QED BY <3>1, <3>2, <1>6
  <2>2. SeqInv'
    BY <1>0, <2>1 DEF SeqInv
  <2>3. \A j, l : Stamped(j, l)' = Stamped(j, l) /\ Placed(j, l)' = Placed(j, l)
    BY <2>1 DEF Stamped, Counted, Get, Placed, Place, Rises
  <2> QED BY <2>1, <2>2, <2>3, <1>0, <1>1 DEF OrderInv
<1> QED BY <1>2, <1>3, <1>4, <1>5, <1>6, Zenon DEF FlowNext

(* What push_at releases of a flow between two clears of the table is        *)
(* increasing in the order sent, whatever the paths lose, reorder or         *)
(* duplicate, whether a gap expires or a buffer fills, and across the wrap   *)
(* of the number, as long as the packets sent are fewer than half the        *)
(* modulus.  Over a clear (flow_frame.rs:155-158) the order may be lost.     *)
THEOREM FlowsInOrder ==
  ASSUME FlowBounds, FlowSends < FlowModulus \div 2
  PROVE  FlowSpec => []OutputOrdered
<1>0. SpanFits
  BY FlowBoundsTyped DEF SpanFits
<1>1. FlowInit => OrderInv
  BY <1>0, OrderInit
<1>2. OrderInv /\ [FlowNext]_flowVars => OrderInv'
  BY <1>0, OrderNext
<1>3. OrderInv => OutputOrdered
  <2> SUFFICES ASSUME OrderInv, NEW k \in DOMAIN out, NEW i \in DOMAIN out[k], NEW j \in DOMAIN out[k], i < j
               PROVE  out[k][i] < out[k][j]
    BY DEF OutputOrdered, Increasing
  <2>1. k \in Keys /\ k \in DOMAIN flows
    BY DEF OrderInv, HoldInv, TableOK
  <2>2. PICK lo \in 0 .. FlowModulus - 1 : Placed(k, lo)
    BY <2>1 DEF OrderInv
  <2>3. PICK e \in Nat : Rises(out[k], 0, e)
    BY <2>1, <2>2 DEF Placed
  <2>4. out[k] \in Seq(Nat) /\ DOMAIN out[k] = 1 .. Len(out[k])
    BY <2>3 DEF Rises
  <2> QED BY <2>3, <2>4 DEF Rises
<1> QED BY <1>1, <1>2, <1>3, PTL DEF FlowSpec

(* A flow that gave nothing up: the numbers in A arrived; those below e are  *)
(* out, the others are pending, and e itself is missing.                     *)
Gapless(st, A, e, lo) ==
  /\ Place(st, e, lo) /\ lo <= e
  /\ A = (0 .. e - 1) \cup {p.n : p \in st.pending}
  /\ \A p \in st.pending : p.n > e

(* A pending frame is known by its true number.                              *)
LEMMA SameFrame ==
  ASSUME NEW st, StateOK(st), NEW e, NEW lo, Place(st, e, lo), NEW p \in st.pending, NEW q \in st.pending, p.n = q.n
  PROVE  p = q
<1>1. p \in Waiting /\ q \in Waiting
  BY DEF StateOK, States
<1>2. p.seq = q.seq
  BY DEF Place
<1> QED BY <1>1, <1>2 DEF Waiting

(* Draining leaves the next expected number missing.                         *)
LEMMA DrainGapless ==
  ASSUME SpanFits, NEW st, StateOK(st), NEW e, NEW lo, Place(st, e, lo), lo <= e,
         NEW A, A = (0 .. e - 1) \cup {p.n : p \in st.pending}, \A p \in st.pending : p.n >= e
  PROVE  /\ DrainRun(st) \in Nat
         /\ Gapless(DrainContiguous(st).state, A, e + DrainRun(st), lo)
         /\ DrainContiguous(st).out \in Seq(Nat)
         /\ Len(DrainContiguous(st).out) = DrainRun(st)
<1>1. PICK r, d, P : r = DrainRun(st) /\ d = DrainContiguous(st) /\ P = st.pending
  OBVIOUS
<1>2. FlowTypes /\ e \in Nat /\ lo \in Nat /\ FlowModulus \in Nat \ {0}
  BY PlaceFacts DEF SpanFits
<1>3. /\ r \in Nat /\ Place(d.state, e + r, lo) /\ d.out = [i \in 1 .. r |-> e + (i - 1)]
      /\ \A i \in 0 .. (r - 1) : DrainHead(st, i) \in P /\ DrainHead(st, i).n = e + i
  BY <1>1, DrainPlace
<1>4. d.out \in Seq(Nat) /\ Len(d.out) = r
  BY <1>2, <1>3
<1>5. d.state.pending = P \ DrainGone(st)
  BY <1>1, <1>2, DrainShape
<1>6. IsFiniteSet(P) /\ Cardinality(P) \in Nat /\ \A p \in P : p.n \in Nat
  BY <1>1, FS_CardinalityType, PendingNat DEF StateOK
<1>7. \A p \in P, i \in 0 .. (r - 1) : p.n = e + i => p \in DrainGone(st)
  <2> SUFFICES ASSUME NEW p \in P, NEW i \in 0 .. (r - 1), p.n = e + i PROVE p \in DrainGone(st)
    OBVIOUS
  <2>1. DrainHead(st, i) \in P /\ DrainHead(st, i).n = p.n
    BY <1>3
  <2>2. p = DrainHead(st, i)
    BY <2>1, <1>1, SameFrame
  <2> QED BY <2>2, <1>1 DEF DrainGone
<1>8. \A p \in DrainGone(st) : \E i \in 0 .. (r - 1) : p = DrainHead(st, i)
  BY <1>1 DEF DrainGone
<1>9. ASSUME NEW p \in P \ DrainGone(st) PROVE p.n > e + r
  <2>1. p.n \in Nat /\ p.n >= e
    BY <1>1, <1>6
  <2>2. p.n >= e + r
    <3> SUFFICES ASSUME p.n < e + r PROVE FALSE
      BY <2>1, <1>2, <1>3
    <3>1. PICK i : i = p.n - e
      OBVIOUS
    <3>2. i \in 0 .. (r - 1) /\ p.n = e + i
      BY <3>1, <2>1, <1>2, <1>3
    <3> QED BY <3>2, <1>7, <1>9
  <2>3. p.n # e + r
    <3> SUFFICES ASSUME p.n = e + r PROVE FALSE
      OBVIOUS
    <3>1. r <= Cardinality(P) /\ (r < Cardinality(P) => DrainAt(st, r) = {})
      BY <1>1, <1>6, DrainRunFacts
    <3>2. CASE r < Cardinality(P)
      <4>1. p.seq = (e + r) % FlowModulus /\ st.expected = e % FlowModulus
        BY <1>1 DEF Place
      <4>2. ((e % FlowModulus) + r) % FlowModulus = (e + r) % FlowModulus
        BY <1>2, <1>3, ModNext
      <4>3. p \in DrainAt(st, r)
        BY <4>1, <4>2, <1>1 DEF DrainAt
      <4> QED BY <4>3, <3>1, <3>2
    <3>3. CASE ~(r < Cardinality(P))
      <4>1. r = Cardinality(P)
        BY <3>1, <3>3, <1>3, <1>6
      <4>2. PICK I, F : I = 0 .. (r - 1) /\ F = [i \in I |-> DrainHead(st, i)]
        OBVIOUS
      <4>3. IsFiniteSet(I) /\ Cardinality(I) = r
        <5>1. 0 \in Int /\ r - 1 \in Int
          BY <1>3
        <5>2. IsFiniteSet(I) /\ Cardinality(I) = IF 0 > r - 1 THEN 0 ELSE (r - 1) - 0 + 1
          BY <5>1, <4>2, FS_Interval
        <5> QED BY <5>2, <1>3
      <4>4. F \in [I -> P] /\ \A i \in I : F[i].n = e + i
        BY <4>2, <1>3
      <4>5. \A i, j \in I : F[i] = F[j] => i = j
        <5> SUFFICES ASSUME NEW i \in I, NEW j \in I, F[i] = F[j] PROVE i = j
          OBVIOUS
        <5>1. e + i = e + j
          BY <4>4
        <5>2. i \in Int /\ j \in Int
          BY <4>2
        <5> QED BY <5>1, <5>2, <1>2
      <4>6. F \in Injection(I, P)
        BY <4>4, <4>5 DEF Injection, IsInjective
      <4>7. F \in Surjection(I, P)
        BY <4>1, <4>3, <4>6, <1>6, FS_Injection
      <4>8. PICK i \in I : F[i] = p
        BY <4>7, <1>9 DEF Surjection
      <4>9. p \in DrainGone(st)
        BY <4>2, <4>8, <1>1 DEF DrainGone
      <4> QED BY <4>9, <1>9
    <3> QED BY <3>2, <3>3
  <2>4. PICK m, b : m = p.n /\ b = e + r
    OBVIOUS
  <2>5. m \in Nat /\ b \in Nat /\ m >= b /\ m # b
    BY <2>1, <2>2, <2>3, <2>4, <1>2, <1>3
  <2>6. m > b
    BY <2>5
  <2> QED BY <2>4, <2>6
<1>10. A = (0 .. (e + r) - 1) \cup {p.n : p \in d.state.pending}
  <2>1. ASSUME NEW x \in A PROVE x \in (0 .. (e + r) - 1) \cup {p.n : p \in d.state.pending}
    <3>1. CASE x \in 0 .. e - 1
      BY <3>1, <1>2, <1>3
    <3>2. ASSUME NEW p \in P, x = p.n PROVE x \in (0 .. (e + r) - 1) \cup {q.n : q \in d.state.pending}
      <4>1. CASE p \in DrainGone(st)
        <5>1. PICK i \in 0 .. (r - 1) : p = DrainHead(st, i)
          BY <4>1, <1>8
        <5>2. x = e + i
          BY <5>1, <3>2, <1>3
        <5>3. x \in 0 .. (e + r) - 1
          BY <5>2, <1>2, <1>3
        <5> QED BY <5>3
      <4>2. CASE p \notin DrainGone(st)
        BY <4>2, <3>2, <1>5
      <4> QED BY <4>1, <4>2
    <3> QED BY <3>1, <3>2, <1>1
  <2>2. ASSUME NEW x \in (0 .. (e + r) - 1) \cup {p.n : p \in d.state.pending} PROVE x \in A
    <3>1. CASE x \in {p.n : p \in d.state.pending}
      BY <3>1, <1>1, <1>5
    <3>2. CASE x \in 0 .. (e + r) - 1 /\ x < e
      BY <3>2, <1>2, <1>3
    <3>3. CASE x \in 0 .. (e + r) - 1 /\ ~(x < e)
      <4>1. PICK i : i = x - e
        OBVIOUS
      <4>2. i \in 0 .. (r - 1) /\ x = e + i
        BY <4>1, <3>3, <1>2, <1>3
      <4>3. DrainHead(st, i) \in P /\ DrainHead(st, i).n = x
        BY <4>2, <1>3
      <4> QED BY <4>3, <1>1
    <3> QED BY <3>1, <3>2, <3>3, <2>2
  <2> QED BY <2>1, <2>2
<1>11. lo <= e + r
  BY <1>2, <1>3
<1>12. Gapless(d.state, A, e + r, lo)
  BY <1>3, <1>5, <1>9, <1>10, <1>11 DEF Gapless
<1> QED BY <1>1, <1>3, <1>4, <1>12

(* At time 0 no gap is old enough to give up.                                *)
LEMMA ExpireIdle ==
  ASSUME FlowTypes, now = 0, NEW R \in Nat, NEW w, Work(w, R)
  PROVE  Expire(w).state = w.state /\ Expire(w).out = w.out /\ Work(Expire(w), R)
<1>1. StateOK(w.state) /\ w.out \in Seq(Nat) /\ now \in Nat
  BY WorkFacts
<1>2. w.state.gap = -1 \/ w.state.gap = 0
  BY <1>1 DEF StateOK, States
<1>3. SatSub(0, 0) = 0 /\ ~(0 >= GapRelease)
  BY DEF SatSub, FlowTypes
<1>4. ~(w.state.gap # -1 /\ SatSub(now, w.state.gap) >= GapRelease)
  BY <1>2, <1>3
<1>5. ReleaseExpired(w.state) = [state |-> w.state, out |-> <<>>]
  BY <1>4, Zenon DEF ReleaseExpired, NoGap
<1>6. PICK r : r = ReleaseExpired(w.state)
  OBVIOUS
<1>7. r.state = w.state /\ r.out = <<>>
  BY <1>5, <1>6
<1>8. /\ Work(Expire(w), R) /\ Expire(w).state = r.state /\ Expire(w).out = w.out \o r.out
  BY <1>1, <1>6, ExpireShape
<1>9. w.out \o <<>> = w.out
  BY <1>1
<1> QED BY <1>7, <1>8, <1>9

(* Frames between two numbers are no more than those numbers.                *)
LEMMA FramesBetween ==
  ASSUME NEW P, IsFiniteSet(P), NEW a \in Nat, NEW b \in Nat, a <= b + 1,
         \A p \in P : p.n \in Nat /\ a <= p.n /\ p.n <= b,
         \A p, q \in P : p.n = q.n => p = q
  PROVE  Cardinality(P) <= (b - a) + 1 /\ Cardinality(P) \in Nat
<1>1. PICK F, I : I = a .. b /\ F = [p \in P |-> p.n]
  OBVIOUS
<1>2. F \in [P -> I]
  BY <1>1
<1>3. F \in Injection(P, I)
  BY <1>1, <1>2 DEF Injection, IsInjective
<1>4. IsFiniteSet(I) /\ Cardinality(I) = IF a > b THEN 0 ELSE (b - a) + 1
  <2>1. a \in Int /\ b \in Int
    OBVIOUS
  <2>2. IsFiniteSet(a .. b) /\ Cardinality(a .. b) = IF a > b THEN 0 ELSE b - a + 1
    BY <2>1, FS_Interval
  <2> QED BY <2>2, <1>1
<1>5. Cardinality(P) <= Cardinality(I)
  BY <1>3, <1>4, FS_Injection
<1>6. Cardinality(P) \in Nat
  BY FS_CardinalityType
<1> QED BY <1>4, <1>5, <1>6

(* A frame of a flow that gave nothing up: the expected one, a known one or  *)
(* one to keep, for which there is room.                                     *)
LEMMA FrameKnown ==
  ASSUME SpanFits, NEW st, StateOK(st), NEW A, NEW e, NEW lo, Gapless(st, A, e, lo),
         NEW fr, FrameOf(fr, lo), fr.seq # st.expected
  PROVE  /\ Known(st, fr) => fr.n \in A
         /\ ~Known(st, fr) => fr.n > e /\ \A p \in st.pending : p.n # fr.n /\ p # Pair(fr)
<1>1. /\ FlowModulus \in Nat \ {0} /\ FlowModulus \div 2 \in Nat /\ 2 * (FlowModulus \div 2) = FlowModulus
      /\ FlowSends \in Nat /\ FlowSends < FlowModulus \div 2
      /\ e \in Nat /\ lo \in Nat /\ lo <= e /\ Place(st, e, lo)
  BY PlaceFacts DEF Gapless
<1>2. PICK n, M, H : n = fr.n /\ M = FlowModulus /\ H = FlowModulus \div 2
  OBVIOUS
<1>3. n \in Nat /\ lo <= n /\ n < lo + FlowSends /\ fr.seq = n % M
  BY <1>2 DEF FrameOf, Frames
<1>4. /\ n % M = st.expected => n = e
      /\ IsForward(n % M, st.expected) => n > e
      /\ n > e /\ n - e < H => IsForward(n % M, st.expected)
  BY <1>1, <1>2, <1>3, FrameIn
<1>5. n # e
  <2>1. st.expected = e % M
    BY <1>1, <1>2 DEF Place
  <2> QED BY <2>1, <1>3
<1>6. n - e < H
  BY <1>1, <1>2, <1>3
<1>7. IsForward(fr.seq, st.expected) <=> n > e
  BY <1>3, <1>4, <1>6
<1>8. \A p \in st.pending : p.seq = fr.seq <=> p.n = n
  <2> SUFFICES ASSUME NEW p \in st.pending PROVE p.seq = fr.seq <=> p.n = n
    OBVIOUS
  <2>1. PICK m : m = p.n
    OBVIOUS
  <2>2. m \in Nat /\ p.seq = m % M /\ lo <= m /\ m < lo + FlowSends
    BY <2>1, <1>1, <1>2, PendingNat DEF Place
  <2>3. m \in Int /\ n \in Int /\ m - n < M /\ n - m < M
    BY <2>2, <1>1, <1>2, <1>3
  <2>4. m % M = n % M => m = n
    BY <2>3, <1>1, <1>2, ModApart
  <2> QED BY <2>1, <2>2, <2>4, <1>3
<1>9. Known(st, fr) <=> ~(n > e) \/ \E p \in st.pending : p.n = n
  BY <1>7, <1>8 DEF Known
<1>10. ~(n > e) => n \in 0 .. e - 1
  BY <1>1, <1>3, <1>5
<1>11. Pair(fr).n = n
  BY <1>2 DEF Pair
<1> QED BY <1>2, <1>9, <1>10, <1>11 DEF Gapless

(* push_at for a flow that gave nothing up, alone in the table: it gives     *)
(* nothing up.                                                               *)
LEMMA PushGapless ==
  ASSUME SpanFits, MaxPerFlow <= MaxTotal, now = 0, NEW w0, Work(w0, 0), w0.out = <<>>,
         NEW A, NEW e, NEW lo, Gapless(w0.state, A, e, lo),
         NEW fr, FrameOf(fr, lo), NEW C \in Nat, fr.n < C, A \subseteq 0 .. C - 1,
         C <= (e + MaxPerFlow) + 1
  PROVE  LET w == PushAt(w0, fr)
         IN  /\ w.out \in Seq(Nat)
             /\ Gapless(w.state, A \cup {fr.n}, e + Len(w.out), lo)
<1>1. PICK w, r : w = Expire(w0) /\ r = PushAt(w0, fr)
  OBVIOUS
<1>2. PICK v : v = MakeRoom(w)
  OBVIOUS
<1>3. /\ FlowTypes /\ 0 \in Nat /\ now \in Nat /\ MaxPerFlow \in Nat \ {0} /\ MaxTotal \in Nat
      /\ FlowModulus \in Nat \ {0} /\ Frames(fr) /\ fr.n \in Nat
  BY DEF SpanFits, FlowTypes, FrameOf, Frames
<1>4. Work(w, 0) /\ w.state = w0.state /\ w.out = <<>>
  BY <1>1, <1>3, ExpireIdle
<1>5. /\ StateOK(w.state) /\ Gapless(w.state, A, e, lo) /\ Place(w.state, e, lo) /\ lo <= e
      /\ A = (0 .. e - 1) \cup {p.n : p \in w.state.pending}
      /\ \A p \in w.state.pending : p.n > e /\ p.n \in Nat
      /\ w.total = 0 + Cardinality(w.state.pending) /\ Cardinality(w.state.pending) \in Nat
  BY <1>3, <1>4, WorkFacts, PendingNat DEF Gapless
<1>6. e \in Nat /\ lo \in Nat
  BY <1>5, PlaceFacts
<1>7. r = IF fr.seq = w.state.expected THEN InOrder(w, fr)
          ELSE IF Known(w.state, fr) THEN w
          ELSE IF v.total = MaxTotal /\ v.state.pending = {} THEN Jumped(v, fr)
          ELSE Store(v, fr)
  BY <1>1, <1>2, PushIs, Zenon
<1>8. CASE fr.seq = w.state.expected
  <2>1. PICK n, t, d, q : /\ n = fr.n /\ t = Taken(w) /\ d = DrainContiguous(t) /\ q = DrainRun(t)
    OBVIOUS
  <2>2. /\ n \in Nat /\ lo <= n /\ n < lo + FlowSends /\ n % FlowModulus = w.state.expected
    BY <2>1, <1>8 DEF FrameOf, Frames
  <2>3. n = e
    BY <2>2, <1>5, FrameIn
  <2>4. StateOK(t) /\ t.pending = w.state.pending /\ t.expected = (w.state.expected + 1) % FlowModulus
    BY <2>1, <1>3, <1>4, TakenShape
  <2>5. t.expected = (n + 1) % FlowModulus
    BY <2>2, <2>4, <1>3, ModNext
  <2>6. Place(t, n + 1, lo)
    <3>1. e <= n /\ t.pending \subseteq w.state.pending /\ \A p \in w.state.pending : p.n \in Nat
      BY <2>3, <2>4, <1>5, <1>6
    <3> QED BY <3>1, <2>2, <2>5, <1>5, PlaceMoved
  <2>7. PICK b, B : b = n + 1 /\ B = A \cup {n}
    OBVIOUS
  <2>8. b \in Nat /\ lo <= b /\ \A p \in t.pending : p.n >= b
    BY <2>2, <2>3, <2>4, <2>7, <1>5, <1>6
  <2>9. 0 .. b - 1 = (0 .. e - 1) \cup {n}
    BY <2>3, <2>7, <1>6
  <2>10. B = (0 .. b - 1) \cup {p.n : p \in t.pending}
    BY <2>4, <2>7, <2>9, <1>5
  <2>11. q \in Nat /\ Gapless(d.state, B, b + q, lo) /\ d.out \in Seq(Nat) /\ Len(d.out) = q
    BY <2>1, <2>4, <2>6, <2>7, <2>8, <2>10, DrainGapless
  <2>12. r = InOrder(w, fr)
    BY <1>7, <1>8, Zenon
  <2>13. r.state = d.state /\ r.out = Append(<<>>, n) \o d.out
    BY <2>1, <2>12, <1>3, <1>4, InOrderShape
  <2>14. r.out \in Seq(Nat) /\ Len(r.out) = 1 + q
    BY <2>2, <2>11, <2>13
  <2>15. b + q = e + Len(r.out)
    BY <2>3, <2>7, <2>11, <2>14, <1>6
  <2> QED BY <2>1, <2>7, <2>11, <2>13, <2>14, <2>15, <1>1
<1>9. CASE fr.seq # w.state.expected /\ Known(w.state, fr)
  <2>1. r = w
    BY <1>7, <1>9, Zenon
  <2>2. fr.n \in A
    BY <1>5, <1>9, FrameKnown
  <2>3. A \cup {fr.n} = A
    BY <2>2
  <2>4. r.out = <<>> /\ e + Len(<<>>) = e /\ <<>> \in Seq(Nat)
    BY <2>1, <1>4, <1>6
  <2>5. e + Len(r.out) = e /\ r.out \in Seq(Nat)
    BY <2>4
  <2> QED BY <2>1, <2>3, <2>5, <1>1, <1>5
<1>10. CASE fr.seq # w.state.expected /\ ~Known(w.state, fr)
  <2>1. PICK n, P : n = fr.n /\ P = w.state.pending
    OBVIOUS
  <2>2. n \in Nat /\ n > e /\ n < C /\ \A p \in P : p.n # n /\ p # Pair(fr)
    BY <2>1, <1>3, <1>5, <1>10, FrameKnown
  <2>3. Pair(fr) \notin P /\ Pair(fr).n = n /\ Pair(fr).seq = fr.seq
    BY <2>1, <2>2 DEF Pair
  <2>4. Cardinality(P) + 1 <= MaxPerFlow
    <3>1. PICK Q : Q = P \cup {Pair(fr)}
      OBVIOUS
    <3>2. IsFiniteSet(P) /\ IsFiniteSet(Q) /\ Cardinality(Q) = Cardinality(P) + 1
      <4>1. IsFiniteSet(P)
        BY <2>1, <1>5 DEF StateOK
      <4> QED BY <4>1, <3>1, <2>3, FS_AddElement
    <3>3. \A p \in P : p.n \in Nat /\ p.n > e /\ p.n <= C - 1
      <4>1. \A p \in P : p.n \in 0 .. C - 1
        BY <2>1, <1>5
      <4> QED BY <4>1, <2>1, <1>5
    <3>4. PICK a, b : a = e + 1 /\ b = C - 1
      OBVIOUS
    <3>5. a \in Nat /\ b \in Nat /\ a <= b + 1
      BY <3>4, <2>2, <1>6
    <3>6. \A p \in Q : p.n \in Nat /\ a <= p.n /\ p.n <= b
      <4> SUFFICES ASSUME NEW p \in Q PROVE p.n \in Nat /\ a <= p.n /\ p.n <= b
        OBVIOUS
      <4>1. CASE p \in P
        BY <4>1, <3>3, <3>4, <1>6
      <4>2. CASE p = Pair(fr)
        BY <4>2, <3>4, <2>2, <2>3, <1>6
      <4> QED BY <4>1, <4>2, <3>1
    <3>7. \A p, q \in Q : p.n = q.n => p = q
      <4>1. \A p, q \in P : p.n = q.n => p = q
        BY <2>1, <1>5, SameFrame
      <4> QED BY <4>1, <3>1, <2>2, <2>3
    <3>8. Cardinality(Q) <= (b - a) + 1
      BY <3>2, <3>5, <3>6, <3>7, FramesBetween
    <3> QED BY <3>2, <3>4, <3>8, <2>1, <1>3, <1>5, <1>6
  <2>5. v = w
    <3>1. Cardinality(P) # MaxPerFlow /\ w.total # MaxTotal
      BY <2>1, <2>4, <1>3, <1>5
    <3>2. RoomOne(w) = w
      BY <3>1, <2>1 DEF RoomOne
    <3>3. RoomTwo(w) = w
      BY <3>1, Zenon DEF RoomTwo
    <3> QED BY <3>2, <3>3, <1>2, RoomIs
  <2>6. r = Store(w, fr)
    <3>1. w.total # MaxTotal
      BY <2>1, <2>4, <1>3, <1>5
    <3> QED BY <3>1, <2>5, <1>7, <1>10, Zenon
  <2>7. PICK x, t : x = Added(w, fr) /\ t = Timed(x)
    OBVIOUS
  <2>8. /\ Work(x, 0) /\ x.total = w.total + 1 /\ x.state.pending = P \cup {Pair(fr)}
        /\ x.state.expected = w.state.expected /\ x.out = <<>>
    BY <2>1, <2>3, <2>7, <1>3, <1>4, AddedShape
  <2>9. Keep(x) = x
    <3>1. ~(x.total > MaxTotal)
      BY <2>1, <2>4, <2>8, <1>3, <1>5
    <3> QED BY <3>1 DEF Keep
  <2>10. /\ Work(t, 0) /\ t.out = <<>> /\ t.state.pending = P \cup {Pair(fr)}
         /\ t.state.expected = w.state.expected
    BY <2>7, <2>8, <1>3, TimedShape
  <2>11. r = Expire(t)
    BY <2>6, <2>7, <2>9, StoreIs
  <2>12. r.state = t.state /\ r.out = <<>>
    BY <2>10, <2>11, <1>3, ExpireIdle
  <2>13. Place(r.state, e, lo)
    <3>1. n - e < FlowModulus \div 2
      <4>1. fr.seq = n % FlowModulus /\ lo <= n /\ n < lo + FlowSends
        BY <2>1 DEF FrameOf
      <4>2. IsForward(n % FlowModulus, w.state.expected)
        BY <4>1, <1>10, Zenon DEF Known
      <4> QED BY <4>1, <4>2, <2>2, <1>5, FrameIn
    <3>2. \A p \in r.state.pending :
            /\ p.seq = p.n % FlowModulus /\ lo <= p.n /\ p.n < lo + FlowSends
            /\ p.n - e < FlowModulus \div 2
      <4> SUFFICES ASSUME NEW p \in r.state.pending
                   PROVE  /\ p.seq = p.n % FlowModulus /\ lo <= p.n /\ p.n < lo + FlowSends
                          /\ p.n - e < FlowModulus \div 2
        OBVIOUS
      <4>1. CASE p \in P
        BY <4>1, <2>1, <1>5 DEF Place
      <4>2. CASE p = Pair(fr)
        BY <4>2, <3>1, <2>1, <2>3 DEF FrameOf
      <4> QED BY <4>1, <4>2, <2>10, <2>12
    <3> QED BY <3>2, <2>10, <2>12, <1>5 DEF Place
  <2>14. A \cup {n} = (0 .. e - 1) \cup {p.n : p \in r.state.pending}
    <3>1. {p.n : p \in P \cup {Pair(fr)}} = {p.n : p \in P} \cup {n}
      BY <2>3
    <3> QED BY <3>1, <2>1, <2>10, <2>12, <1>5
  <2>15. \A p \in r.state.pending : p.n > e
    BY <2>1, <2>2, <2>3, <2>10, <2>12, <1>5
  <2>16. Gapless(r.state, A \cup {n}, e, lo)
    BY <2>13, <2>14, <2>15, <1>5 DEF Gapless
  <2>17. <<>> \in Seq(Nat) /\ e + Len(<<>>) = e
    BY <1>6
  <2>18. r.out \in Seq(Nat) /\ e + Len(r.out) = e
    BY <2>12, <2>17
  <2> QED BY <2>1, <2>16, <2>18, <1>1
<1> QED BY <1>8, <1>9, <1>10

(* When the paths only reorder: one flow, time stands still, and the flow    *)
(* has given nothing up.                                                     *)
Fed(k, lo) ==
  /\ 0 .. (Counted(k) - MaxPerFlow) - 2 \subseteq Get(arrived, k, {})
  /\ k \notin DOMAIN flows => lo = 0
  /\ k \in DOMAIN flows => /\ out[k] \in Seq(Nat) /\ arrived[k] \subseteq 0 .. Counted(k) - 1
                           /\ Gapless(flows[k], arrived[k], Len(out[k]), lo)

FillInv ==
  /\ HoldInv /\ SeqInv /\ DOMAIN arrived = DOMAIN flows /\ DOMAIN out = DOMAIN flows
  /\ lossless => /\ now = 0 /\ (\A j, k \in DOMAIN flowSent : j = k)
                 /\ DOMAIN flows \subseteq DOMAIN flowSent
                 /\ \A k \in Keys : \E lo \in 0 .. FlowModulus - 1 : Stamped(k, lo) /\ Fed(k, lo)

(* The completeness invariant holds initially.                               *)
LEMMA FillInit ==
  ASSUME SpanFits, FlowInit
  PROVE  FillInv
<1>1. FlowTypes /\ FlowModulus \in Nat \ {0} /\ MaxPerFlow \in Nat \ {0} /\ 0 \in 0 .. FlowModulus - 1
  BY DEF SpanFits, FlowTypes
<1>2. HoldInv /\ SeqInv /\ net = {} /\ sends = 0 /\ now = 0
  BY <1>1, HoldInit, SeqInit
<1>3. (0 .. (0 - MaxPerFlow) - 2) = {}
  BY <1>1
<1>4. ASSUME NEW k, k \notin DOMAIN flowSent, k \notin DOMAIN flows PROVE Stamped(k, 0) /\ Fed(k, 0)
  <2>1. Counted(k) = 0
    BY <1>4 DEF Counted, Get
  <2>2. 0 .. (Counted(k) - MaxPerFlow) - 2 \subseteq Get(arrived, k, {})
    BY <2>1, <1>3
  <2> QED BY <2>1, <2>2, <1>1, <1>2, <1>4 DEF Stamped, Fed
<1>5. CASE DOMAIN flowSent = {} /\ DOMAIN flows = {} /\ DOMAIN out = {} /\ DOMAIN arrived = {}
  BY <1>1, <1>2, <1>4, <1>5 DEF FillInv
<1>6. ASSUME NEW f \in Flows, NEW b \in 1 .. FlowModulus - 1, NEW k \in Keys,
             DOMAIN flowSent = {k}, flowSent[k] = b, DOMAIN out = {k},
             DOMAIN arrived = {k}, arrived[k] = 0 .. b - 1,
             out[k] = [i \in 1 .. b |-> i - 1],
             DOMAIN flows = {k}, flows[k].expected = b, flows[k].pending = {}
      PROVE  FillInv
  <2>1. /\ b \in Nat /\ b \in 0 .. FlowModulus - 1 /\ Place(flows[k], b, b)
        /\ Rises(out[k], 0, b) /\ Len(out[k]) = b
    BY <1>1, <1>6, FirstPlace
  <2>2. Counted(k) = b /\ b <= b + sends /\ b <= b
    BY <2>1, <1>2, <1>6 DEF Counted, Get
  <2>3. Stamped(k, b)
    BY <2>1, <2>2, <1>2 DEF Stamped
  <2>4. Gapless(flows[k], arrived[k], Len(out[k]), b)
    <3>1. {p.n : p \in flows[k].pending} = {}
      BY <1>6
    <3>2. arrived[k] = (0 .. b - 1) \cup {p.n : p \in flows[k].pending}
      BY <3>1, <1>6
    <3>3. Gapless(flows[k], arrived[k], b, b)
      BY <3>2, <2>1, <2>2, <1>6 DEF Gapless
    <3> QED BY <3>3, <2>1
  <2>5. Fed(k, b)
    <3>1. Get(arrived, k, {}) = 0 .. b - 1
      BY <1>6 DEF Get
    <3>2. 0 .. (Counted(k) - MaxPerFlow) - 2 \subseteq 0 .. b - 1
      BY <2>1, <2>2, <1>1
    <3>3. out[k] \in Seq(Nat) /\ arrived[k] \subseteq 0 .. Counted(k) - 1
      BY <2>1, <2>2, <1>6 DEF Rises
    <3> QED BY <3>1, <3>2, <3>3, <2>4, <1>6 DEF Fed
  <2>6. \A j \in Keys : \E lo \in 0 .. FlowModulus - 1 : Stamped(j, lo) /\ Fed(j, lo)
    <3> SUFFICES ASSUME NEW j \in Keys
                 PROVE  \E lo \in 0 .. FlowModulus - 1 : Stamped(j, lo) /\ Fed(j, lo)
      OBVIOUS
    <3>1. CASE j = k
      BY <3>1, <2>1, <2>3, <2>5
    <3>2. CASE j # k
      BY <3>2, <1>1, <1>4, <1>6
    <3> QED BY <3>1, <3>2
  <2> QED BY <2>6, <1>2, <1>6 DEF FillInv
<1> QED
  <2>1. \/ DOMAIN flowSent = {} /\ DOMAIN flows = {} /\ DOMAIN out = {} /\ DOMAIN arrived = {}
        \/ \E f \in Flows, b \in 1 .. FlowModulus - 1, k \in Keys :
             /\ DOMAIN flowSent = {k} /\ flowSent[k] = b /\ DOMAIN out = {k}
             /\ DOMAIN arrived = {k} /\ arrived[k] = 0 .. b - 1
             /\ out[k] = [i \in 1 .. b |-> i - 1]
             /\ DOMAIN flows = {k} /\ flows[k].expected = b /\ flows[k].pending = {}
    BY <1>1, FirstFlow, Zenon
  <2> QED BY <2>1, <1>5, <1>6

(* Stamping a packet keeps the completeness invariant.                       *)
LEMMA FillSequencer ==
  ASSUME SpanFits, FillInv, NEW f \in Flows, SequencerNext(f)
  PROVE  FillInv'
<1>1. FlowTypes /\ HoldInv /\ SeqInv /\ MaxPerFlow \in Nat
  BY DEF SpanFits, FlowTypes, FillInv
<1>2. HoldInv'
  BY <1>1, HoldSequencer
<1>3. PICK k \in Keys :
           /\ SeqInv'
           /\ Counted(k) \in Nat /\ Counted(k)' = Counted(k) + 1
           /\ \A j : j # k => Counted(j)' = Counted(j)
           /\ DOMAIN flowSent' = DOMAIN flowSent \cup {k}
           /\ flows' = flows /\ arrived' = arrived /\ out' = out /\ lossless' = lossless /\ now' = now
           /\ lossless => /\ DOMAIN flowSent \subseteq {k}
                          /\ 0 .. Counted(k) - MaxPerFlow - 1 \subseteq Get(arrived, k, {})
  BY <1>1, SequencerStep
<1>4. ASSUME lossless
      PROVE  /\ now' = 0 /\ (\A i, j \in DOMAIN flowSent' : i = j)
             /\ DOMAIN flows' \subseteq DOMAIN flowSent'
             /\ \A j \in Keys : \E lo \in 0 .. FlowModulus - 1 : Stamped(j, lo)' /\ Fed(j, lo)'
  <2>1. /\ now = 0 /\ DOMAIN flows \subseteq DOMAIN flowSent
        /\ \A j \in Keys : \E lo \in 0 .. FlowModulus - 1 : Stamped(j, lo) /\ Fed(j, lo)
    BY <1>4 DEF FillInv
  <2>2. /\ DOMAIN flowSent \subseteq {k}
        /\ 0 .. Counted(k) - MaxPerFlow - 1 \subseteq Get(arrived, k, {})
    BY <1>3, <1>4
  <2>3. ASSUME NEW j \in Keys
        PROVE  \E lo \in 0 .. FlowModulus - 1 : Stamped(j, lo)' /\ Fed(j, lo)'
    <3>1. PICK lo \in 0 .. FlowModulus - 1 : Stamped(j, lo) /\ Fed(j, lo)
      BY <2>1
    <3>2. Stamped(j, lo)'
      BY <3>1, <1>1, StampedStep
    <3>3. PICK c : c = Counted(j)'
      OBVIOUS
    <3>4. /\ 0 .. (c - MaxPerFlow) - 2 \subseteq Get(arrived, j, {})
          /\ 0 .. Counted(j) - 1 \subseteq 0 .. c - 1
      <4>1. CASE j = k
        <5>1. c = Counted(k) + 1 /\ Counted(k) \in Nat
          BY <4>1, <3>3, <1>3
        <5>2. (c - MaxPerFlow) - 2 = Counted(k) - MaxPerFlow - 1
          BY <5>1, <1>1
        <5> QED BY <5>1, <5>2, <4>1, <2>2
      <4>2. CASE j # k
        <5>1. c = Counted(j)
          BY <4>2, <3>3, <1>3
        <5> QED BY <5>1, <3>1 DEF Fed
      <4> QED BY <4>1, <4>2
    <3>5. /\ j \notin DOMAIN flows => lo = 0
          /\ j \in DOMAIN flows => /\ out[j] \in Seq(Nat) /\ arrived[j] \subseteq 0 .. Counted(j) - 1
                                   /\ Gapless(flows[j], arrived[j], Len(out[j]), lo)
      BY <3>1 DEF Fed
    <3>6. j \in DOMAIN flows => arrived[j] \subseteq 0 .. c - 1
      BY <3>4, <3>5
    <3>7. Get(arrived, j, {})' = Get(arrived, j, {})
      BY <1>3 DEF Get
    <3>8. Fed(j, lo)'
      BY <3>3, <3>4, <3>5, <3>6, <3>7, <1>3 DEF Fed, Gapless, Place
    <3> QED BY <3>2, <3>8
  <2> QED BY <2>1, <2>2, <2>3, <1>3
<1>5. Keys' = Keys
  BY DEF Keys
<1>6. DOMAIN arrived' = DOMAIN flows' /\ DOMAIN out' = DOMAIN flows'
  BY <1>3 DEF FillInv
<1>7. lossless' => lossless
  BY <1>3
<1> QED BY <1>2, <1>3, <1>4, <1>5, <1>6, <1>7 DEF FillInv

(* An arrival keeps the completeness invariant: there is always room for it. *)
LEMMA FillArrive ==
  ASSUME SpanFits, MaxPerFlow <= MaxTotal, FillInv, NEW fr, ArriveFrame(fr)
  PROVE  FillInv'
<1>0. /\ FlowTypes /\ HoldInv /\ SeqInv /\ DOMAIN arrived = DOMAIN flows /\ DOMAIN out = DOMAIN flows
      /\ MaxPerFlow \in Nat \ {0} /\ MaxTracked \in Nat \ {0}
  BY DEF SpanFits, FlowTypes, FillInv
<1>1. PICK k, w : k = fr.key /\ w = PushAt(Start(k), fr)
  OBVIOUS
<1>2. /\ fr \in net /\ sender' = sender /\ sequences' = sequences /\ sends' = sends
      /\ flowSent' = flowSent /\ net' = net /\ now' = now /\ lossless' = lossless
  BY <1>1, ArriveIs, Zenon
<1>3. k \in Keys /\ Frames(fr) /\ sends \in Nat /\ sends <= FlowSends
  BY <1>0, <1>1, <1>2 DEF HoldInv, SequencerOK, FlowIds, FlowTypes
<1>4. /\ DOMAIN out' = DOMAIN flows' /\ DOMAIN arrived' = DOMAIN flows' /\ k \in DOMAIN flows'
      /\ ~TableFull(k) =>
           /\ DOMAIN flows' = DOMAIN flows \cup {k}
           /\ flows'[k] = w.state
           /\ out'[k] = Get(out, k, <<>>) \o w.out
           /\ arrived'[k] = Get(arrived, k, {}) \cup {fr.n}
           /\ \A j \in DOMAIN flows : j # k =>
                flows'[j] = flows[j] /\ out'[j] = out[j] /\ arrived'[j] = arrived[j]
  <2>0. PICK full : full = TableFull(k)
    OBVIOUS
  <2>1. /\ flows' = Put(Table(k), k, w.state)
        /\ out' = Put(History(k), k, Get(History(k), k, <<>>) \o w.out)
        /\ arrived' = IF full THEN Put(NoFlows, k, {fr.n})
                      ELSE Put(arrived, k, Get(arrived, k, {}) \cup {fr.n})
    BY <1>1, <2>0, ArriveIs, Zenon
  <2>2. /\ Table(k) = IF full THEN NoFlows ELSE flows
        /\ History(k) = IF full THEN NoFlows ELSE out
    BY <2>0, Zenon DEF Table, History
  <2>3. DOMAIN arrived = DOMAIN flows /\ DOMAIN out = DOMAIN flows
    BY DEF FillInv
  <2>4. CASE full
    <3>1. DOMAIN Table(k) = {} /\ DOMAIN History(k) = {}
      BY <2>2, <2>4, EmptyTable
    <3>2. DOMAIN flows' = {k} /\ DOMAIN out' = {k} /\ DOMAIN arrived' = {k}
      BY <3>1, <2>1, <2>4, EmptyTable DEF Put
    <3> QED BY <3>2, <2>0, <2>4
  <2>5. CASE ~full
    <3>1. PICK x, y, z, s, o, a : /\ x = flows' /\ y = out' /\ z = arrived' /\ s = w.state
                                  /\ o = Get(out, k, <<>>) \o w.out
                                  /\ a = Get(arrived, k, {}) \cup {fr.n}
      OBVIOUS
    <3>2. x = Put(flows, k, s) /\ y = Put(out, k, o) /\ z = Put(arrived, k, a)
      BY <3>1, <2>1, <2>2, <2>5
    <3>3. DOMAIN x = DOMAIN flows \cup {k} /\ x[k] = s /\ \A j \in DOMAIN flows : j # k => x[j] = flows[j]
      BY <3>2 DEF Put
    <3>4. DOMAIN y = DOMAIN flows \cup {k} /\ y[k] = o /\ \A j \in DOMAIN flows : j # k => y[j] = out[j]
      BY <3>2, <2>3 DEF Put
    <3>5. DOMAIN z = DOMAIN flows \cup {k} /\ z[k] = a /\ \A j \in DOMAIN flows : j # k => z[j] = arrived[j]
      BY <3>2, <2>3 DEF Put
    <3> QED BY <3>1, <3>3, <3>4, <3>5, <2>0
  <2> QED BY <2>4, <2>5
<1>5. HoldInv' /\ SeqInv'
  <2>1. HoldInv'
    BY <1>0, HoldArrive
  <2>2. SeqInv'
    BY <1>0, <1>2 DEF SeqInv
  <2> QED BY <2>1, <2>2
<1>6. ASSUME lossless
      PROVE  /\ now' = 0 /\ (\A i, j \in DOMAIN flowSent' : i = j)
             /\ DOMAIN flows' \subseteq DOMAIN flowSent'
             /\ \A j \in Keys : \E lo \in 0 .. FlowModulus - 1 : Stamped(j, lo)' /\ Fed(j, lo)'
  <2>1. /\ now = 0 /\ (\A i, j \in DOMAIN flowSent : i = j)
        /\ DOMAIN flows \subseteq DOMAIN flowSent
        /\ \A j \in Keys : \E lo \in 0 .. FlowModulus - 1 : Stamped(j, lo) /\ Fed(j, lo)
    BY <1>6 DEF FillInv
  <2>2. PICK lo \in 0 .. FlowModulus - 1 : Stamped(k, lo) /\ Fed(k, lo)
    BY <2>1, <1>3
  <2>3. PICK C, n : C = Counted(k) /\ n = fr.n
    OBVIOUS
  <2>4. /\ C \in Nat /\ n \in Nat /\ lo \in Nat /\ lo <= n /\ n < C /\ C <= lo + sends
        /\ fr.seq = n % FlowModulus
    <3>1. C \in Nat
      BY <2>3, <1>0 DEF Counted, Get, HoldInv, SequencerOK
    <3>2. /\ fr.seq = n % FlowModulus /\ lo <= n /\ n < C /\ C <= lo + sends
      BY <2>2, <2>3, <1>1, <1>2 DEF Stamped
    <3> QED BY <3>1, <3>2, <2>3, <1>0, <1>3 DEF Frames, FlowTypes
  <2>5. FrameOf(fr, lo)
    <3>1. n < lo + FlowSends
      BY <2>4, <1>0, <1>3 DEF FlowTypes
    <3> QED BY <3>1, <2>3, <2>4, <1>3 DEF FrameOf
  <2>6. k \in DOMAIN flowSent /\ DOMAIN flows \subseteq {k}
    <3>1. k \in DOMAIN flowSent
      BY <2>3, <2>4 DEF Counted, Get
    <3> QED BY <3>1, <2>1
  <2>7. ~TableFull(k)
    <3> SUFFICES ASSUME TableFull(k) PROVE FALSE
      OBVIOUS
    <3>1. Cardinality(DOMAIN flows) = MaxTracked /\ k \notin DOMAIN flows
      BY <1>1 DEF TableFull
    <3>2. DOMAIN flows = {}
      BY <3>1, <2>6
    <3> QED BY <3>1, <3>2, <1>0, FS_EmptySet
  <2>8. PICK s, g, A : /\ s = Get(flows, k, NewState) /\ g = Get(out, k, <<>>)
                       /\ A = Get(arrived, k, {})
    OBVIOUS
  <2>9. /\ g \in Seq(Nat) /\ Gapless(s, A, Len(g), lo) /\ A \subseteq 0 .. C - 1
    <3>1. CASE k \in DOMAIN flows
      <4>1. s = flows[k] /\ g = out[k] /\ A = arrived[k]
        BY <3>1, <2>8, <1>0 DEF Get
      <4> QED BY <4>1, <3>1, <2>2, <2>3 DEF Fed
    <3>2. CASE k \notin DOMAIN flows
      <4>1. s = NewState /\ g = <<>> /\ A = {} /\ lo = 0
        BY <3>2, <2>2, <2>8, <1>0 DEF Get, Fed
      <4>2. NewState.pending = {} /\ Place(NewState, 0, lo)
        BY <4>1, <2>1, <1>0, NewStateOK, NewPlace
      <4>3. {p.n : p \in s.pending} = {} /\ 0 .. 0 - 1 = {} /\ lo <= 0
        BY <4>1, <4>2
      <4>4. Gapless(s, A, 0, lo)
        BY <4>1, <4>2, <4>3 DEF Gapless
      <4>5. <<>> \in Seq(Nat) /\ Len(<<>>) = 0
        OBVIOUS
      <4> QED BY <4>1, <4>4, <4>5
    <3> QED BY <3>1, <3>2
  <2>10. PICK e : e = Len(g)
    OBVIOUS
  <2>11. e \in Nat /\ C <= (e + MaxPerFlow) + 1
    <3>1. e \in Nat
      BY <2>9, <2>10
    <3>2. 0 .. (C - MaxPerFlow) - 2 \subseteq A
      BY <2>2, <2>3, <2>8 DEF Fed
    <3>3. e \notin A
      <4>1. A = (0 .. e - 1) \cup {p.n : p \in s.pending} /\ \A p \in s.pending : p.n > e
        BY <2>9, <2>10 DEF Gapless
      <4>2. e \notin 0 .. e - 1
        BY <3>1
      <4>3. ASSUME NEW p \in s.pending, e = p.n PROVE FALSE
        <5>1. e > e
          BY <4>1, <4>3
        <5> QED BY <5>1, <3>1
      <4> QED BY <4>1, <4>2, <4>3
    <3>4. e \notin 0 .. (C - MaxPerFlow) - 2
      BY <3>2, <3>3
    <3> QED BY <3>1, <3>4, <2>4, <1>0
  <2>12. Start(k).state = s /\ Start(k).out = <<>> /\ Work(Start(k), 0)
    <3>1. Table(k) = flows
      BY <2>7, <1>1 DEF Table
    <3>2. Start(k).state = s /\ Start(k).out = <<>>
      BY <3>1, <2>8 DEF Start
    <3>3. Others(flows, k) = {}
      BY <2>6 DEF Others
    <3>4. Cardinality(Others(Table(k), k)) = 0
      BY <3>1, <3>3, FS_EmptySet
    <3>5. Work(Start(k), Cardinality(Others(Table(k), k)))
      BY <1>0, <1>3, StartShape
    <3> QED BY <3>2, <3>4, <3>5
  <2>13. w.out \in Seq(Nat) /\ Gapless(w.state, A \cup {n}, e + Len(w.out), lo)
    <3>1. Gapless(Start(k).state, A, e, lo)
      BY <2>9, <2>10, <2>12
    <3>2. fr.n < C
      BY <2>3, <2>4
    <3> QED BY <3>1, <3>2, <2>1, <2>3, <2>4, <2>5, <2>9, <2>11, <2>12, <1>1, PushGapless
  <2>14. /\ DOMAIN flows' = {k} /\ flows'[k] = w.state /\ out'[k] = g \o w.out
         /\ arrived'[k] = A \cup {n}
    BY <2>3, <2>6, <2>7, <2>8, <1>4
  <2>15. g \o w.out \in Seq(Nat) /\ Len(g \o w.out) = e + Len(w.out)
    BY <2>9, <2>10, <2>13
  <2>16. \A j, l : Stamped(j, l)' = Stamped(j, l) /\ Counted(j)' = Counted(j)
    BY <1>2 DEF Stamped, Counted, Get
  <2>17. Fed(k, lo)'
    <3>1. Get(arrived, k, {})' = A \cup {n}
      <4>1. Get(arrived, k, {})' = IF k \in DOMAIN arrived' THEN arrived'[k] ELSE {}
        BY DEF Get
      <4> QED BY <4>1, <2>14, <1>4
    <3>2. 0 .. (C - MaxPerFlow) - 2 \subseteq A
      BY <2>2, <2>3, <2>8 DEF Fed
    <3>3. A \cup {n} \subseteq 0 .. C - 1
      BY <2>4, <2>9
    <3>4. Counted(k)' = C
      BY <2>3, <2>16
    <3>5. Gapless(flows'[k], arrived'[k], Len(out'[k]), lo)
      BY <2>13, <2>14, <2>15
    <3> QED BY <3>1, <3>2, <3>3, <3>4, <3>5, <2>14, <2>15 DEF Fed, Gapless, Place
  <2>18. ASSUME NEW j \in Keys, j # k
         PROVE  \E l \in 0 .. FlowModulus - 1 : Stamped(j, l)' /\ Fed(j, l)'
    <3>1. PICK l \in 0 .. FlowModulus - 1 : Stamped(j, l) /\ Fed(j, l)
      BY <2>1
    <3>2. j \notin DOMAIN flows /\ j \notin DOMAIN flows' /\ j \notin DOMAIN arrived /\ j \notin DOMAIN arrived'
      BY <2>6, <2>14, <2>18, <1>0, <1>4
    <3>3. Get(arrived, j, {}) = {} /\ Get(arrived, j, {})' = {}
      BY <3>2 DEF Get
    <3>4. Fed(j, l)'
      BY <3>1, <3>2, <3>3, <2>16 DEF Fed
    <3> QED BY <3>1, <3>4, <2>16
  <2>19. \A j \in Keys : \E l \in 0 .. FlowModulus - 1 : Stamped(j, l)' /\ Fed(j, l)'
    <3> SUFFICES ASSUME NEW j \in Keys
                 PROVE  \E l \in 0 .. FlowModulus - 1 : Stamped(j, l)' /\ Fed(j, l)'
      OBVIOUS
    <3>1. CASE j = k
      <4>1. Stamped(k, lo)'
        BY <2>2, <2>16
      <4> QED BY <4>1, <3>1, <2>17
    <3>2. CASE j # k
      BY <3>2, <2>18
    <3> QED BY <3>1, <3>2
  <2> QED BY <2>1, <2>6, <2>14, <2>19, <1>2
<1>7. Keys' = Keys
  BY DEF Keys
<1>8. lossless' => lossless
  BY <1>2
<1> QED BY <1>4, <1>5, <1>6, <1>7, <1>8 DEF FillInv

(* Every step keeps the completeness invariant.                              *)
LEMMA FillNext ==
  ASSUME SpanFits, MaxPerFlow <= MaxTotal, FillInv, [FlowNext]_flowVars
  PROVE  FillInv'
<1>0. /\ FlowTypes /\ HoldInv /\ SeqInv /\ DOMAIN arrived = DOMAIN flows /\ DOMAIN out = DOMAIN flows
      /\ HoldInv'
  BY HoldNext DEF SpanFits, FillInv
<1>1. ASSUME NEW f \in Flows, SequencerNext(f) PROVE FillInv'
  BY <1>1, FillSequencer
<1>2. ASSUME NEW fr \in net, ArriveFrame(fr) PROVE FillInv'
  BY <1>2, FillArrive
<1>3. CASE SequencerNew
  <2>1. /\ sender' = sender + 1 /\ sequences' = NoFlows /\ flowSent' = flowSent
        /\ flows' = flows /\ out' = out /\ arrived' = arrived
    BY <1>3, Zenon DEF SequencerNew, reassembler
  <2>2. ~lossless /\ lossless' = lossless
    BY <1>3, Zenon DEF SequencerNew
  <2>3. SeqInv'
    <3>1. \A k \in DOMAIN flowSent : k.sender \in Nat /\ k.sender <= sender
      BY <1>0 DEF SeqInv, HoldInv, SequencerOK, Keys, FlowTypes
    <3>2. sender \in Nat
      BY <1>0 DEF HoldInv, FlowIds
    <3> QED BY <3>1, <3>2, <2>1, EmptyTable DEF SeqInv
  <2> QED BY <2>1, <2>2, <2>3, <1>0 DEF FillInv
<1>4. CASE ReassemblerNew
  <2>1. /\ sender' = sender /\ sequences' = sequences /\ flowSent' = flowSent
        /\ flows' = NoFlows /\ out' = NoFlows /\ arrived' = NoFlows
        /\ ~lossless /\ lossless' = lossless
    BY <1>4, Zenon DEF ReassemblerNew, sequencer
  <2>2. SeqInv'
    BY <1>0, <2>1 DEF SeqInv
  <2> QED BY <2>1, <2>2, <1>0 DEF FillInv
<1>5. CASE Tick
  <2>1. /\ sender' = sender /\ sequences' = sequences /\ flowSent' = flowSent
        /\ flows' = flows /\ out' = out /\ arrived' = arrived
        /\ ~lossless /\ lossless' = lossless
    BY <1>5, Zenon DEF Tick, sequencer, reassembler
  <2>2. SeqInv'
    BY <1>0, <2>1 DEF SeqInv
  <2> QED BY <2>1, <2>2, <1>0 DEF FillInv
<1>6. CASE UNCHANGED flowVars
  <2>1. /\ sender' = sender /\ sequences' = sequences /\ flowSent' = flowSent
        /\ flows' = flows /\ out' = out /\ arrived' = arrived /\ now' = now
        /\ net' = net /\ sends' = sends /\ lossless' = lossless
    BY <1>6, Zenon DEF flowVars
  <2>2. SeqInv'
    BY <1>0, <2>1 DEF SeqInv
  <2>3. \A j, l : Stamped(j, l)' = Stamped(j, l) /\ Fed(j, l)' = Fed(j, l)
    BY <2>1 DEF Stamped, Counted, Get, Fed, Gapless, Place
  <2>4. Keys' = Keys
    BY DEF Keys
  <2> QED BY <2>1, <2>2, <2>3, <2>4, <1>0 DEF FillInv
<1> QED BY <1>1, <1>2, <1>3, <1>4, <1>5, <1>6, Zenon DEF FlowNext

(* A flow whose frames were only reordered, and that no deadline or full     *)
(* buffer hurried, is released completely once all its frames have arrived.  *)
(* The per-flow limit is within the limit of the table, as in the code.      *)
THEOREM NothingLost ==
  ASSUME FlowBounds, FlowSends < FlowModulus \div 2, MaxPerFlow <= MaxTotal
  PROVE  FlowSpec => []Complete
<1>0. SpanFits
  BY FlowBoundsTyped DEF SpanFits
<1>1. FlowInit => FillInv
  BY <1>0, FillInit
<1>2. FillInv /\ [FlowNext]_flowVars => FillInv'
  BY <1>0, FillNext
<1>3. FillInv => Complete
  <2> SUFFICES ASSUME FillInv, lossless, NEW k \in DOMAIN arrived, arrived[k] = 0 .. (flowSent[k] - 1)
               PROVE  Len(out[k]) = flowSent[k]
    BY DEF Complete
  <2>1. k \in DOMAIN flows /\ k \in Keys /\ k \in DOMAIN flowSent /\ flowSent[k] \in Nat
    BY DEF FillInv, HoldInv, TableOK, SequencerOK
  <2>2. PICK lo \in 0 .. FlowModulus - 1 : Fed(k, lo)
    BY <2>1 DEF FillInv
  <2>3. PICK e, c : e = Len(out[k]) /\ c = flowSent[k]
    OBVIOUS
  <2>4. e \in Nat /\ c \in Nat /\ Gapless(flows[k], arrived[k], e, lo)
    BY <2>1, <2>2, <2>3 DEF Fed
  <2>5. /\ 0 .. c - 1 = (0 .. e - 1) \cup {p.n : p \in flows[k].pending}
        /\ \A p \in flows[k].pending : p.n > e
    BY <2>3, <2>4 DEF Gapless
  <2>6. e <= c
    <3> SUFFICES ASSUME e > c PROVE FALSE
      BY <2>4
    <3>1. c \in 0 .. e - 1 /\ c \notin 0 .. c - 1
      BY <2>4
    <3> QED BY <3>1, <2>5
  <2>7. ~(e < c)
    <3> SUFFICES ASSUME e < c PROVE FALSE
      OBVIOUS
    <3>1. e \in 0 .. c - 1 /\ e \notin 0 .. e - 1
      BY <2>4
    <3>2. PICK p \in flows[k].pending : p.n = e
      BY <3>1, <2>5
    <3>3. e > e
      BY <3>2, <2>5
    <3> QED BY <3>3, <2>4
  <2> QED BY <2>3, <2>4, <2>6, <2>7
<1> QED BY <1>1, <1>2, <1>3, PTL DEF FlowSpec
==============================================================================
