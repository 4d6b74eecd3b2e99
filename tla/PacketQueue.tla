----------------------------- MODULE PacketQueue -----------------------------
(***************************************************************************)
(* The epoch-tagged packet lane of rust-client/dispatcher.rs: a bounded    *)
(* ArrayQueue shared by many PacketSenders and one PacketReceiver, a tokio *)
(* Notify that parks the receiver, and one atomic word that holds the      *)
(* epoch and the QUEUE_ACTIVE bit.  Every atomic operation of the code is  *)
(* one step here, so senders on other runtime threads interleave with      *)
(* resume, suspend and the destruction of the receiver.                    *)
(***************************************************************************)
EXTENDS Naturals, Sequences, FiniteSets

CONSTANTS Senders,      \* the PacketSender handles that may ever exist
          Capacity,     \* slots of the ArrayQueue
          MaxResumes,   \* bound: resume() calls explored
          InitActive    \* packet_channel(capacity, active)

ASSUME SendersFinite == IsFiniteSet(Senders) /\ Senders # {}
ASSUME CapacityPositive == Capacity \in Nat /\ Capacity >= 1
ASSUME ResumesNat == MaxResumes \in Nat
ASSUME ActiveBool == InitActive \in BOOLEAN

VARIABLES
  queue,      \* ArrayQueue<QueuedPacket>
  epoch,      \* state >> 1
  active,     \* state & QUEUE_ACTIVE
  open,       \* receiver_open
  live,       \* the handles counted by senders
  permit,     \* the permit a notify_one leaves when nobody waits
  woken,      \* how the receiver's Notified future was completed
  rpc,        \* where the receiver is
  spc,        \* where each sender is
  held,       \* the packet each sender is pushing
  cancelled,  \* the CancellationToken given to recv
  resumes,    \* history: resume() calls begun so far
  last        \* history: the packet recv or try_recv returned last

vars == <<queue, epoch, active, open, live, permit, woken, rpc, spc, held,
          cancelled, resumes, last>>
senderVars == <<live, spc, held>>
stateVars == <<epoch, active, resumes>>

\* epoch is the tag the code stores; born is a history field: how many
\* resume() calls had begun when the sender read the state word.
Packet == [epoch : Nat, born : Nat]
NoPacket == [epoch |-> 0, born |-> 0]

Purging == {"resuming", "suspending", "dropping"}
ReceiverPC == {"idle", "first", "senders1", "second", "senders2", "poll", "wait", "gone"}
                \cup Purging
SenderPC == {"idle", "checked", "loaded", "pushed", "released"}

Init ==
  /\ queue = <<>> /\ epoch = 0 /\ active = InitActive /\ open = TRUE
  /\ live \in {{s} : s \in Senders}
  /\ permit = FALSE /\ woken = "no" /\ rpc = "idle"
  /\ spc = [s \in Senders |-> "idle"]
  /\ held = [s \in Senders |-> NoPacket]
  /\ cancelled = FALSE /\ resumes = 0 /\ last = NoPacket

------------------------------------------------------------------------------
(* tokio::sync::Notify, as used with a single waiter.                       *)

NotifyOne ==
  IF rpc = "wait" /\ woken = "no"
  THEN woken' = "one" /\ UNCHANGED permit
  ELSE permit' = TRUE /\ UNCHANGED woken

\* A Notified future sees every notify_waiters after its creation.
NotifyWaiters ==
  /\ woken' = IF rpc \in {"second", "senders2", "poll", "wait"} /\ woken = "no"
              THEN "all" ELSE woken
  /\ UNCHANGED permit

------------------------------------------------------------------------------
(* PacketSender                                                             *)

\* Mutant: send does not look at receiver_open.
SendUnchecked(s) ==
  /\ s \in live /\ spc[s] = "idle"
  /\ spc' = [spc EXCEPT ![s] = "checked"]
  /\ UNCHANGED <<queue, stateVars, open, live, permit, woken, rpc, held, cancelled, last>>

SendCheckOpen(s) ==
  /\ s \in live /\ spc[s] = "idle" /\ open
  /\ spc' = [spc EXCEPT ![s] = "checked"]
  /\ UNCHANGED <<queue, stateVars, open, live, permit, woken, rpc, held, cancelled, last>>

\* An inactive queue refuses the packet: back to the caller.
SendLoadState(s) ==
  /\ spc[s] = "checked"
  /\ IF active
     THEN /\ spc' = [spc EXCEPT ![s] = "loaded"]
          /\ held' = [held EXCEPT ![s] = [epoch |-> epoch, born |-> resumes]]
     ELSE /\ spc' = [spc EXCEPT ![s] = "idle"]
          /\ UNCHANGED held
  /\ UNCHANGED <<queue, stateVars, open, live, permit, woken, rpc, cancelled, last>>

\* Mutant: the push ignores the capacity.
PushedUnbounded(s) == Append(queue, held[s])

Pushed(s) ==
  IF Len(queue) < Capacity THEN Append(queue, held[s])
                           ELSE Append(Tail(queue), held[s])

\* force_send: force_push drops the oldest packet of a full queue.
ForcePush(s) ==
  /\ spc[s] = "loaded"
  /\ queue' = Pushed(s)
  /\ spc' = [spc EXCEPT ![s] = "pushed"]
  /\ UNCHANGED <<stateVars, open, live, permit, woken, rpc, held, cancelled, last>>

\* try_send on a full queue hands the packet back to the caller; with room it
\* pushes exactly as ForcePush does.
TryPushFull(s) ==
  /\ spc[s] = "loaded" /\ Len(queue) = Capacity
  /\ spc' = [spc EXCEPT ![s] = "idle"]
  /\ UNCHANGED <<queue, stateVars, open, live, permit, woken, rpc, held, cancelled, last>>

\* Mutant: the push is not announced.
SendSilently(s) ==
  /\ spc[s] = "pushed"
  /\ spc' = [spc EXCEPT ![s] = "idle"]
  /\ UNCHANGED <<queue, stateVars, open, live, permit, woken, rpc, held, cancelled, last>>

SendNotify(s) ==
  /\ spc[s] = "pushed"
  /\ NotifyOne
  /\ spc' = [spc EXCEPT ![s] = "idle"]
  /\ UNCHANGED <<queue, stateVars, open, live, rpc, held, cancelled, last>>

Clone(s, t) ==
  /\ s \in live /\ t \notin live /\ spc[t] = "idle"
  /\ live' = live \cup {t}
  /\ UNCHANGED <<queue, stateVars, open, permit, woken, rpc, spc, held, cancelled, last>>

\* Drop: fetch_sub, and only the handle that saw 1 goes on to notify_waiters.
DropSender(s) ==
  /\ s \in live /\ spc[s] = "idle"
  /\ live' = live \ {s}
  /\ spc' = IF live = {s} THEN [spc EXCEPT ![s] = "released"] ELSE spc
  /\ UNCHANGED <<queue, stateVars, open, permit, woken, rpc, held, cancelled, last>>

DropNotify(s) ==
  /\ spc[s] = "released"
  /\ NotifyWaiters
  /\ spc' = [spc EXCEPT ![s] = "idle"]
  /\ UNCHANGED <<queue, stateVars, open, live, rpc, held, cancelled, last>>

------------------------------------------------------------------------------
(* PacketReceiver: recv, resume, suspend, drop                              *)

RecvBegin ==
  /\ rpc = "idle" /\ ~cancelled
  /\ rpc' = "first"
  /\ UNCHANGED <<queue, stateVars, open, senderVars, permit, woken, cancelled, last>>

Fresh(p) == active /\ p.epoch = epoch

\* One turn of try_recv_inner: pop, then compare with the state word.  Only
\* the receiver writes that word, so pop and load make one step.
TryRecv(at, next) ==
  /\ rpc = at
  /\ IF queue = <<>>
     THEN rpc' = next /\ UNCHANGED <<queue, last>>
     ELSE /\ queue' = Tail(queue)
          /\ IF Fresh(Head(queue))
             THEN rpc' = "idle" /\ last' = Head(queue)
             ELSE UNCHANGED <<rpc, last>>
  /\ UNCHANGED <<stateVars, open, senderVars, permit, woken, cancelled>>

TryRecv1 == TryRecv("first", "senders1")

\* senders == 0 ends recv; otherwise notify.notified() is created.
CheckSenders1 ==
  /\ rpc = "senders1"
  /\ IF live = {} THEN rpc' = "idle" /\ UNCHANGED woken
                  ELSE rpc' = "second" /\ woken' = "no"
  /\ UNCHANGED <<queue, stateVars, open, senderVars, permit, cancelled, last>>

TryRecv2 == TryRecv("second", "senders2")

CheckSenders2 ==
  /\ rpc = "senders2"
  /\ rpc' = IF live = {} THEN "idle" ELSE "poll"
  /\ UNCHANGED <<queue, stateVars, open, senderVars, permit, woken, cancelled, last>>

\* Mutant: the Notified future is created only when it is awaited.
PollLateNotified ==
  /\ rpc = "poll"
  /\ IF permit THEN rpc' = "first" /\ permit' = FALSE
               ELSE rpc' = "wait" /\ UNCHANGED permit
  /\ woken' = "no"
  /\ UNCHANGED <<queue, stateVars, open, senderVars, cancelled, last>>

\* The biased select! polls the cancellation first, then the Notified future:
\* completed by a notify_waiters since its creation, by a stored permit, or
\* registered as a waiter.
Poll ==
  /\ rpc = "poll" /\ ~cancelled
  /\ \/ woken # "no" /\ rpc' = "first" /\ UNCHANGED permit
     \/ woken = "no" /\ permit /\ rpc' = "first" /\ permit' = FALSE
     \/ woken = "no" /\ ~permit /\ rpc' = "wait" /\ UNCHANGED permit
  /\ UNCHANGED <<queue, stateVars, open, senderVars, woken, cancelled, last>>

Wake ==
  /\ rpc = "wait" /\ woken # "no" /\ ~cancelled
  /\ rpc' = "first"
  /\ UNCHANGED <<queue, stateVars, open, senderVars, permit, woken, cancelled, last>>

\* A dropped Notified that held a notify_one passes it on as a permit.
LeaveWait ==
  /\ rpc' = "idle"
  /\ permit' = (permit \/ (rpc = "wait" /\ woken = "one"))
  /\ UNCHANGED <<queue, stateVars, open, senderVars, woken, cancelled, last>>

RecvCancelled == rpc \in {"poll", "wait"} /\ cancelled /\ LeaveWait

\* The recv future is dropped when another lane wins recv_return_packet's select!.
Abandon == rpc = "wait" /\ LeaveWait

Cancel ==
  /\ ~cancelled /\ cancelled' = TRUE
  /\ UNCHANGED <<queue, stateVars, open, senderVars, permit, woken, rpc, last>>

\* Mutant: resume keeps the previous epoch.
ResumeSameEpoch ==
  /\ rpc = "idle" /\ resumes < MaxResumes
  /\ active' = FALSE /\ resumes' = resumes + 1
  /\ rpc' = "resuming"
  /\ UNCHANGED <<queue, epoch, open, senderVars, permit, woken, cancelled, last>>

ResumeBegin ==
  /\ rpc = "idle" /\ resumes < MaxResumes
  /\ epoch' = epoch + 1 /\ active' = FALSE /\ resumes' = resumes + 1
  /\ rpc' = "resuming"
  /\ UNCHANGED <<queue, open, senderVars, permit, woken, cancelled, last>>

SuspendBegin ==
  /\ rpc = "idle"
  /\ active' = FALSE
  /\ rpc' = "suspending"
  /\ UNCHANGED <<queue, epoch, resumes, open, senderVars, permit, woken, cancelled, last>>

DropReceiver ==
  /\ rpc = "idle"
  /\ open' = FALSE
  /\ rpc' = "dropping"
  /\ UNCHANGED <<queue, stateVars, senderVars, permit, woken, cancelled, last>>

\* purge(): pop until the queue looks empty, while senders go on pushing.
PurgeOne ==
  /\ rpc \in Purging /\ queue # <<>>
  /\ queue' = Tail(queue)
  /\ UNCHANGED <<stateVars, open, senderVars, permit, woken, rpc, cancelled, last>>

PurgeDone ==
  /\ rpc \in Purging /\ queue = <<>>
  /\ rpc' = IF rpc = "dropping" THEN "gone" ELSE "idle"
  /\ active' = IF rpc = "resuming" THEN TRUE ELSE active
  /\ NotifyWaiters
  /\ UNCHANGED <<queue, epoch, resumes, open, senderVars, cancelled, last>>

------------------------------------------------------------------------------
SenderStep(s) ==
  \/ SendCheckOpen(s) \/ SendLoadState(s) \/ ForcePush(s) \/ TryPushFull(s)
  \/ SendNotify(s) \/ DropSender(s) \/ DropNotify(s)

\* What a thread inside a call does next: it never stops halfway.
SenderContinue(s) == SendLoadState(s) \/ ForcePush(s) \/ SendNotify(s) \/ DropNotify(s)
RecvContinue ==
  TryRecv1 \/ CheckSenders1 \/ TryRecv2 \/ CheckSenders2 \/ Poll \/ Wake \/ RecvCancelled
PurgeContinue == PurgeOne \/ PurgeDone

Next ==
  \/ \E s \in Senders : SenderStep(s)
  \/ \E s, t \in Senders : Clone(s, t)
  \/ RecvBegin \/ RecvContinue \/ Abandon \/ Cancel
  \/ ResumeBegin \/ SuspendBegin \/ DropReceiver \/ PurgeContinue

Spec == Init /\ [][Next]_vars

Fairness ==
  /\ WF_vars(RecvContinue) /\ WF_vars(PurgeContinue)
  /\ \A s \in Senders : WF_vars(SenderContinue(s))

FairSpec == Spec /\ Fairness

------------------------------------------------------------------------------
(* Properties                                                               *)

\* Every variable stays in its type and the lane never exceeds its capacity.
TypeOK ==
  /\ queue \in Seq(Packet) /\ Len(queue) <= Capacity
  /\ epoch \in Nat /\ active \in BOOLEAN /\ open \in BOOLEAN
  /\ live \subseteq Senders /\ permit \in BOOLEAN
  /\ woken \in {"no", "one", "all"} /\ rpc \in ReceiverPC
  /\ spc \in [Senders -> SenderPC] /\ held \in [Senders -> Packet]
  /\ cancelled \in BOOLEAN /\ resumes \in Nat /\ last \in Packet

\* A packet handed to the TUN or UDP writer was admitted since the last
\* resume(), never before it, however late its push came.  This is a promise
\* per resume, not per TUN device: run_tun puts a replacement device in place
\* without one.
Delivers == rpc \in {"first", "second"} /\ rpc' = "idle"
DeliveredFresh == [][Delivers => last'.born = resumes]_vars

\* The Notify protocol never loses a wakeup: when the receiver sleeps with no
\* notification on the way and packets are queued, some sender is between its
\* push and its notify_one; when every sender is gone, one is about to call
\* notify_waiters.
Asleep == rpc = "wait" /\ woken = "no"
NoLostWakeup ==
  Asleep =>
    /\ ~permit
    /\ queue # <<>> => \E s \in Senders : spc[s] = "pushed"
    /\ live = {} => \E s \in Senders : spc[s] = "released"

\* After the receiver is dropped and has purged, packets can still land in the
\* queue, but only from sends that were past the receiver_open check by then:
\* one per handle at most, so a dead lane pins a bounded number of buffers.
InFlight == {s \in Senders : spc[s] \in {"checked", "loaded"}}
StrandedBounded == rpc = "gone" => Len(queue) + Cardinality(InFlight) <= Cardinality(Senders)

\* A sleeping receiver whose lane holds packets, or whose senders have all
\* been dropped, does not sleep for ever.
ReceiverWakes == (rpc = "wait" /\ (queue # <<>> \/ live = {})) ~> rpc # "wait"
==============================================================================
