------------------------ MODULE TurnAllocationProofs ------------------------
(***************************************************************************)
(* The safety properties of one TURN allocation, for any number of         *)
(* transmissions, nonce retries, channel failures, timers and errors.      *)
(*                                                                         *)
(* The driver sees the core only through the events it takes from it, one  *)
(* at a time, and ends on what its snapshot says.  CoreOk is what holds of *)
(* the core alone; Faithful says that the events an operation of the core  *)
(* adds tell the difference it makes, so that the snapshot, the shared     *)
(* flags and the queued events together always describe the core.          *)
(***************************************************************************)
EXTENDS TurnAllocation, SequenceTheorems, TLAPS

-----------------------------------------------------------------------------
(* The core.                                                               *)

Transaction == [sent : 0 .. MaxTransmissions, retries : Nat,
                authenticated : BOOLEAN, wire : BOOLEAN]
Event == [kind : {"state"}, state : States]
           \cup [kind : {"complete"}, op : Operations, ok : BOOLEAN]
           \cup [kind : {"relay", "bound", "forced"}]
Core == [state : States, auth : BOOLEAN, relay : BOOLEAN, channel : BOOLEAN, expires : BOOLEAN,
         due : SUBSET Timers, failures : 0 .. MaxChannelFailures,
         pending : [Operations -> Transaction], controls : [Operations -> Nat],
         events : Seq(Event), shutting : BOOLEAN, destroyed : BOOLEAN]

\* The one state in which a request can be pending.
Home == [Allocate |-> "allocating", Deallocate |-> "deallocating",
         Refresh |-> "ready", Permission |-> "ready", Channel |-> "ready"]

\* A packet waits or was sent only for a pending request, and a request is
\* pending only in its state.
PendingOk(c) ==
    \A op \in Operations :
        /\ c.controls[op] > 0 => has_operation(c, op)
        /\ c.pending[op].wire => has_operation(c, op)
        /\ has_operation(c, op) => c.state = Home[op]

\* The channel is a ready allocation's; an allocation that the server may
\* still have is in use or being given back, unless its channel was given up.
HeldOk(c) ==
    /\ c.state \in {"null", "allocating", "ready"} => c.failures < MaxChannelFailures
    /\ c.channel => c.state = "ready" \/ c.destroyed
    /\ (c.expires /\ c.failures < MaxChannelFailures /\ ~ c.destroyed)
          => c.state \in {"ready", "deallocating"}

CoreOk(c) == c \in Core /\ PendingOk(c) /\ HeldOk(c)

Retired(c) == c.state \in Over \/ c.failures = MaxChannelFailures \/ c.destroyed

\* Events that say that the channel is gone, and that the allocation is.
Unbinds(e) == e.kind = "state" /\ e.state # "ready"
Retires(e) == e.kind = "state" /\ e.state \in Over

\* The events that core d has and core c has not.
News(c, d) == Len(c.events) + 1 .. Len(d.events)

Faithful(c, d) ==
    /\ Len(d.events) >= Len(c.events)
    /\ \A i \in 1 .. Len(c.events) : d.events[i] = c.events[i]
    /\ \A i \in News(c, d) :
          d.events[i].kind = "bound"
              => d.channel \/ \E k \in i + 1 .. Len(d.events) : Unbinds(d.events[k])
    /\ c.channel => d.channel \/ \E k \in News(c, d) : Unbinds(d.events[k])
    /\ (Retired(c) \/ \E i \in News(c, d) : Retires(d.events[i])) => Retired(d)

\* Nothing new is held or was sent.
Claims(c, d) ==
    /\ d.expires => c.expires
    /\ \A op \in Operations : d.pending[op].wire => c.pending[op].wire

-----------------------------------------------------------------------------
(* Events.                                                                 *)

LEMMA EventTypes ==
  /\ \A s \in States : StateEvent(s) \in Event
  /\ \A op \in Operations, ok \in BOOLEAN : Complete(op, ok) \in Event
  /\ \A k \in {"relay", "bound", "forced"} : [kind |-> k] \in Event
<1>1. \A s \in States : StateEvent(s) \in Event
  BY DEF StateEvent, Event
<1>2. \A op \in Operations, ok \in BOOLEAN : Complete(op, ok) \in Event
  BY DEF Complete, Event
<1>3. \A k \in {"relay", "bound", "forced"} : [kind |-> k] \in Event
  BY DEF Event
<1> QED BY <1>1, <1>2, <1>3

\* The cores that differ in their events only.
Alike(c, d) ==
    /\ d.state = c.state /\ d.auth = c.auth /\ d.relay = c.relay /\ d.channel = c.channel
    /\ d.expires = c.expires /\ d.due = c.due /\ d.failures = c.failures
    /\ d.pending = c.pending /\ d.controls = c.controls
    /\ d.shutting = c.shutting /\ d.destroyed = c.destroyed

LEMMA PushFacts ==
  ASSUME NEW c \in Core, NEW e \in Event
  PROVE  /\ push_event(c, e) \in Core /\ Alike(c, push_event(c, e))
         /\ push_event(c, e).events = Append(c.events, e)
<1>1. c.events \in Seq(Event)
  BY DEF Core
<1>2. Append(c.events, e) \in Seq(Event)
  BY <1>1
<1>3. push_event(c, e).events = Append(c.events, e) /\ Alike(c, push_event(c, e))
  BY DEF push_event, Core, Alike
<1>4. push_event(c, e) \in Core
  BY <1>2 DEF push_event, Core
<1> QED BY <1>3, <1>4

LEMMA AppendFacts ==
  ASSUME NEW s \in Seq(Event), NEW e \in Event
  PROVE  /\ Append(s, e) \in Seq(Event) /\ Len(s) \in Nat
         /\ Len(Append(s, e)) = Len(s) + 1 /\ Append(s, e)[Len(s) + 1] = e
         /\ \A i \in 1 .. Len(s) : Append(s, e)[i] = s[i]
BY AppendProperties

LEMMA FaithfulAlike ==
  ASSUME NEW c \in Core, NEW d \in Core, d.events = c.events,
         c.channel => d.channel, Retired(c) => Retired(d)
  PROVE  Faithful(c, d)
<1>1. Len(c.events) \in Nat
  BY DEF Core
<1>2. News(c, d) = {}
  BY <1>1 DEF News
<1> QED BY <1>1, <1>2 DEF Faithful

LEMMA FaithfulTransitive ==
  ASSUME NEW c \in Core, NEW d \in Core, NEW e \in Core, Faithful(c, d), Faithful(d, e)
  PROVE  Faithful(c, e)
<1>1. /\ Len(c.events) \in Nat /\ Len(d.events) \in Nat /\ Len(e.events) \in Nat
      /\ Len(c.events) =< Len(d.events) /\ Len(d.events) =< Len(e.events)
  BY DEF Core, Faithful
<1>2. \A i \in 1 .. Len(c.events) : e.events[i] = c.events[i]
  BY <1>1 DEF Faithful
<1>3. \A i \in News(c, e) : i \in News(d, e) \/ (i \in News(c, d) /\ e.events[i] = d.events[i])
  BY <1>1 DEF News, Faithful
<1>4. \A i \in News(d, e) : i \in News(c, e)
  BY <1>1 DEF News
<1>5. \A i \in News(c, d) : i \in News(c, e) /\ e.events[i] = d.events[i]
  BY <1>1 DEF News, Faithful
<1>6. ASSUME NEW i \in News(c, e), e.events[i].kind = "bound"
      PROVE  e.channel \/ \E k \in i + 1 .. Len(e.events) : Unbinds(e.events[k])
  <2>1. CASE i \in News(d, e)
    BY <1>6, <2>1 DEF Faithful
  <2>2. CASE i \in News(c, d) /\ e.events[i] = d.events[i]
    <3>1. d.channel \/ \E k \in i + 1 .. Len(d.events) : Unbinds(d.events[k])
      BY <1>6, <2>2 DEF Faithful
    <3>2. CASE d.channel
      <4>1. e.channel \/ \E k \in News(d, e) : Unbinds(e.events[k])
        BY <3>2 DEF Faithful
      <4>2. \A k \in News(d, e) : k \in i + 1 .. Len(e.events)
        BY <1>1, <2>2 DEF News
      <4> QED BY <4>1, <4>2
    <3>3. ASSUME NEW k \in i + 1 .. Len(d.events), Unbinds(d.events[k])
          PROVE  \E m \in i + 1 .. Len(e.events) : Unbinds(e.events[m])
      <4>1. k \in i + 1 .. Len(e.events) /\ k \in 1 .. Len(d.events)
        BY <1>1, <2>2 DEF News
      <4>2. e.events[k] = d.events[k]
        BY <4>1 DEF Faithful
      <4> QED BY <3>3, <4>1, <4>2
    <3> QED BY <3>1, <3>2, <3>3
  <2> QED BY <1>3, <2>1, <2>2
<1>7. ASSUME c.channel PROVE e.channel \/ \E k \in News(c, e) : Unbinds(e.events[k])
  BY <1>4, <1>5, <1>7 DEF Faithful
<1>8. ASSUME Retired(c) \/ \E i \in News(c, e) : Retires(e.events[i]) PROVE Retired(e)
  BY <1>3, <1>8 DEF Faithful
<1> QED BY <1>1, <1>2, <1>6, <1>7, <1>8 DEF Faithful

LEMMA FaithfulAppend ==
  ASSUME NEW c \in Core, NEW d \in Core, NEW e \in Event, d.events = Append(c.events, e),
         e.kind = "bound" => d.channel, c.channel => d.channel \/ Unbinds(e),
         Retired(c) \/ Retires(e) => Retired(d)
  PROVE  Faithful(c, d)
<1>1. c.events \in Seq(Event)
  BY DEF Core
<1>2. /\ Len(c.events) \in Nat /\ Len(d.events) = Len(c.events) + 1
      /\ d.events[Len(c.events) + 1] = e
      /\ \A i \in 1 .. Len(c.events) : d.events[i] = c.events[i]
  BY <1>1, AppendFacts
<1>3. News(c, d) = {Len(c.events) + 1}
  BY <1>2 DEF News
<1> QED BY <1>2, <1>3 DEF Faithful

-----------------------------------------------------------------------------
(* The operations of the core.                                             *)

LEMMA StateFacts ==
  ASSUME NEW c \in Core, NEW s \in States
  PROVE  /\ set_state(c, s) \in Core /\ Alike([c EXCEPT !.state = s], set_state(c, s))
         /\ set_state(c, s).state = s
         /\ set_state(c, s).events = IF c.state = s THEN c.events
                                     ELSE Append(c.events, StateEvent(s))
<1> DEFINE d == [c EXCEPT !.state = s]
<1>1. d \in Core /\ d.state = s /\ d.events = c.events
  BY DEF Core
<1>2. CASE c.state = s
  <2>1. set_state(c, s) = c
    BY <1>2 DEF set_state
  <2> QED BY <1>2, <2>1 DEF Alike, Core
<1>3. CASE c.state # s
  <2>1. set_state(c, s) = push_event(d, StateEvent(s))
    BY <1>3 DEF set_state
  <2> HIDE DEF d
  <2>2. set_state(c, s) \in Core /\ Alike(d, set_state(c, s))
        /\ set_state(c, s).events = Append(d.events, StateEvent(s))
    BY <1>1, <2>1, EventTypes, PushFacts
  <2> QED BY <1>1, <1>3, <2>2 DEF Alike, d
<1> QED BY <1>2, <1>3

LEMMA ConstantTypes ==
  /\ NoTransaction \in Transaction /\ NothingPending \in [Operations -> Transaction]
  /\ NoControls \in [Operations -> Nat]
  /\ \A op \in Operations : NothingPending[op] = NoTransaction /\ NoControls[op] = 0
  /\ NoTransaction.sent = 0 /\ NoTransaction.wire = FALSE
BY TurnAssumption DEF NoTransaction, NothingPending, NoControls, Transaction

\* A core without requests.
LEMMA EmptyPending ==
  ASSUME NEW c, c.pending = NothingPending, c.controls = NoControls
  PROVE  PendingOk(c)
BY ConstantTypes DEF PendingOk, has_operation

LEMMA StartFacts ==
  ASSUME NEW c, CoreOk(c), NEW op \in Operations, NEW r \in Nat, c.state = Home[op]
  PROVE  /\ CoreOk(start_operation(c, op, r)) /\ Faithful(c, start_operation(c, op, r))
         /\ Claims(c, start_operation(c, op, r))
         /\ start_operation(c, op, r).state = c.state
         /\ start_operation(c, op, r).expires = c.expires
         /\ start_operation(c, op, r).failures = c.failures
         /\ start_operation(c, op, r).destroyed = c.destroyed
<1> DEFINE t == [NoTransaction EXCEPT !.sent = 1, !.retries = r, !.authenticated = c.auth]
           d == [c EXCEPT !.pending[op] = t]
<1>c. /\ c \in Core /\ PendingOk(c) /\ HeldOk(c)
      /\ c.pending \in [Operations -> Transaction] /\ c.controls \in [Operations -> Nat]
  BY DEF CoreOk, Core
<1>1. t \in Transaction /\ t.sent = 1 /\ t.wire = FALSE
  <2>1. 1 \in 0 .. MaxTransmissions /\ c.auth \in BOOLEAN
    BY <1>c, TurnAssumption DEF Core
  <2> QED BY <2>1 DEF NoTransaction, Transaction
<1>2. ASSUME NEW b \in Core, b.pending[op].sent > 0, b.state = c.state, b.channel = c.channel,
             b.expires = c.expires, b.failures = c.failures, b.destroyed = c.destroyed,
             b.events = c.events, b.controls = c.controls,
             \A x \in Operations : b.pending[x] = c.pending[x] \/ (x = op /\ ~ b.pending[x].wire)
      PROVE  /\ CoreOk(queue_packet(b, op)) /\ Faithful(c, queue_packet(b, op))
             /\ Claims(c, queue_packet(b, op))
             /\ queue_packet(b, op).state = c.state
             /\ queue_packet(b, op).expires = c.expires
             /\ queue_packet(b, op).failures = c.failures
             /\ queue_packet(b, op).destroyed = c.destroyed
  <2> DEFINE q == queue_packet(b, op)
  <2>1. /\ q \in Core /\ q.pending = b.pending /\ q.state = c.state /\ q.channel = c.channel
        /\ q.expires = c.expires /\ q.failures = c.failures /\ q.destroyed = c.destroyed
        /\ q.events = c.events
        /\ \A x \in Operations : x # op => q.controls[x] = c.controls[x]
    <3> DEFINE m == [b.controls EXCEPT ![op] = @ + 1]
    <3>1. m \in [Operations -> Nat] /\ \A x \in Operations : x # op => m[x] = c.controls[x]
      BY <1>c, <1>2
    <3>2. q = [b EXCEPT !.controls = m]
      BY <1>2 DEF queue_packet, Core
    <3> HIDE DEF m, q
    <3>3. q \in Core /\ q.controls = m
      BY <1>2, <3>1, <3>2 DEF Core
    <3> QED BY <1>2, <3>1, <3>2, <3>3 DEF Core
  <2> HIDE DEF q
  <2>2. PendingOk(q)
    BY <1>c, <1>2, <2>1 DEF PendingOk, has_operation
  <2>3. HeldOk(q)
    BY <1>c, <2>1 DEF HeldOk
  <2>4. Faithful(c, q)
    BY <1>c, <2>1, FaithfulAlike DEF Retired
  <2>5. Claims(c, q)
    BY <1>2, <2>1 DEF Claims
  <2> QED BY <2>1, <2>2, <2>3, <2>4, <2>5 DEF CoreOk, q
<1>3. CASE ~ has_operation(c, op)
  <2>1. start_operation(c, op, r) = queue_packet(d, op)
    BY <1>3 DEF start_operation
  <2>2. /\ d \in Core /\ d.pending[op] = t /\ d.state = c.state /\ d.channel = c.channel
        /\ d.expires = c.expires /\ d.failures = c.failures /\ d.destroyed = c.destroyed
        /\ d.events = c.events /\ d.controls = c.controls
        /\ \A x \in Operations : x # op => d.pending[x] = c.pending[x]
    <3> HIDE DEF t
    <3> QED BY <1>c, <1>1 DEF Core
  <2> HIDE DEF d, t
  <2> QED BY <1>1, <1>2, <2>1, <2>2
<1>4. CASE has_operation(c, op) /\ op = "Channel"
  <2>1. start_operation(c, op, r) = queue_packet(c, op)
    BY <1>4 DEF start_operation
  <2> QED BY <1>c, <1>2, <1>4, <2>1 DEF has_operation
<1>5. CASE has_operation(c, op) /\ op # "Channel"
  <2>1. start_operation(c, op, r) = c
    BY <1>5 DEF start_operation
  <2> QED BY <1>c, <2>1, FaithfulAlike DEF CoreOk, Claims
<1> QED BY <1>3, <1>4, <1>5

LEMMA ForgottenFacts ==
  ASSUME NEW c, CoreOk(c), NEW op \in Operations
  PROVE  /\ CoreOk(Forgotten(c, op)) /\ Faithful(c, Forgotten(c, op))
         /\ Claims(c, Forgotten(c, op)) /\ ~ has_operation(Forgotten(c, op), op)
         /\ Forgotten(c, op).state = c.state /\ Forgotten(c, op).destroyed = c.destroyed
         /\ Forgotten(c, op).expires = c.expires /\ Forgotten(c, op).failures = c.failures
<1> DEFINE f == Forgotten(c, op)
<1>c. /\ c \in Core /\ PendingOk(c) /\ HeldOk(c)
      /\ c.pending \in [Operations -> Transaction] /\ c.controls \in [Operations -> Nat]
  BY DEF CoreOk, Core
<1>1. /\ f \in Core /\ f.state = c.state /\ f.channel = c.channel /\ f.expires = c.expires
      /\ f.failures = c.failures /\ f.destroyed = c.destroyed /\ f.events = c.events
      /\ f.pending[op] = NoTransaction /\ f.controls[op] = 0
      /\ \A x \in Operations : x # op => /\ f.pending[x] = c.pending[x]
                                         /\ f.controls[x] = c.controls[x]
  BY <1>c, ConstantTypes DEF Forgotten, Core
<1> HIDE DEF f
<1>2. PendingOk(f) /\ ~ has_operation(f, op) /\ Claims(c, f)
  BY <1>c, <1>1, ConstantTypes DEF PendingOk, has_operation, Claims
<1>3. HeldOk(f)
  BY <1>c, <1>1 DEF HeldOk
<1>4. Faithful(c, f)
  BY <1>c, <1>1, FaithfulAlike DEF Retired
<1> QED BY <1>1, <1>2, <1>3, <1>4 DEF CoreOk, f

LEMMA StateFaithful ==
  ASSUME NEW c \in Core, NEW e \in Core, NEW s \in States, e.events = c.events,
         c.channel => e.channel \/ (e.state # s /\ s # "ready"),
         Retired(c) \/ s \in Over => Retired(set_state(e, s))
  PROVE  Faithful(c, set_state(e, s))
<1> DEFINE d == set_state(e, s)
<1>1. /\ d \in Core /\ Alike([e EXCEPT !.state = s], d)
      /\ d.events = IF e.state = s THEN e.events ELSE Append(e.events, StateEvent(s))
  BY StateFacts
<1>2. d.channel = e.channel
  BY <1>1 DEF Alike, Core
<1>3. Retired(c) \/ s \in Over => Retired(d)
  OBVIOUS
<1> HIDE DEF d
<1>4. ASSUME e.state = s PROVE Faithful(c, d)
  <2>1. d.events = c.events /\ (c.channel => d.channel)
    BY <1>1, <1>2, <1>4
  <2> QED BY <1>1, <1>3, <2>1, FaithfulAlike
<1>5. ASSUME e.state # s PROVE Faithful(c, d)
  <2>1. StateEvent(s) \in Event /\ StateEvent(s).kind = "state" /\ StateEvent(s).state = s
    BY EventTypes DEF StateEvent
  <2>2. d.events = Append(c.events, StateEvent(s))
    BY <1>1, <1>5
  <2>3. c.channel => d.channel \/ Unbinds(StateEvent(s))
    BY <1>2, <2>1 DEF Unbinds
  <2>4. Retired(c) \/ Retires(StateEvent(s)) => Retired(d)
    BY <1>3, <2>1 DEF Retires
  <2>5. StateEvent(s).kind = "bound" => d.channel
    BY <2>1
  <2> HIDE DEF StateEvent
  <2> QED BY <1>1, <2>1, <2>2, <2>3, <2>4, <2>5, FaithfulAppend
<1> QED BY <1>4, <1>5 DEF d

LEMMA CompleteFacts ==
  ASSUME NEW c \in Core, NEW op \in Operations, NEW ok \in BOOLEAN
  PROVE  /\ complete(c, op, ok) \in Core /\ Alike(c, complete(c, op, ok))
         /\ Faithful(c, complete(c, op, ok))
<1> DEFINE d == complete(c, op, ok)
<1>1. CASE op \in {"Allocate", "Channel"}
  <2>1. d = push_event(c, Complete(op, ok))
    BY <1>1 DEF complete
  <2>2. Complete(op, ok) \in Event /\ Complete(op, ok).kind = "complete"
    BY EventTypes DEF Complete
  <2>3. d \in Core /\ Alike(c, d) /\ d.events = Append(c.events, Complete(op, ok))
    BY <2>1, <2>2, PushFacts
  <2> HIDE DEF d
  <2>4. d.channel = c.channel /\ (Retired(c) => Retired(d))
    BY <2>3 DEF Alike, Retired
  <2>5. ~ Retires(Complete(op, ok)) /\ Complete(op, ok).kind # "bound"
    BY <2>2 DEF Retires
  <2>6. Faithful(c, d)
    BY <2>2, <2>3, <2>4, <2>5, FaithfulAppend
  <2> QED BY <2>3, <2>6 DEF d
<1>2. CASE op \notin {"Allocate", "Channel"}
  <2>1. d = c
    BY <1>2 DEF complete
  <2> QED BY <2>1, FaithfulAlike DEF Alike
<1> QED BY <1>1, <1>2

LEMMA DestroyFacts ==
  ASSUME NEW c, CoreOk(c), ~ c.destroyed, NEW op \in Operations
  PROVE  /\ CoreOk(destroy_allocation(c, op)) /\ Faithful(c, destroy_allocation(c, op))
         /\ Claims(c, destroy_allocation(c, op))
         /\ ~ destroy_allocation(c, op).destroyed
<1> DEFINE b == complete(c, op, FALSE)
           e == [b EXCEPT !.controls = NoControls, !.pending = NothingPending,
                          !.channel = FALSE, !.due = {}, !.expires = FALSE, !.relay = FALSE]
           s == IF op = "Deallocate" THEN "deallocated" ELSE "destroying"
           d == set_state(e, s)
<1>1. c \in Core /\ HeldOk(c)
  BY DEF CoreOk
<1>2. b \in Core /\ Alike(c, b) /\ Faithful(c, b)
  BY <1>1, CompleteFacts
<1>3. /\ e \in Core /\ e.events = b.events /\ e.state = c.state /\ e.failures = c.failures
      /\ e.pending = NothingPending /\ e.controls = NoControls /\ e.destroyed = c.destroyed
      /\ e.channel = FALSE /\ e.expires = FALSE
  <2> HIDE DEF b
  <2> QED BY <1>2, ConstantTypes DEF Alike, Core
<1>4. s \in States /\ s \in Over /\ s # "ready"
  BY DEF States, Over
<1>5. destroy_allocation(c, op) = d
  BY DEF destroy_allocation
<1> HIDE DEF b, e, s
<1>6. d \in Core /\ Alike([e EXCEPT !.state = s], d) /\ d.state = s
  BY <1>3, <1>4, StateFacts
<1>7. /\ d.failures = c.failures /\ d.pending = NothingPending /\ d.controls = NoControls
      /\ d.destroyed = c.destroyed /\ d.channel = FALSE /\ d.expires = FALSE
  BY <1>3, <1>6 DEF Alike, Core
<1>8. Retired(d)
  BY <1>4, <1>6 DEF Retired
<1>9. b.channel => e.state # s
  BY <1>1, <1>2, <1>3, <1>4 DEF HeldOk, Alike
<1>10. Faithful(b, d)
  BY <1>2, <1>3, <1>4, <1>8, <1>9, StateFaithful
<1> HIDE DEF d
<1>11. Faithful(c, d)
  BY <1>1, <1>2, <1>6, <1>10, FaithfulTransitive
<1>12. PendingOk(d) /\ HeldOk(d) /\ Claims(c, d)
  BY <1>4, <1>6, <1>7, EmptyPending, ConstantTypes DEF HeldOk, Claims, Over
<1> QED BY <1>5, <1>6, <1>7, <1>11, <1>12 DEF CoreOk

\* A request that failed: the allocation ends, the channel is given up, or a
\* timer is set to try again.
LEMMA FailureFacts ==
  ASSUME NEW c, CoreOk(c), ~ c.destroyed, NEW op \in Operations
  PROVE  /\ CoreOk(complete_failure(c, op)) /\ Faithful(c, complete_failure(c, op))
         /\ Claims(c, complete_failure(c, op)) /\ ~ complete_failure(c, op).destroyed
<1> DEFINE told == complete(c, op, FALSE)
           counted == IF op = "Channel" THEN [told EXCEPT !.failures = @ + 1] ELSE told
           e == [counted EXCEPT !.controls = NoControls, !.pending = NothingPending,
                                !.channel = FALSE, !.due = @ \cap {"refresh"}]
           later == [counted EXCEPT !.due = @ \cup {RetryTimer[op]}]
<1>c. c \in Core /\ HeldOk(c) /\ PendingOk(c)
  BY DEF CoreOk
<1>1. CASE op \notin DOMAIN RetryTimer \/ c.state # "ready"
  <2>1. complete_failure(c, op) = destroy_allocation(c, op)
    BY <1>1 DEF complete_failure
  <2> QED BY <2>1, DestroyFacts
<1>2. CASE ~ (op \notin DOMAIN RetryTimer \/ c.state # "ready")
  <2>1. told \in Core /\ Alike(c, told) /\ Faithful(c, told)
    BY <1>c, CompleteFacts
  <2>2. /\ c.failures \in Nat /\ c.failures < MaxChannelFailures /\ MaxChannelFailures \in Nat
        /\ told.failures = c.failures
    <3> HIDE DEF told
    <3>1. told.failures = c.failures /\ c.failures \in Nat
      BY <1>c, <2>1, TurnAssumption DEF Core, Alike
    <3>2. c.failures < MaxChannelFailures
      BY <1>c, <1>2 DEF HeldOk
    <3> QED BY <3>1, <3>2, TurnAssumption
  <2>3. /\ counted \in Core /\ counted.events = told.events /\ counted.state = c.state
        /\ counted.channel = c.channel /\ counted.expires = c.expires
        /\ counted.pending = c.pending /\ counted.controls = c.controls
        /\ counted.destroyed = c.destroyed
        /\ counted.failures = c.failures + (IF op = "Channel" THEN 1 ELSE 0)
    <3> HIDE DEF told
    <3>1. CASE op = "Channel"
      <4>1. c.failures + 1 \in 0 .. MaxChannelFailures
        BY <2>2
      <4>2. counted = [told EXCEPT !.failures = c.failures + 1]
        BY <2>2, <3>1
      <4> QED BY <2>1, <3>1, <4>1, <4>2 DEF Alike, Core
    <3>2. CASE op # "Channel"
      BY <2>1, <2>2, <3>2 DEF Alike, Core
    <3> QED BY <3>1, <3>2
  <2>4. ~ Retired(told)
    <3>1. told.state = "ready" /\ ~ told.destroyed
      BY <1>2, <2>1 DEF Alike
    <3> HIDE DEF told
    <3>2. told.failures # MaxChannelFailures
      BY <2>2
    <3> QED BY <3>1, <3>2 DEF Retired, Over
  <2>5. CASE counted.failures >= MaxChannelFailures /\ op = "Channel"
    <3> DEFINE d == set_state(e, "destroying")
    <3>1. complete_failure(c, op) = d
      BY <1>2, <2>5 DEF complete_failure, destroy_after_channel_rebind_exhausted
    <3> HIDE DEF told, counted
    <3>2. /\ e \in Core /\ e.events = told.events /\ e.state = "ready"
          /\ e.failures = MaxChannelFailures /\ e.destroyed = c.destroyed
          /\ e.channel = FALSE /\ e.expires = c.expires
          /\ e.pending = NothingPending /\ e.controls = NoControls
      <4>1. counted.failures = MaxChannelFailures /\ counted.state = "ready"
        BY <1>2, <2>2, <2>3, <2>5
      <4> QED BY <2>3, <4>1, ConstantTypes DEF Core
    <3> HIDE DEF e
    <3>3. "destroying" \in States /\ "destroying" \in Over
      BY DEF States, Over
    <3>4. d \in Core /\ Alike([e EXCEPT !.state = "destroying"], d) /\ d.state = "destroying"
      BY <3>2, <3>3, StateFacts
    <3>5. /\ d.failures = MaxChannelFailures /\ d.destroyed = c.destroyed /\ d.channel = FALSE
          /\ d.expires = c.expires /\ d.pending = NothingPending /\ d.controls = NoControls
      BY <3>2, <3>4 DEF Alike, Core
    <3>6. Retired(d)
      BY <3>3, <3>4 DEF Retired
    <3>7. Faithful(told, d)
      BY <2>1, <3>2, <3>3, <3>6, StateFaithful
    <3> HIDE DEF d
    <3>8. Faithful(c, d)
      BY <1>c, <2>1, <3>4, <3>7, FaithfulTransitive
    <3>9. PendingOk(d) /\ HeldOk(d) /\ Claims(c, d)
      BY <2>2, <3>4, <3>5, EmptyPending, ConstantTypes DEF HeldOk, Claims
    <3> QED BY <3>1, <3>4, <3>5, <3>8, <3>9 DEF CoreOk
  <2>6. CASE ~ (counted.failures >= MaxChannelFailures /\ op = "Channel")
    <3>1. complete_failure(c, op) = later
      BY <1>2, <2>6 DEF complete_failure
    <3>2. RetryTimer[op] \in Timers
      BY <1>2 DEF RetryTimer, Timers, Operations
    <3> HIDE DEF told, counted
    <3>3. /\ later \in Core /\ later.events = told.events /\ later.state = c.state
          /\ later.channel = c.channel /\ later.expires = c.expires
          /\ later.pending = c.pending /\ later.controls = c.controls
          /\ later.destroyed = c.destroyed /\ later.failures = counted.failures
      BY <2>3, <3>2 DEF Core
    <3>4. later.failures < MaxChannelFailures
      BY <2>2, <2>3, <2>6, <3>3
    <3> HIDE DEF later
    <3>5. Faithful(told, later)
      BY <2>1, <2>4, <3>3, FaithfulAlike DEF Alike
    <3>6. Faithful(c, later)
      BY <1>c, <2>1, <3>3, <3>5, FaithfulTransitive
    <3>7. PendingOk(later) /\ Claims(c, later)
      BY <1>c, <3>3 DEF PendingOk, has_operation, Claims
    <3>8. HeldOk(later)
      BY <1>c, <1>2, <3>3, <3>4 DEF HeldOk
    <3> QED BY <3>1, <3>3, <3>6, <3>7, <3>8 DEF CoreOk
  <2> QED BY <2>5, <2>6
<1> QED BY <1>1, <1>2

LEMMA AlikeOk ==
  ASSUME NEW c, CoreOk(c), NEW d \in Core, Alike(c, d)
  PROVE  CoreOk(d)
<1>1. PendingOk(d)
  BY DEF CoreOk, PendingOk, has_operation, Alike
<1>2. HeldOk(d)
  BY DEF CoreOk, HeldOk, Alike
<1> QED BY <1>1, <1>2 DEF CoreOk

LEMMA OperationStates ==
  /\ Operations = {"Allocate", "Refresh", "Deallocate", "Permission", "Channel"}
  /\ Home["Allocate"] = "allocating" /\ Home["Deallocate"] = "deallocating"
  /\ Home["Refresh"] = "ready" /\ Home["Permission"] = "ready" /\ Home["Channel"] = "ready"
BY DEF Operations, Home

\* The answer to Allocate, which may come after the owner has left.
LEMMA AllocateFacts ==
  ASSUME NEW c, CoreOk(c), ~ c.destroyed, c.state = "allocating", ~ has_operation(c, "Allocate")
  PROVE  /\ CoreOk(complete_success(c, "Allocate"))
         /\ Faithful(c, complete_success(c, "Allocate"))
         /\ ~ complete_success(c, "Allocate").destroyed
<1> DEFINE b == [c EXCEPT !.relay = TRUE, !.expires = TRUE, !.due = {"refresh", "maintenance"}]
           held == push_event(b, [kind |-> "relay"])
<1>c. c \in Core /\ PendingOk(c) /\ HeldOk(c)
  BY DEF CoreOk
<1>1. /\ b \in Core /\ b.state = c.state /\ b.channel = c.channel /\ b.failures = c.failures
      /\ b.pending = c.pending /\ b.controls = c.controls /\ b.events = c.events
      /\ b.destroyed = c.destroyed /\ b.expires = TRUE /\ b.shutting = c.shutting
  BY <1>c DEF Core, Timers
<1>2. [kind |-> "relay"] \in Event /\ [kind |-> "relay"].kind = "relay"
  BY EventTypes
<1>3. held \in Core /\ Alike(b, held) /\ held.events = Append(b.events, [kind |-> "relay"])
  <2> HIDE DEF b
  <2> QED BY <1>1, <1>2, PushFacts
<1>4. complete_success(c, "Allocate") =
        IF c.shutting THEN start_operation(set_state(held, "deallocating"), "Deallocate", 0)
        ELSE complete(set_state(held, "ready"), "Allocate", TRUE)
  BY DEF complete_success
<1> HIDE DEF b
<1>5. /\ held.state = "allocating" /\ held.pending = c.pending /\ held.controls = c.controls
      /\ held.failures = c.failures /\ held.expires = TRUE
      /\ held.events = Append(c.events, [kind |-> "relay"])
  BY <1>1, <1>3 DEF Alike
<1>6. ~ held.destroyed /\ held.channel = c.channel
  BY <1>1, <1>3 DEF Alike
<1> HIDE DEF held
<1>7. ~ c.channel /\ c.failures < MaxChannelFailures /\ ~ Retired(c) /\ ~ Retired(held)
  <2>1. ~ c.channel /\ c.failures < MaxChannelFailures
    BY <1>c DEF HeldOk
  <2>2. c.failures # MaxChannelFailures
    BY <1>c, <2>1, TurnAssumption DEF Core
  <2> QED BY <1>5, <1>6, <2>1, <2>2 DEF Retired, Over
<1>8. Faithful(c, held)
  <2>1. ~ Retires([kind |-> "relay"])
    BY <1>2 DEF Retires
  <2> QED BY <1>c, <1>2, <1>3, <1>5, <1>7, <2>1, FaithfulAppend
<1>9. \A op \in Operations : ~ has_operation(c, op) /\ ~ (c.controls[op] > 0) /\ ~ c.pending[op].wire
  BY <1>c, OperationStates DEF PendingOk
<1>10. ASSUME NEW s \in {"ready", "deallocating"}
       PROVE  /\ CoreOk(set_state(held, s)) /\ Faithful(c, set_state(held, s))
              /\ set_state(held, s).state = s /\ ~ set_state(held, s).destroyed
  <2> DEFINE e == set_state(held, s)
  <2>1. s \in States /\ s \notin Over
    BY DEF States, Over
  <2>2. e \in Core /\ Alike([held EXCEPT !.state = s], e) /\ e.state = s
    BY <1>3, <2>1, StateFacts
  <2>3. Faithful(held, e)
    BY <1>3, <1>6, <1>7, <2>1, StateFaithful
  <2> HIDE DEF e
  <2>4. /\ e.pending = c.pending /\ e.controls = c.controls /\ e.failures = c.failures
        /\ e.channel = c.channel /\ ~ e.destroyed
    BY <1>3, <1>5, <1>6, <2>2 DEF Alike, Core
  <2>5. PendingOk(e)
    BY <1>9, <2>4 DEF PendingOk, has_operation
  <2>6. HeldOk(e)
    BY <1>7, <2>2, <2>4 DEF HeldOk
  <2>7. Faithful(c, e)
    BY <1>c, <1>3, <1>8, <2>2, <2>3, FaithfulTransitive
  <2> QED BY <2>2, <2>4, <2>5, <2>6, <2>7 DEF CoreOk, e
<1>11. CASE c.shutting
  <2> DEFINE e == set_state(held, "deallocating")
             d == start_operation(e, "Deallocate", 0)
  <2>1. complete_success(c, "Allocate") = d
    BY <1>4, <1>11
  <2>2. CoreOk(e) /\ Faithful(c, e) /\ e.state = "deallocating" /\ ~ e.destroyed
    BY <1>10
  <2>3. CoreOk(d) /\ Faithful(e, d) /\ d.destroyed = e.destroyed
    <3> HIDE DEF e
    <3> QED BY <2>2, OperationStates, StartFacts
  <2> HIDE DEF d, e
  <2>4. Faithful(c, d)
    BY <1>c, <2>2, <2>3, FaithfulTransitive DEF CoreOk
  <2> QED BY <2>1, <2>2, <2>3, <2>4
<1>12. CASE ~ c.shutting
  <2> DEFINE e == set_state(held, "ready")
             d == complete(e, "Allocate", TRUE)
  <2>1. complete_success(c, "Allocate") = d
    BY <1>4, <1>12
  <2>2. CoreOk(e) /\ Faithful(c, e) /\ e.state = "ready" /\ ~ e.destroyed
    BY <1>10
  <2>3. d \in Core /\ Alike(e, d) /\ Faithful(e, d)
    <3> HIDE DEF e
    <3> QED BY <2>2, OperationStates, CompleteFacts DEF CoreOk
  <2> HIDE DEF d, e
  <2>4. CoreOk(d) /\ ~ d.destroyed
    BY <2>2, <2>3, AlikeOk DEF Alike
  <2>5. Faithful(c, d)
    BY <1>c, <2>2, <2>3, FaithfulTransitive DEF CoreOk
  <2> QED BY <2>1, <2>4, <2>5
<1> QED BY <1>11, <1>12

LEMMA SuccessFacts ==
  ASSUME NEW c, CoreOk(c), ~ c.destroyed, NEW op \in Operations, c.state = Home[op],
         ~ has_operation(c, op)
  PROVE  /\ CoreOk(complete_success(c, op)) /\ Faithful(c, complete_success(c, op))
         /\ ~ complete_success(c, op).destroyed
<1>c. c \in Core /\ PendingOk(c) /\ HeldOk(c)
  BY DEF CoreOk
<1>1. CASE op = "Allocate"
  BY <1>1, OperationStates, AllocateFacts
<1>2. CASE op = "Refresh"
  <2> DEFINE d == [c EXCEPT !.due = @ \cup {"refresh"}, !.expires = TRUE]
  <2>1. complete_success(c, op) = d /\ c.state = "ready"
    BY <1>2, OperationStates DEF complete_success
  <2>2. /\ d \in Core /\ d.state = c.state /\ d.channel = c.channel /\ d.failures = c.failures
        /\ d.pending = c.pending /\ d.controls = c.controls /\ d.events = c.events
        /\ d.destroyed = c.destroyed
    BY <1>c DEF Core, Timers
  <2> HIDE DEF d
  <2>3. PendingOk(d) /\ HeldOk(d)
    BY <1>c, <2>1, <2>2 DEF PendingOk, has_operation, HeldOk
  <2>4. Faithful(c, d)
    BY <1>c, <2>2, FaithfulAlike DEF Retired
  <2> QED BY <2>1, <2>2, <2>3, <2>4 DEF CoreOk
<1>3. CASE op = "Deallocate"
  <2> DEFINE b == [c EXCEPT !.relay = FALSE, !.expires = FALSE, !.due = @ \ {"refresh"}]
             d == set_state(b, "deallocated")
  <2>1. complete_success(c, op) = d /\ c.state = "deallocating"
    BY <1>3, OperationStates DEF complete_success
  <2>2. /\ b \in Core /\ b.state = c.state /\ b.channel = c.channel /\ b.failures = c.failures
        /\ b.pending = c.pending /\ b.controls = c.controls /\ b.events = c.events
        /\ b.destroyed = c.destroyed /\ b.expires = FALSE
    BY <1>c DEF Core, Timers
  <2> HIDE DEF b
  <2>3. "deallocated" \in States /\ "deallocated" \in Over
    BY DEF States, Over
  <2>4. d \in Core /\ Alike([b EXCEPT !.state = "deallocated"], d) /\ d.state = "deallocated"
    BY <2>2, <2>3, StateFacts
  <2>5. /\ d.pending = c.pending /\ d.controls = c.controls /\ d.channel = c.channel
        /\ d.expires = FALSE /\ d.destroyed = c.destroyed /\ Retired(d)
    BY <2>2, <2>3, <2>4 DEF Alike, Core, Retired
  <2>6. Faithful(c, d)
    BY <1>c, <2>2, <2>3, <2>5, StateFaithful
  <2> HIDE DEF d
  <2>7. \A x \in Operations : ~ has_operation(c, x)
    BY <1>c, <1>3, <2>1, OperationStates DEF PendingOk
  <2>8. PendingOk(d)
    BY <1>c, <2>5, <2>7 DEF PendingOk, has_operation
  <2>9. HeldOk(d)
    BY <1>c, <2>1, <2>4, <2>5 DEF HeldOk
  <2> QED BY <2>1, <2>4, <2>5, <2>6, <2>8, <2>9 DEF CoreOk
<1>4. CASE op = "Permission"
  <2>1. complete_success(c, op) = c
    BY <1>4 DEF complete_success
  <2> QED BY <1>c, <2>1, FaithfulAlike
<1>5. CASE op = "Channel"
  <2> DEFINE b == [c EXCEPT !.channel = TRUE, !.failures = 0]
             e == push_event(b, [kind |-> "bound"])
             d == complete(e, op, TRUE)
  <2>1. complete_success(c, op) = d /\ c.state = "ready"
    BY <1>5, OperationStates DEF complete_success
  <2>2. /\ b \in Core /\ b.state = c.state /\ b.channel = TRUE /\ b.failures = 0
        /\ b.pending = c.pending /\ b.controls = c.controls /\ b.events = c.events
        /\ b.destroyed = c.destroyed
    <3>1. 0 \in 0 .. MaxChannelFailures
      BY TurnAssumption
    <3> QED BY <1>c, <3>1 DEF Core
  <2> HIDE DEF b
  <2>3. [kind |-> "bound"] \in Event /\ ~ Retires([kind |-> "bound"])
    BY EventTypes DEF Retires
  <2>4. e \in Core /\ Alike(b, e) /\ e.events = Append(c.events, [kind |-> "bound"])
    BY <2>2, <2>3, PushFacts
  <2> HIDE DEF e
  <2>5. e.channel /\ e.state = "ready" /\ e.failures = 0 /\ ~ e.destroyed
    BY <2>1, <2>2, <2>4 DEF Alike
  <2>6. CoreOk(e)
    <3>1. PendingOk(e)
      BY <1>c, <2>2, <2>4 DEF PendingOk, has_operation, Alike
    <3>2. HeldOk(e)
      BY <2>5, TurnAssumption DEF HeldOk
    <3> QED BY <2>4, <3>1, <3>2 DEF CoreOk
  <2>7. ~ Retired(c)
    <3>1. c.failures < MaxChannelFailures
      BY <1>c, <2>1 DEF HeldOk
    <3>2. c.failures # MaxChannelFailures
      BY <1>c, <3>1, TurnAssumption DEF Core
    <3> QED BY <2>1, <3>2 DEF Retired, Over
  <2>8. Faithful(c, e)
    BY <1>c, <2>3, <2>4, <2>5, <2>7, FaithfulAppend
  <2>9. d \in Core /\ Alike(e, d) /\ Faithful(e, d)
    BY <2>4, CompleteFacts
  <2> HIDE DEF d
  <2>10. CoreOk(d) /\ ~ d.destroyed
    BY <2>5, <2>6, <2>9, AlikeOk DEF Alike
  <2>11. Faithful(c, d)
    BY <1>c, <2>4, <2>8, <2>9, FaithfulTransitive
  <2> QED BY <2>1, <2>10, <2>11
<1> QED BY <1>1, <1>2, <1>3, <1>4, <1>5, OperationStates

\* What every operation does that neither succeeds nor ends the core.
Kept(c, d) == CoreOk(d) /\ Faithful(c, d) /\ Claims(c, d) /\ d.destroyed = c.destroyed

LEMMA KeptTransitive ==
  ASSUME NEW c, CoreOk(c), NEW d, Kept(c, d), NEW e, Kept(d, e)
  PROVE  Kept(c, e)
<1>1. c \in Core /\ d \in Core /\ e \in Core /\ CoreOk(e) /\ Faithful(c, d) /\ Faithful(d, e)
  BY DEF Kept, CoreOk
<1>2. Faithful(c, e)
  BY <1>1, FaithfulTransitive
<1>3. Claims(c, e)
  BY DEF Kept, Claims
<1>4. e.destroyed = c.destroyed
  BY DEF Kept
<1> QED BY <1>1, <1>2, <1>3, <1>4 DEF Kept

LEMMA KeptSelf ==
  ASSUME NEW c, CoreOk(c)
  PROVE  Kept(c, c)
BY FaithfulAlike DEF Kept, CoreOk, Claims

LEMMA KeptAlive ==
  ASSUME NEW c, CoreOk(c), NEW d, CoreOk(d), Faithful(c, d), Claims(c, d),
         ~ c.destroyed, ~ d.destroyed
  PROVE  Kept(c, d)
<1>1. c.destroyed \in BOOLEAN /\ d.destroyed \in BOOLEAN
  BY DEF CoreOk, Core
<1>2. d.destroyed = c.destroyed
  BY <1>1
<1> QED BY <1>2 DEF Kept

LEMMA StartKeeps ==
  ASSUME NEW c, CoreOk(c), NEW op \in Operations, NEW r \in Nat, c.state = Home[op]
  PROVE  Kept(c, start_operation(c, op, r)) /\ start_operation(c, op, r).state = c.state
BY StartFacts DEF Kept

\* The fields that the invariant does not speak about.
LEMMA PlainKeeps ==
  ASSUME NEW c, CoreOk(c), NEW d \in Core, d.state = c.state, d.channel = c.channel,
         d.expires = c.expires, d.failures = c.failures, d.pending = c.pending,
         d.controls = c.controls, d.events = c.events, d.destroyed = c.destroyed
  PROVE  Kept(c, d)
<1>1. c \in Core /\ PendingOk(c) /\ HeldOk(c)
  BY DEF CoreOk
<1>2. PendingOk(d) /\ Claims(c, d)
  BY <1>1 DEF PendingOk, has_operation, Claims
<1>3. HeldOk(d)
  BY <1>1 DEF HeldOk
<1>4. Faithful(c, d)
  BY <1>1, FaithfulAlike DEF Retired
<1> QED BY <1>2, <1>3, <1>4 DEF Kept, CoreOk

\* An answer: a success, a challenge, or a failure of one kind or another.
LEMMA StunFacts ==
  ASSUME NEW c, CoreOk(c), ~ c.destroyed, NEW op \in Operations, has_operation(c, op),
         NEW reply \in Replies
  PROVE  /\ CoreOk(input_stun(c, op, reply)) /\ Faithful(c, input_stun(c, op, reply))
         /\ ~ input_stun(c, op, reply).destroyed
<1> DEFINE t == c.pending[op]
           rest == Forgotten(c, op)
           again == [rest EXCEPT !.auth = TRUE]
<1>1. /\ CoreOk(rest) /\ Faithful(c, rest) /\ ~ has_operation(rest, op) /\ ~ rest.destroyed
      /\ rest.state = Home[op] /\ c \in Core /\ rest \in Core
  BY ForgottenFacts DEF CoreOk, PendingOk
<1>2. t.retries \in Nat
  BY <1>1 DEF Core, Transaction
<1> HIDE DEF rest
<1>3. ASSUME NEW d, CoreOk(d), Faithful(rest, d), ~ d.destroyed, input_stun(c, op, reply) = d
      PROVE  /\ CoreOk(input_stun(c, op, reply)) /\ Faithful(c, input_stun(c, op, reply))
             /\ ~ input_stun(c, op, reply).destroyed
  <2>1. Faithful(c, d)
    BY <1>1, <1>3, FaithfulTransitive DEF CoreOk
  <2> QED BY <1>3, <2>1
<1>4. CASE reply = "gone"
  <2>1. input_stun(c, op, reply) = destroy_allocation(rest, op)
    BY <1>4 DEF input_stun, rest
  <2> QED BY <1>1, <1>3, <2>1, DestroyFacts
<1>5. CASE reply # "gone" /\ reply = "challenge" /\ t.retries < MaxNonceRetries
  <2>1. input_stun(c, op, reply) = start_operation(again, op, t.retries + 1)
    BY <1>5 DEF input_stun, rest
  <2>2. /\ again \in Core /\ again.state = rest.state /\ again.channel = rest.channel
        /\ again.expires = rest.expires /\ again.failures = rest.failures
        /\ again.pending = rest.pending /\ again.controls = rest.controls
        /\ again.events = rest.events /\ again.destroyed = rest.destroyed
    BY <1>1 DEF Core
  <2>3. Kept(rest, again)
    BY <1>1, <2>2, PlainKeeps
  <2> HIDE DEF again
  <2>4. CoreOk(again) /\ t.retries + 1 \in Nat
    BY <1>2, <2>3 DEF Kept
  <2>5. Kept(again, start_operation(again, op, t.retries + 1))
    BY <1>1, <2>2, <2>4, StartKeeps
  <2>6. Kept(rest, start_operation(again, op, t.retries + 1))
    BY <1>1, <2>3, <2>5, KeptTransitive
  <2> QED BY <1>1, <1>3, <2>1, <2>6 DEF Kept
<1>6. CASE /\ reply = "ok" /\ t.authenticated
  <2>1. input_stun(c, op, reply) = complete_success(rest, op)
    BY <1>6 DEF input_stun, rest
  <2> QED BY <1>1, <1>3, <2>1, SuccessFacts
<1>7. CASE /\ reply # "gone" /\ ~ (reply = "ok" /\ t.authenticated)
           /\ ~ (reply = "challenge" /\ t.retries < MaxNonceRetries)
  <2>1. input_stun(c, op, reply) = complete_failure(rest, op)
    BY <1>7 DEF input_stun, rest
  <2> QED BY <1>1, <1>3, <2>1, FailureFacts
<1> QED BY <1>4, <1>5, <1>6, <1>7

LEMMA ExpireFacts ==
  ASSUME NEW c, CoreOk(c), ~ c.destroyed, NEW op \in Operations, has_operation(c, op)
  PROVE  Kept(c, expire_transaction(c, op))
<1>c. /\ c \in Core /\ PendingOk(c) /\ HeldOk(c)
      /\ c.pending \in [Operations -> Transaction] /\ c.controls \in [Operations -> Nat]
  BY DEF CoreOk, Core
<1>1. CASE transport = "Stream" \/ c.pending[op].sent >= MaxTransmissions
  <2>1. expire_transaction(c, op) = complete_failure(Forgotten(c, op), op)
    BY <1>1 DEF expire_transaction
  <2>2. Kept(c, Forgotten(c, op)) /\ CoreOk(Forgotten(c, op)) /\ ~ Forgotten(c, op).destroyed
    BY ForgottenFacts DEF Kept
  <2>3. Kept(Forgotten(c, op), complete_failure(Forgotten(c, op), op))
    BY <2>2, FailureFacts, KeptAlive
  <2> QED BY <2>1, <2>2, <2>3, KeptTransitive
<1>2. CASE ~ (transport = "Stream" \/ c.pending[op].sent >= MaxTransmissions)
  <2> DEFINE m == [c.pending EXCEPT ![op].sent = @ + 1]
             k == [c.controls EXCEPT ![op] = @ + 1]
             d == [c EXCEPT !.pending = m, !.controls = k]
  <2>1. expire_transaction(c, op) = d
    BY <1>c, <1>2 DEF expire_transaction, queue_packet, Core
  <2>2. c.pending[op].sent \in Nat /\ c.pending[op].sent + 1 \in 0 .. MaxTransmissions
    BY <1>c, <1>2, TurnAssumption DEF Transaction
  <2>3. /\ m \in [Operations -> Transaction] /\ k \in [Operations -> Nat]
        /\ m[op].sent = c.pending[op].sent + 1
        /\ \A x \in Operations : m[x].wire = c.pending[x].wire
        /\ \A x \in Operations : x # op => m[x] = c.pending[x] /\ k[x] = c.controls[x]
    BY <1>c, <2>2 DEF Transaction
  <2> HIDE DEF m, k
  <2>4. /\ d \in Core /\ d.pending = m /\ d.controls = k /\ d.state = c.state
        /\ d.channel = c.channel /\ d.expires = c.expires /\ d.failures = c.failures
        /\ d.events = c.events /\ d.destroyed = c.destroyed
    BY <1>c, <2>3 DEF Core
  <2> HIDE DEF d
  <2>5. PendingOk(d)
    BY <1>c, <2>2, <2>3, <2>4 DEF PendingOk, has_operation
  <2>6. HeldOk(d) /\ Claims(c, d)
    BY <1>c, <2>3, <2>4 DEF HeldOk, Claims
  <2>7. Faithful(c, d)
    BY <1>c, <2>4, FaithfulAlike DEF Retired
  <2> QED BY <2>1, <2>4, <2>5, <2>6, <2>7 DEF CoreOk, Kept
<1> QED BY <1>1, <1>2

\* A timer of a ready allocation that goes off.
LEMMA TimerFacts ==
  ASSUME NEW c, CoreOk(c), c.state = "ready", NEW t,
         NEW op \in {"Refresh", "Permission", "Channel"}
  PROVE  /\ Kept(c, start_operation([c EXCEPT !.due = @ \ {t}], op, 0))
         /\ start_operation([c EXCEPT !.due = @ \ {t}], op, 0).state = "ready"
<1> DEFINE d == [c EXCEPT !.due = @ \ {t}]
<1>1. /\ d \in Core /\ d.state = c.state /\ d.channel = c.channel /\ d.expires = c.expires
      /\ d.failures = c.failures /\ d.pending = c.pending /\ d.controls = c.controls
      /\ d.events = c.events /\ d.destroyed = c.destroyed
  BY DEF CoreOk, Core
<1> HIDE DEF d
<1>2. Kept(c, d)
  BY <1>1, PlainKeeps
<1>3. op \in Operations /\ Home[op] = "ready" /\ CoreOk(d)
  BY <1>2, OperationStates DEF Kept
<1>4. Kept(d, start_operation(d, op, 0)) /\ start_operation(d, op, 0).state = "ready"
  BY <1>1, <1>3, StartKeeps
<1>5. Kept(c, start_operation(d, op, 0))
  BY <1>2, <1>4, KeptTransitive
<1> QED BY <1>4, <1>5 DEF d

LEMMA MaintainFacts ==
  ASSUME NEW c, CoreOk(c), c.state = "ready", NEW timer \in Timers
  PROVE  Kept(c, maintain(c, timer))
<1>1. CASE timer = "maintenance"
  <2> DEFINE p == IF has_operation(c, "Permission") THEN c
                  ELSE start_operation([c EXCEPT !.due = @ \ {"permission"}], "Permission", 0)
  <2>1. maintain(c, timer) = IF has_operation(c, "Channel") THEN p
                             ELSE start_operation([p EXCEPT !.due = @ \ {"channel"}], "Channel", 0)
    BY <1>1 DEF maintain
  <2>2. Kept(c, p) /\ p.state = "ready"
    BY KeptSelf, TimerFacts
  <2> HIDE DEF p
  <2>3. Kept(p, start_operation([p EXCEPT !.due = @ \ {"channel"}], "Channel", 0))
    BY <2>2, TimerFacts DEF Kept
  <2>4. Kept(c, start_operation([p EXCEPT !.due = @ \ {"channel"}], "Channel", 0))
    BY <2>2, <2>3, KeptTransitive
  <2> QED BY <2>1, <2>2, <2>4
<1>2. CASE timer = "refresh"
  BY <1>2, KeptSelf, TimerFacts DEF maintain
<1>3. CASE timer = "permission"
  BY <1>3, KeptSelf, TimerFacts DEF maintain
<1>4. CASE timer = "channel"
  BY <1>4, KeptSelf, TimerFacts DEF maintain
<1> QED BY <1>1, <1>2, <1>3, <1>4 DEF Timers

LEMMA PollFacts ==
  ASSUME NEW c, CoreOk(c), NEW fired
  PROVE  Kept(c, poll(c, fired))
<1>1. CASE ~ c.destroyed /\ fired \in Operations /\ has_operation(c, fired)
  <2>1. poll(c, fired) = expire_transaction(c, fired)
    BY <1>1 DEF poll
  <2> QED BY <1>1, <2>1, ExpireFacts
<1>2. CASE /\ ~ c.destroyed /\ ~ (fired \in Operations /\ has_operation(c, fired))
           /\ ~ (c.shutting \/ c.state # "ready")
  <2>1. CASE fired = "expiry"
    <3>1. poll(c, fired) = destroy_allocation(c, "Refresh")
      BY <1>2, <2>1 DEF poll
    <3>2. Kept(c, destroy_allocation(c, "Refresh"))
      BY <1>2, DestroyFacts, OperationStates, KeptAlive
    <3> QED BY <3>1, <3>2
  <2>2. CASE fired # "expiry" /\ fired \in c.due
    <3>1. poll(c, fired) = maintain(c, fired) /\ fired \in Timers
      BY <1>2, <2>2 DEF poll, CoreOk, Core
    <3> QED BY <1>2, <3>1, MaintainFacts
  <2>3. CASE fired # "expiry" /\ fired \notin c.due
    <3>1. poll(c, fired) = c
      BY <1>2, <2>3 DEF poll
    <3> QED BY <3>1, KeptSelf
  <2> QED BY <2>1, <2>2, <2>3
<1>3. CASE \/ c.destroyed
           \/ ~ (fired \in Operations /\ has_operation(c, fired)) /\ (c.shutting \/ c.state # "ready")
  <2>1. poll(c, fired) = c
    BY <1>3 DEF poll
  <2> QED BY <2>1, KeptSelf
<1> QED BY <1>1, <1>2, <1>3

\* The allocation is given back, or its Allocate awaited first.
LEMMA ShutdownFacts ==
  ASSUME NEW c, CoreOk(c)
  PROVE  /\ Kept(c, graceful_shutdown(c))
         /\ graceful_shutdown(c).expires = c.expires
         /\ graceful_shutdown(c).failures = c.failures
<1> DEFINE closed == [c EXCEPT !.shutting = TRUE, !.channel = FALSE,
                               !.due = @ \cap {"refresh"}, !.controls = NoControls]
           none == [closed EXCEPT !.pending = NothingPending]
<1>c. c \in Core /\ PendingOk(c) /\ HeldOk(c)
  BY DEF CoreOk
<1>1. /\ closed \in Core /\ closed.state = c.state /\ closed.channel = FALSE
      /\ closed.expires = c.expires /\ closed.failures = c.failures
      /\ closed.pending = c.pending /\ closed.controls = NoControls
      /\ closed.events = c.events /\ closed.destroyed = c.destroyed
  BY <1>c, ConstantTypes DEF Core
<1>2. /\ none \in Core /\ none.state = c.state /\ none.channel = FALSE
      /\ none.expires = c.expires /\ none.failures = c.failures
      /\ none.pending = NothingPending /\ none.controls = NoControls
      /\ none.events = c.events /\ none.destroyed = c.destroyed
  <2> HIDE DEF closed
  <2> QED BY <1>1, ConstantTypes DEF Core
<1>3. CASE c.destroyed \/ c.shutting
  <2>1. graceful_shutdown(c) = c
    BY <1>3 DEF graceful_shutdown
  <2> QED BY <2>1, KeptSelf
<1>4. CASE /\ ~ (c.destroyed \/ c.shutting)
           /\ c.state = "ready" \/ (c.state = "destroying" /\ c.expires)
  <2> DEFINE y == set_state(none, "deallocating")
             d == start_operation(y, "Deallocate", 0)
  <2>1. graceful_shutdown(c) = d
    BY <1>4 DEF graceful_shutdown
  <2> HIDE DEF closed, none
  <2>2. "deallocating" \in States /\ "deallocating" \notin Over
    BY DEF States, Over
  <2>3. y \in Core /\ Alike([none EXCEPT !.state = "deallocating"], y) /\ y.state = "deallocating"
    BY <1>2, <2>2, StateFacts
  <2>4. /\ y.failures = c.failures /\ y.expires = c.expires /\ y.destroyed = c.destroyed
        /\ y.channel = FALSE /\ y.pending = NothingPending /\ y.controls = NoControls
    BY <1>2, <2>3 DEF Alike, Core
  <2>5. ASSUME Retired(c) PROVE Retired(y)
    <3>1. c.failures \in 0 .. MaxChannelFailures /\ MaxChannelFailures \in Nat
      BY <1>c, TurnAssumption DEF Core
    <3>2. CASE c.state = "ready"
      <4>1. c.failures < MaxChannelFailures
        BY <1>c, <3>2 DEF HeldOk
      <4> QED BY <1>4, <2>5, <3>1, <3>2, <4>1 DEF Retired, Over
    <3>3. CASE c.state = "destroying" /\ c.expires
      <4>1. ~ (c.failures < MaxChannelFailures)
        BY <1>c, <1>4, <3>3 DEF HeldOk
      <4> QED BY <2>4, <3>1, <4>1 DEF Retired
    <3> QED BY <1>4, <3>2, <3>3
  <2>6. Faithful(c, y)
    BY <1>c, <1>2, <1>4, <2>2, <2>5, StateFaithful
  <2> HIDE DEF y
  <2>7. PendingOk(y) /\ HeldOk(y) /\ Claims(c, y)
    BY <2>3, <2>4, EmptyPending, ConstantTypes DEF HeldOk, Claims
  <2>8. Kept(c, y)
    BY <2>3, <2>4, <2>6, <2>7 DEF Kept, CoreOk
  <2>9. /\ Kept(y, d) /\ d.expires = y.expires /\ d.failures = y.failures
    BY <2>3, <2>8, OperationStates, StartFacts DEF Kept
  <2> HIDE DEF d
  <2> QED BY <2>1, <2>4, <2>8, <2>9, KeptTransitive
<1>5. ASSUME NEW d, d = closed \/ d = none, ~ c.channel
      PROVE  Kept(c, d) /\ d.expires = c.expires /\ d.failures = c.failures
  <2>1. /\ d \in Core /\ d.state = c.state /\ d.channel = FALSE
        /\ d.expires = c.expires /\ d.failures = c.failures
        /\ d.pending \in {c.pending, NothingPending} /\ d.controls = NoControls
        /\ d.events = c.events /\ d.destroyed = c.destroyed
    <3> HIDE DEF closed, none
    <3> QED BY <1>1, <1>2, <1>5
  <2>2. PendingOk(d) /\ Claims(c, d)
    BY <1>c, <2>1, ConstantTypes DEF PendingOk, has_operation, Claims
  <2>3. HeldOk(d)
    BY <1>c, <2>1 DEF HeldOk
  <2>4. Faithful(c, d)
    BY <1>c, <1>5, <2>1, FaithfulAlike DEF Retired
  <2> QED BY <2>1, <2>2, <2>3, <2>4 DEF Kept, CoreOk
<1>6. CASE /\ ~ (c.destroyed \/ c.shutting)
           /\ ~ (c.state = "ready" \/ (c.state = "destroying" /\ c.expires))
  <2>1. graceful_shutdown(c) = IF c.state = "allocating" THEN closed ELSE none
    BY <1>6 DEF graceful_shutdown
  <2>2. ~ c.channel
    BY <1>c, <1>6 DEF HeldOk
  <2> HIDE DEF closed, none
  <2> QED BY <1>5, <2>1, <2>2
<1> QED BY <1>3, <1>4, <1>6

LEMMA ForceFacts ==
  ASSUME NEW c, CoreOk(c)
  PROVE  /\ CoreOk(force_destroy(c)) /\ Faithful(c, force_destroy(c)) /\ Claims(c, force_destroy(c))
         /\ force_destroy(c).destroyed
         /\ force_destroy(c).expires = c.expires
         /\ force_destroy(c).failures = c.failures
         /\ force_destroy(c).pending \in {c.pending, NothingPending}
         /\ force_destroy(c).controls \in {c.controls, NoControls}
<1> DEFINE e == [c EXCEPT !.destroyed = TRUE, !.controls = NoControls, !.pending = NothingPending]
           y == set_state(e, "destroying")
           d == push_event(y, [kind |-> "forced"])
<1>c. c \in Core /\ PendingOk(c) /\ HeldOk(c)
  BY DEF CoreOk
<1>1. CASE c.destroyed
  <2>1. force_destroy(c) = c
    BY <1>1 DEF force_destroy
  <2> QED BY <1>1, <2>1, KeptSelf DEF Kept
<1>2. CASE ~ c.destroyed
  <2>1. force_destroy(c) = d
    BY <1>2 DEF force_destroy
  <2>2. /\ e \in Core /\ e.state = c.state /\ e.channel = c.channel
        /\ e.expires = c.expires /\ e.failures = c.failures
        /\ e.pending = NothingPending /\ e.controls = NoControls
        /\ e.events = c.events /\ e.destroyed = TRUE
    BY <1>c, ConstantTypes DEF Core
  <2> HIDE DEF e
  <2>3. "destroying" \in States
    BY DEF States
  <2>4. y \in Core /\ Alike([e EXCEPT !.state = "destroying"], y) /\ y.state = "destroying"
    BY <2>2, <2>3, StateFacts
  <2>5. /\ y.failures = c.failures /\ y.expires = c.expires /\ y.destroyed
        /\ y.channel = c.channel /\ y.pending = NothingPending /\ y.controls = NoControls
    BY <2>2, <2>4 DEF Alike, Core
  <2>6. Retired(y)
    BY <2>5 DEF Retired
  <2>7. Faithful(c, y)
    BY <1>c, <2>2, <2>3, <2>6, StateFaithful
  <2> HIDE DEF y
  <2>8. [kind |-> "forced"] \in Event /\ ~ Retires([kind |-> "forced"])
    BY EventTypes DEF Retires
  <2>9. d \in Core /\ Alike(y, d) /\ d.events = Append(y.events, [kind |-> "forced"])
    BY <2>4, <2>8, PushFacts
  <2> HIDE DEF d
  <2>10. /\ d.failures = c.failures /\ d.expires = c.expires /\ d.destroyed /\ d.channel = y.channel
         /\ d.pending = NothingPending /\ d.controls = NoControls /\ d.state = "destroying"
    BY <2>4, <2>5, <2>9 DEF Alike
  <2>11. Faithful(y, d)
    <3>1. Retired(d) /\ (y.channel => d.channel)
      BY <2>10 DEF Retired
    <3> QED BY <2>4, <2>8, <2>9, <3>1, FaithfulAppend
  <2>12. Faithful(c, d)
    BY <1>c, <2>4, <2>7, <2>9, <2>11, FaithfulTransitive
  <2>13. PendingOk(d) /\ HeldOk(d) /\ Claims(c, d)
    BY <2>10, EmptyPending, ConstantTypes DEF HeldOk, Claims
  <2> QED BY <2>1, <2>9, <2>10, <2>12, <2>13 DEF CoreOk
<1> QED BY <1>1, <1>2

-----------------------------------------------------------------------------
(* The invariant.                                                          *)

DriverTypes == driver \in [at : {"top", "poll", "send", "events", "wait", "ended"},
                           pump : BOOLEAN, fired : Operations \cup Timers \cup {"none", "expiry"},
                           cleanup : BOOLEAN, requested : BOOLEAN, unexpected : BOOLEAN]
SharedTypes == shared \in [closing : BOOLEAN, terminal : BOOLEAN, control_sent : BOOLEAN,
                           channel : BOOLEAN, wake : BOOLEAN]
SnapTypes == snap \in [state : States, relay : BOOLEAN, channel : BOOLEAN,
                       allocate : {"none", "ok", "failed"}, bind : {"none", "ok", "failed"},
                       binds : Nat]
OwnerTypes == owner \in [at : {"start", "allocating", "ready", "permission", "binding", "up",
                               "leaving", "closing", "closed", "gone"}, baseline : Nat]
TypesInv == DriverTypes /\ SharedTypes /\ SnapTypes /\ OwnerTypes

\* Whoever believes in the channel is right, or the news to the contrary is
\* queued; the same for the end of the allocation the other way round.
NewsInv ==
    /\ \A i \in 1 .. Len(core.events) :
          core.events[i].kind = "bound"
              => \/ core.channel
                 \/ \E k \in i + 1 .. Len(core.events) : Unbinds(core.events[k])
    /\ shared.channel => core.channel \/ \E k \in 1 .. Len(core.events) : Unbinds(core.events[k])
    /\ (snap.state \in Over \/ \E i \in 1 .. Len(core.events) : Retires(core.events[i]))
          => Retired(core)

\* Nothing is held and nothing was sent that the driver has not sent.
SentInv == (core.expires \/ \E op \in Operations : core.pending[op].wire) => shared.control_sent

EndInv == (core.destroyed <=> At("ended")) /\ AllocationReturned

StartInv ==
    owner.at = "start" =>
        /\ core.pending = NothingPending /\ core.controls = NoControls
        /\ core.failures < MaxChannelFailures
        /\ core.state = "null" \/ core.destroyed
        /\ ~ shared.control_sent

TurnInv == CoreOk(core) /\ TypesInv /\ NewsInv /\ SentInv /\ EndInv /\ StartInv

-----------------------------------------------------------------------------
(* Types.                                                                  *)

LEMMA EventFields ==
  ASSUME NEW e \in Event
  PROVE  /\ e.kind = "state" => e.state \in States
         /\ e.kind = "complete" => e.op \in Operations /\ e.ok \in BOOLEAN
BY DEF Event

LEMMA HeadFacts ==
  ASSUME CoreOk(core), core.events # <<>>
  PROVE  /\ Head(core.events) \in Event /\ Head(core.events) = core.events[1]
         /\ Len(core.events) \in Nat \ {0} /\ Tail(core.events) \in Seq(Event)
         /\ Len(Tail(core.events)) = Len(core.events) - 1
         /\ \A i \in 1 .. Len(core.events) - 1 : Tail(core.events)[i] = core.events[i + 1]
<1>1. core.events \in Seq(Event)
  BY DEF CoreOk, Core
<1> QED BY <1>1, HeadTailProperties

LEMMA SharedStep ==
  ASSUME TypesInv, CoreOk(core), Next
  PROVE  SharedTypes'
<1>t. SharedTypes
  BY DEF TypesInv
<1>1. /\ fail(shared) \in [closing : BOOLEAN, terminal : BOOLEAN, control_sent : BOOLEAN,
                           channel : BOOLEAN, wake : BOOLEAN]
      /\ request_cleanup(shared) \in [closing : BOOLEAN, terminal : BOOLEAN,
                           control_sent : BOOLEAN, channel : BOOLEAN, wake : BOOLEAN]
      /\ request_cleanup(fail(shared)) \in [closing : BOOLEAN, terminal : BOOLEAN,
                           control_sent : BOOLEAN, channel : BOOLEAN, wake : BOOLEAN]
  BY <1>t DEF fail, request_cleanup, SharedTypes
<1>2. ASSUME Driver PROVE SharedTypes'
  <2>1. CASE pump_event
    <3>1. shared' \in {shared, fail(shared), request_cleanup(fail(shared)),
                       [shared EXCEPT !.channel = @ /\ Head(core.events).state = "ready"],
                       [shared EXCEPT !.channel = TRUE]}
      BY <2>1 DEF pump_event
    <3>2. \A b \in BOOLEAN : [shared EXCEPT !.channel = b] \in
             [closing : BOOLEAN, terminal : BOOLEAN, control_sent : BOOLEAN,
              channel : BOOLEAN, wake : BOOLEAN]
      BY <1>t DEF SharedTypes
    <3> QED BY <1>t, <1>1, <3>1, <3>2 DEF SharedTypes
  <2>2. CASE pump_end
    BY <1>t, <1>1, <2>2 DEF pump_end, SharedTypes
  <2>3. CASE pump_send
    BY <1>t, <2>3 DEF pump_send, SharedTypes
  <2>4. CASE wait_wake
    BY <1>t, <2>4 DEF wait_wake, SharedTypes
  <2>5. CASE wait_owner_closed
    BY <1>1, <2>5 DEF wait_owner_closed, SharedTypes
  <2> QED BY <1>t, <1>2, <2>1, <2>2, <2>3, <2>4, <2>5
          DEF Driver, top_open, top_unused, top_cleanup, pump_poll, pump_sent, wait_transaction,
              SharedTypes
<1>3. ASSUME Surroundings PROVE SharedTypes'
  BY <1>t, <1>1, <1>3 DEF Surroundings, top_cut, pump_send_error, wait_error, wait_packet,
                          wait_timer, SharedTypes
<1>4. ASSUME Owner PROVE SharedTypes'
  <2>1. [shared EXCEPT !.wake = TRUE] \in
             [closing : BOOLEAN, terminal : BOOLEAN, control_sent : BOOLEAN,
              channel : BOOLEAN, wake : BOOLEAN]
    BY <1>t DEF SharedTypes
  <2> QED BY <1>t, <1>1, <1>4, <2>1
          DEF Owner, Waiting, Closing, start_allocation, prepare_channel, start_permission,
              start_channel, allocation_timeout, leave, deallocate_abort, wait_for_allocation,
              wait_for_channel, deallocate, deallocate_core, drop, SharedTypes
<1> QED BY <1>2, <1>3, <1>4 DEF Next

LEMMA OwnerStep ==
  ASSUME TypesInv, Next
  PROVE  OwnerTypes'
<1>t. OwnerTypes /\ snap.binds \in Nat
  BY DEF TypesInv, SnapTypes
<1>1. ASSUME Driver \/ Surroundings PROVE OwnerTypes'
  <2>1. owner' = owner
    BY <1>1 DEF Driver, Surroundings, top_open, top_unused, top_cleanup, pump_poll, pump_send,
                pump_sent, pump_event, pump_end, wait_wake, wait_owner_closed, wait_transaction,
                top_cut, pump_send_error, wait_error, wait_packet, wait_timer
  <2> QED BY <1>t, <2>1 DEF OwnerTypes
<1>2. ASSUME Owner PROVE OwnerTypes'
  BY <1>t, <1>2
     DEF Owner, Waiting, Closing, start_allocation, prepare_channel, start_permission,
         start_channel, allocation_timeout, leave, deallocate_abort, wait_for_allocation,
         wait_for_channel, deallocate, deallocate_core, drop, OwnerTo, Leave, OwnerTypes
<1> QED BY <1>1, <1>2 DEF Next

LEMMA SnapStep ==
  ASSUME TypesInv, CoreOk(core), Next
  PROVE  SnapTypes'
<1>t. SnapTypes
  BY DEF TypesInv
<1>1. CASE pump_event
  <2> DEFINE e == Head(core.events)
  <2>1. e \in Event
    BY <1>1, HeadFacts DEF pump_event
  <2>3. CASE e.kind = "state"
    <3>1. e.state \in States
      BY <2>1, <2>3, EventFields
    <3>2. snap' = [snap EXCEPT !.state = e.state, !.channel = @ /\ e.state = "ready",
                               !.relay = @ /\ e.state \notin Over]
      BY <1>1, <2>3 DEF pump_event
    <3> HIDE DEF e
    <3> QED BY <1>t, <3>1, <3>2 DEF SnapTypes
  <2>4. CASE e.kind # "state"
    <3>1. \/ snap' \in {snap, [snap EXCEPT !.channel = TRUE], [snap EXCEPT !.relay = TRUE]}
          \/ \E w \in {"ok", "failed"} : \/ snap' = [snap EXCEPT !.allocate = w]
                                        \/ snap' = [snap EXCEPT !.bind = w, !.binds = @ + 1]
      BY <1>1, <2>4 DEF pump_event
    <3> HIDE DEF e
    <3>2. CASE snap' \in {snap, [snap EXCEPT !.channel = TRUE], [snap EXCEPT !.relay = TRUE]}
      BY <1>t, <3>2 DEF SnapTypes
    <3>3. ASSUME NEW w \in {"ok", "failed"},
                 \/ snap' = [snap EXCEPT !.allocate = w]
                 \/ snap' = [snap EXCEPT !.bind = w, !.binds = @ + 1]
          PROVE  SnapTypes'
      <4>1. w \in {"none", "ok", "failed"} /\ snap.binds + 1 \in Nat
        BY <1>t DEF SnapTypes
      <4>2. CASE snap' = [snap EXCEPT !.allocate = w]
        BY <1>t, <4>1, <4>2 DEF SnapTypes
      <4>3. CASE snap' = [snap EXCEPT !.bind = w, !.binds = @ + 1]
        <5> DEFINE n == snap.binds + 1
        <5>1. snap' = [snap EXCEPT !.bind = w, !.binds = n] /\ n \in Nat
          BY <4>1, <4>3
        <5> HIDE DEF n
        <5> QED BY <1>t, <4>1, <5>1 DEF SnapTypes
      <4> QED BY <3>3, <4>2, <4>3
    <3> QED BY <3>1, <3>2, <3>3
  <2> QED BY <2>3, <2>4
<1>2. CASE ~ pump_event
  <2>1. snap' = snap
    BY <1>2
       DEF Next, Driver, Surroundings, top_open, top_unused, top_cleanup, pump_poll, pump_send,
           pump_sent, pump_end, wait_wake, wait_owner_closed, wait_transaction,
           top_cut, pump_send_error, wait_error, wait_packet, wait_timer,
           Owner, Waiting, Closing, start_allocation, prepare_channel, start_permission,
           start_channel, allocation_timeout, leave, deallocate_abort, wait_for_allocation,
           wait_for_channel, deallocate, deallocate_core, drop
  <2> QED BY <1>t, <2>1 DEF SnapTypes
<1> QED BY <1>1, <1>2

LEMMA DriverStep ==
  ASSUME TypesInv, Next
  PROVE  DriverTypes'
<1>t. DriverTypes
  BY DEF TypesInv
<1>1. \A f \in Operations \cup Timers \cup {"none", "expiry"} :
        [Woken EXCEPT !.fired = f] \in
          [at : {"top", "poll", "send", "events", "wait", "ended"},
           pump : BOOLEAN, fired : Operations \cup Timers \cup {"none", "expiry"},
           cleanup : BOOLEAN, requested : BOOLEAN, unexpected : BOOLEAN]
  BY <1>t DEF Woken, DriverTypes
<1>2. ASSUME Driver PROVE DriverTypes'
  <2>1. CASE top_cleanup
    <3> DEFINE d == [driver EXCEPT !.cleanup = TRUE, !.requested = TRUE,
                                   !.pump = @ \/ ~ driver.requested]
    <3>1. d \in [at : {"top", "poll", "send", "events", "wait", "ended"},
                 pump : BOOLEAN, fired : Operations \cup Timers \cup {"none", "expiry"},
                 cleanup : BOOLEAN, requested : BOOLEAN, unexpected : BOOLEAN]
      BY <1>t DEF DriverTypes
    <3>2. driver' = Continued(d) \/ driver' = [driver EXCEPT !.at = "ended"]
      BY <2>1 DEF top_cleanup, Ended
    <3> HIDE DEF d
    <3> QED BY <1>t, <3>1, <3>2 DEF Continued, DriverTypes
  <2>2. ASSUME NEW op \in Operations, wait_transaction(op) PROVE DriverTypes'
    BY <1>1, <2>2 DEF wait_transaction, DriverTypes
  <2> QED BY <1>t, <1>2, <2>1, <2>2
          DEF Driver, top_open, top_unused, pump_poll, pump_send, pump_sent, pump_event, pump_end,
              wait_wake, wait_owner_closed, Ended, Continued, Woken, DriverTypes
<1>3. ASSUME Surroundings PROVE DriverTypes'
  <2>1. ASSUME NEW t \in Timers \cup {"expiry"}, wait_timer(t) PROVE DriverTypes'
    BY <1>1, <2>1 DEF wait_timer, DriverTypes
  <2> QED BY <1>t, <1>3, <2>1
          DEF Surroundings, top_cut, pump_send_error, wait_error, wait_packet, Ended, Woken,
              DriverTypes
<1>4. ASSUME Owner PROVE DriverTypes'
  BY <1>t, <1>4
     DEF Owner, Waiting, Closing, start_allocation, prepare_channel, start_permission,
         start_channel, allocation_timeout, leave, deallocate_abort, wait_for_allocation,
         wait_for_channel, deallocate, deallocate_core, drop, Ended, DriverTypes
<1> QED BY <1>2, <1>3, <1>4 DEF Next

LEMMA TypesStep ==
  ASSUME TypesInv, CoreOk(core), Next
  PROVE  TypesInv'
BY SharedStep, OwnerStep, SnapStep, DriverStep DEF TypesInv

-----------------------------------------------------------------------------
(* Steps that change the core by one of its operations.                    *)

LEMMA NewsKeeps ==
  ASSUME core \in Core, core' \in Core, NewsInv, Faithful(core, core'),
         snap'.state = snap.state, shared'.channel => shared.channel
  PROVE  NewsInv'
<1>1. /\ Len(core.events) \in Nat /\ Len(core'.events) \in Nat
      /\ Len(core.events) =< Len(core'.events)
      /\ \A i \in 1 .. Len(core.events) : core'.events[i] = core.events[i]
  BY DEF Core, Faithful
<1>2. \A i \in 1 .. Len(core'.events) : i \in 1 .. Len(core.events) \/ i \in News(core, core')
  BY <1>1 DEF News
<1>3. \A k \in News(core, core') : k \in 1 .. Len(core'.events)
  BY <1>1 DEF News
<1>4. ASSUME NEW i \in 1 .. Len(core'.events), core'.events[i].kind = "bound"
      PROVE  core'.channel \/ \E k \in i + 1 .. Len(core'.events) : Unbinds(core'.events[k])
  <2>1. CASE i \in News(core, core')
    BY <1>4, <2>1 DEF Faithful
  <2>2. CASE i \in 1 .. Len(core.events)
    <3>1. core.channel \/ \E k \in i + 1 .. Len(core.events) : Unbinds(core.events[k])
      BY <1>1, <1>4, <2>2 DEF NewsInv
    <3>2. CASE core.channel
      <4>1. core'.channel \/ \E k \in News(core, core') : Unbinds(core'.events[k])
        BY <3>2 DEF Faithful
      <4>2. \A k \in News(core, core') : k \in i + 1 .. Len(core'.events)
        BY <1>1, <2>2 DEF News
      <4> QED BY <4>1, <4>2
    <3>3. ASSUME NEW k \in i + 1 .. Len(core.events), Unbinds(core.events[k])
          PROVE  \E m \in i + 1 .. Len(core'.events) : Unbinds(core'.events[m])
      <4>1. k \in i + 1 .. Len(core'.events) /\ k \in 1 .. Len(core.events)
        BY <1>1, <2>2
      <4> QED BY <1>1, <3>3, <4>1
    <3> QED BY <3>1, <3>2, <3>3
  <2> QED BY <1>2, <2>1, <2>2
<1>5. ASSUME shared'.channel
      PROVE  core'.channel \/ \E k \in 1 .. Len(core'.events) : Unbinds(core'.events[k])
  <2>1. core.channel \/ \E k \in 1 .. Len(core.events) : Unbinds(core.events[k])
    BY <1>5 DEF NewsInv
  <2>2. CASE core.channel
    BY <1>3, <2>2 DEF Faithful
  <2>3. ASSUME NEW k \in 1 .. Len(core.events), Unbinds(core.events[k])
        PROVE  \E m \in 1 .. Len(core'.events) : Unbinds(core'.events[m])
    <3>1. k \in 1 .. Len(core'.events)
      BY <1>1
    <3> QED BY <1>1, <2>3, <3>1
  <2> QED BY <2>1, <2>2, <2>3
<1>6. ASSUME snap'.state \in Over \/ \E i \in 1 .. Len(core'.events) : Retires(core'.events[i])
      PROVE  Retired(core')
  <2>1. CASE snap.state \in Over
    BY <2>1 DEF NewsInv, Faithful
  <2>2. ASSUME NEW i \in 1 .. Len(core'.events), Retires(core'.events[i]) PROVE Retired(core')
    <3>1. CASE i \in News(core, core')
      BY <2>2, <3>1 DEF Faithful
    <3>2. CASE i \in 1 .. Len(core.events)
      BY <1>1, <2>2, <3>2 DEF NewsInv, Faithful
    <3> QED BY <1>2, <3>1, <3>2
  <2> QED BY <1>6, <2>1, <2>2
<1> QED BY <1>4, <1>5, <1>6 DEF NewsInv, Retired, Unbinds, Retires

LEMMA SentKeeps ==
  ASSUME SentInv, Claims(core, core'), shared.control_sent => shared'.control_sent
  PROVE  SentInv'
BY DEF SentInv, Claims

LEMMA KeptStep ==
  ASSUME TurnInv, TypesInv', Kept(core, core'), StartInv',
         snap'.state = snap.state, shared'.channel => shared.channel,
         shared.control_sent => shared'.control_sent,
         driver'.at = "ended" <=> driver.at = "ended",
         driver.at = "ended" => (cut => cut') /\ core'.failures = core.failures
  PROVE  TurnInv'
<1>1. CoreOk(core') /\ core' \in Core /\ core \in Core /\ Faithful(core, core')
      /\ Claims(core, core') /\ core'.destroyed = core.destroyed
  BY DEF TurnInv, Kept, CoreOk
<1>2. CoreOk(core)'
  BY <1>1 DEF CoreOk, PendingOk, HeldOk, has_operation
<1>3. NewsInv'
  BY <1>1, NewsKeeps DEF TurnInv
<1>4. SentInv'
  BY <1>1, SentKeeps DEF TurnInv
<1>5. EndInv'
  <2>1. core'.destroyed <=> driver'.at = "ended"
    BY <1>1 DEF TurnInv, EndInv, At
  <2>2. driver'.at = "ended" /\ ~ cut' /\ core'.failures < MaxChannelFailures => ~ core'.expires
    BY <1>1 DEF TurnInv, EndInv, AllocationReturned, At, Claims
  <2> QED BY <2>1, <2>2 DEF EndInv, AllocationReturned, At
<1> QED BY <1>2, <1>3, <1>4, <1>5 DEF TurnInv

\* The driver ends.
LEMMA EndStep ==
  ASSUME TurnInv, TypesInv', NEW c, Kept(core, c), core' = force_destroy(c), StartInv',
         snap'.state = snap.state, shared'.channel => shared.channel,
         shared.control_sent => shared'.control_sent, driver'.at = "ended",
         cut' \/ ~ c.expires \/ c.failures = MaxChannelFailures
  PROVE  TurnInv'
<1>0. CoreOk(c) /\ c \in Core /\ core \in Core
  BY DEF TurnInv, Kept, CoreOk
<1>1. /\ CoreOk(core') /\ core' \in Core /\ Faithful(c, core') /\ Claims(c, core')
      /\ core'.destroyed /\ core'.expires = c.expires /\ core'.failures = c.failures
  BY <1>0, ForceFacts DEF CoreOk
<1>2. CoreOk(core)'
  BY <1>1 DEF CoreOk, PendingOk, HeldOk, has_operation
<1>3. NewsInv'
  <2>1. Faithful(core, core')
    BY <1>0, <1>1, FaithfulTransitive DEF Kept
  <2> QED BY <1>0, <1>1, <2>1, NewsKeeps DEF TurnInv
<1>4. SentInv'
  <2>1. Claims(core, core')
    BY <1>1 DEF Kept, Claims
  <2> QED BY <2>1, SentKeeps DEF TurnInv
<1>5. EndInv'
  <2>1. core'.failures \in 0 .. MaxChannelFailures /\ MaxChannelFailures \in Nat
    BY <1>1, TurnAssumption DEF Core
  <2>2. ~ cut' /\ core'.failures < MaxChannelFailures => ~ core'.expires
    BY <1>1, <2>1
  <2> QED BY <1>1, <2>2 DEF EndInv, AllocationReturned, At
<1> QED BY <1>2, <1>3, <1>4, <1>5 DEF TurnInv

\* Steps that leave the core alone.
LEMMA CoreSame ==
  ASSUME TurnInv, core' = core
  PROVE  Kept(core, core')
BY KeptSelf DEF TurnInv

\* Before the owner starts, the driver finds nothing to do.
LEMMA StartStep ==
  ASSUME TurnInv, TypesInv', Next
  PROVE  StartInv'
<1> SUFFICES ASSUME owner'.at = "start"
             PROVE  /\ core'.pending = NothingPending /\ core'.controls = NoControls
                    /\ core'.failures < MaxChannelFailures
                    /\ core'.state = "null" \/ core'.destroyed
                    /\ ~ shared'.control_sent
  BY DEF StartInv
<1>t. CoreOk(core) /\ core \in Core /\ OwnerTypes /\ SharedTypes
  BY DEF TurnInv, TypesInv, CoreOk
<1>1. Driver \/ Surroundings
  <2>1. ~ Owner
    BY <1>t
       DEF Owner, Waiting, Closing, start_allocation, prepare_channel, start_permission,
           start_channel, allocation_timeout, leave, deallocate_abort, wait_for_allocation,
           wait_for_channel, deallocate, deallocate_core, drop, OwnerTo, Leave, OwnerTypes
  <2> QED BY <2>1 DEF Next
<1>2. owner' = owner
  BY <1>1 DEF Driver, Surroundings, top_open, top_unused, top_cleanup, pump_poll, pump_send,
              pump_sent, pump_event, pump_end, wait_wake, wait_owner_closed, wait_transaction,
              top_cut, pump_send_error, wait_error, wait_packet, wait_timer
<1>3. /\ core.pending = NothingPending /\ core.controls = NoControls
      /\ core.failures < MaxChannelFailures
      /\ core.state = "null" \/ core.destroyed
      /\ ~ shared.control_sent
  BY <1>2 DEF TurnInv, StartInv
<1>4. \A op \in Operations : /\ core.controls[op] = 0 /\ ~ core.pending[op].wire
                             /\ ~ has_operation(core, op)
  <2> SUFFICES ASSUME NEW op \in Operations
               PROVE  /\ core.controls[op] = 0 /\ ~ core.pending[op].wire
                      /\ ~ has_operation(core, op)
    OBVIOUS
  <2>1. core.controls[op] = 0 /\ core.pending[op].wire = FALSE /\ core.pending[op].sent = 0
    BY <1>3, ConstantTypes
  <2> QED BY <2>1 DEF has_operation
<1>5. CASE pump_poll
  <2>1. core' = poll(core, driver.fired) /\ shared' = shared
    BY <1>5 DEF pump_poll
  <2>2. poll(core, driver.fired) = core
    BY <1>3, <1>4 DEF poll
  <2> QED BY <1>3, <2>1, <2>2
<1>6. CASE top_unused
  <2>1. core' = force_destroy(core) /\ shared' = shared
    BY <1>6 DEF top_unused, Ended
  <2>2. /\ force_destroy(core).destroyed
        /\ force_destroy(core).failures = core.failures
        /\ force_destroy(core).pending \in {core.pending, NothingPending}
        /\ force_destroy(core).controls \in {core.controls, NoControls}
    BY <1>t, ForceFacts
  <2> QED BY <1>3, <2>1, <2>2
<1>7. CASE pump_event
  <2>1. /\ core'.pending = core.pending /\ core'.controls = core.controls
        /\ core'.failures = core.failures /\ core'.state = core.state
        /\ core'.destroyed = core.destroyed
    BY <1>7, <1>t DEF pump_event, Core
  <2>2. shared'.control_sent = shared.control_sent
    BY <1>7, <1>t DEF pump_event, SharedTypes, fail, request_cleanup
  <2> QED BY <1>3, <2>1, <2>2
<1>8. ~ top_cleanup /\ ~ top_cut /\ ~ pump_send /\ ~ pump_send_error
  <2>1. ~ top_cleanup /\ ~ top_cut
    BY <1>3 DEF top_cleanup, top_cut
  <2>2. \A op \in Operations : ~ (core.controls[op] > 0)
    BY <1>4
  <2> QED BY <2>1, <2>2 DEF pump_send, pump_send_error
<1>9. \A op \in Operations, reply \in Replies : ~ wait_packet(op, reply)
  BY <1>4 DEF wait_packet
<1>10. CASE \/ top_open \/ pump_sent \/ pump_end \/ wait_wake \/ wait_owner_closed \/ wait_error
            \/ \E op \in Operations : wait_transaction(op)
            \/ \E t \in Timers \cup {"expiry"} : wait_timer(t)
  <2>1. core' = core
    BY <1>10 DEF top_open, pump_sent, pump_end, wait_wake, wait_owner_closed, wait_error,
                 wait_transaction, wait_timer
  <2>2. shared' \in {shared, [shared EXCEPT !.wake = FALSE], fail(shared),
                     request_cleanup(shared), request_cleanup(fail(shared))}
    BY <1>10 DEF top_open, pump_sent, pump_end, wait_wake, wait_owner_closed, wait_error,
                 wait_transaction, wait_timer
  <2>3. shared'.control_sent = shared.control_sent
    BY <1>t, <2>2 DEF SharedTypes, fail, request_cleanup
  <2> QED BY <1>3, <2>1, <2>3
<1> QED BY <1>1, <1>5, <1>6, <1>7, <1>8, <1>9, <1>10 DEF Driver, Surroundings

LEMMA TurnInit ==
  ASSUME Init
  PROVE  TurnInv
<1>1. /\ core.state = "null" /\ core.channel = FALSE /\ core.expires = FALSE
      /\ core.failures = 0 /\ core.pending = NothingPending /\ core.controls = NoControls
      /\ core.events = <<>> /\ core.destroyed = FALSE
  BY DEF Init
<1>2. NothingPending \in [Operations -> Transaction] /\ NoControls \in [Operations -> Nat]
  BY ConstantTypes
<1>3. core \in Core
  <2>1. MaxChannelFailures \in Nat /\ 0 \in 0 .. MaxChannelFailures /\ <<>> \in Seq(Event)
    BY TurnAssumption
  <2> QED BY <1>2, <2>1 DEF Init, Core, States
<1>4. CoreOk(core)
  BY <1>1, <1>3, EmptyPending, TurnAssumption DEF CoreOk, HeldOk
<1>5. TypesInv
  BY DEF Init, TypesInv, DriverTypes, SharedTypes, SnapTypes, OwnerTypes, States
<1>6. Len(core.events) = 0
  BY <1>1
<1>7. NewsInv
  <2>1. shared.channel = FALSE /\ snap.state = "null" /\ "null" \notin Over
    BY DEF Init, Over
  <2> QED BY <1>6, <2>1 DEF NewsInv
<1>8. SentInv
  BY <1>1, ConstantTypes DEF SentInv
<1>9. EndInv
  <2>1. driver.at = "top"
    BY DEF Init
  <2> QED BY <1>1, <2>1 DEF EndInv, AllocationReturned, At
<1>10. StartInv
  <2>1. shared.control_sent = FALSE
    BY DEF Init
  <2> QED BY <1>1, <2>1, TurnAssumption DEF StartInv
<1> QED BY <1>4, <1>5, <1>7, <1>8, <1>9, <1>10 DEF TurnInv

-----------------------------------------------------------------------------
(* One step.                                                               *)

\* What the flags of the shared state may do outside pump_event.
LEMMA FlagFacts ==
  ASSUME SharedTypes, NEW s \in {shared, [shared EXCEPT !.wake = FALSE], [shared EXCEPT !.wake = TRUE],
                                 fail(shared), request_cleanup(shared),
                                 request_cleanup(fail(shared))}
  PROVE  (s.channel => shared.channel) /\ s.control_sent = shared.control_sent
BY DEF SharedTypes, fail, request_cleanup

\* Steps that leave the core alone.
Quiet ==
    \/ top_open \/ pump_sent \/ pump_end \/ wait_wake \/ wait_owner_closed \/ wait_error
    \/ \E op \in Operations : wait_transaction(op)
    \/ \E t \in Timers \cup {"expiry"} : wait_timer(t)
    \/ Waiting \/ allocation_timeout \/ prepare_channel \/ leave \/ deallocate \/ drop

LEMMA QuietStep ==
  ASSUME TurnInv, Quiet, Next
  PROVE  TurnInv'
<1>t. CoreOk(core) /\ TypesInv /\ DriverTypes /\ SharedTypes
  BY DEF TurnInv, TypesInv
<1>1. TypesInv' /\ StartInv'
  BY <1>t, TypesStep, StartStep
<1>2. core' = core /\ snap' = snap
  BY DEF Quiet, top_open, pump_sent, pump_end, wait_wake, wait_owner_closed, wait_error,
         wait_transaction, wait_timer, Waiting, wait_for_allocation, wait_for_channel,
         allocation_timeout, prepare_channel, leave, deallocate, drop
<1>3. shared' \in {shared, [shared EXCEPT !.wake = FALSE], [shared EXCEPT !.wake = TRUE],
                   fail(shared), request_cleanup(shared), request_cleanup(fail(shared))}
  BY DEF Quiet, top_open, pump_sent, pump_end, wait_wake, wait_owner_closed, wait_error,
         wait_transaction, wait_timer, Waiting, wait_for_allocation, wait_for_channel,
         allocation_timeout, prepare_channel, leave, deallocate, drop
<1>4. cut' = cut
  BY DEF Quiet, top_open, pump_sent, pump_end, wait_wake, wait_owner_closed, wait_error,
         wait_transaction, wait_timer, Waiting, wait_for_allocation, wait_for_channel,
         allocation_timeout, prepare_channel, leave, deallocate, drop
<1>5. driver'.at = "ended" <=> driver.at = "ended"
  <2>1. CASE Waiting \/ allocation_timeout \/ prepare_channel \/ leave \/ deallocate \/ drop
    BY <2>1 DEF Waiting, wait_for_allocation, wait_for_channel,
                allocation_timeout, prepare_channel, leave, deallocate, drop
  <2>2. CASE \/ top_open \/ pump_sent \/ pump_end \/ wait_wake \/ wait_owner_closed \/ wait_error
             \/ \E op \in Operations : wait_transaction(op)
             \/ \E t \in Timers \cup {"expiry"} : wait_timer(t)
    BY <1>t, <2>2 DEF top_open, pump_sent, pump_end, wait_wake, wait_owner_closed, wait_error,
         wait_transaction, wait_timer, At, Woken, Continued, DriverTypes
  <2> QED BY <2>1, <2>2 DEF Quiet
<1>6. (shared'.channel => shared.channel) /\ shared'.control_sent = shared.control_sent
  BY <1>t, <1>3, FlagFacts
<1> QED BY <1>1, <1>2, <1>4, <1>5, <1>6, CoreSame, KeptStep

LEMMA PollStep ==
  ASSUME TurnInv, pump_poll, Next
  PROVE  TurnInv'
<1>t. CoreOk(core) /\ TypesInv /\ DriverTypes
  BY DEF TurnInv, TypesInv
<1>1. TypesInv' /\ StartInv'
  BY <1>t, TypesStep, StartStep
<1>2. /\ core' = poll(core, driver.fired) /\ shared' = shared /\ snap' = snap /\ cut' = cut
      /\ driver.at = "poll" /\ driver'.at = "send"
  BY <1>t DEF pump_poll, At, DriverTypes
<1>3. Kept(core, core')
  BY <1>t, <1>2, PollFacts
<1> QED BY <1>1, <1>2, <1>3, KeptStep

\* The driver ends before anything was sent, or is made to end.
LEMMA StopStep ==
  ASSUME TurnInv, top_unused \/ top_cut \/ deallocate_abort, Next
  PROVE  TurnInv'
<1>t. CoreOk(core) /\ TypesInv /\ DriverTypes
  BY DEF TurnInv, TypesInv
<1>1. TypesInv' /\ StartInv'
  BY <1>t, TypesStep, StartStep
<1>2. /\ core' = force_destroy(core) /\ shared' = shared /\ snap' = snap /\ driver'.at = "ended"
  BY <1>t DEF top_unused, top_cut, deallocate_abort, Ended, DriverTypes
<1>3. cut' \/ ~ core.expires
  BY DEF top_unused, top_cut, deallocate_abort, TurnInv, SentInv
<1> QED BY <1>t, <1>1, <1>2, <1>3, KeptSelf, EndStep

LEMMA CleanupStep ==
  ASSUME TurnInv, top_cleanup, Next
  PROVE  TurnInv'
<1> DEFINE c == IF driver.requested THEN core ELSE graceful_shutdown(core)
<1>t. CoreOk(core) /\ TypesInv /\ DriverTypes
  BY DEF TurnInv, TypesInv
<1>1. TypesInv' /\ StartInv'
  BY <1>t, TypesStep, StartStep
<1>2. Kept(core, c) /\ c.expires = core.expires /\ c.failures = core.failures
  BY <1>t, KeptSelf, ShutdownFacts
<1>3. /\ IF snap.state \in Over THEN Ended(c)
         ELSE /\ core' = c
              /\ driver' = Continued([driver EXCEPT !.cleanup = TRUE, !.requested = TRUE,
                                                    !.pump = @ \/ ~ driver.requested])
      /\ shared' = shared /\ snap' = snap /\ cut' = cut /\ driver.at = "top"
  BY DEF top_cleanup, At
<1> HIDE DEF c
<1>4. CASE snap.state \in Over
  <2>1. driver'.at = "ended" /\ core' = force_destroy(c)
    BY <1>t, <1>3, <1>4 DEF Ended, DriverTypes
  <2>2. Retired(core) /\ ~ core.destroyed
    BY <1>3, <1>4 DEF TurnInv, NewsInv, EndInv, At
  <2>3. ~ core.expires \/ core.failures = MaxChannelFailures
    <3>1. core.failures \in 0 .. MaxChannelFailures /\ MaxChannelFailures \in Nat
      BY <1>t, TurnAssumption DEF CoreOk, Core
    <3> QED BY <1>t, <2>2, <3>1 DEF CoreOk, HeldOk, Retired, Over
  <2> QED BY <1>1, <1>2, <1>3, <2>1, <2>3, EndStep
<1>5. CASE snap.state \notin Over
  <2>1. core' = c /\ driver'.at \in {"poll", "wait"}
    BY <1>t, <1>3, <1>5 DEF Continued, DriverTypes
  <2> QED BY <1>1, <1>2, <1>3, <2>1, KeptStep
<1> QED BY <1>4, <1>5

\* A driver that has sent something and goes on.
LEMMA AliveStep ==
  ASSUME TurnInv, TypesInv', StartInv', CoreOk(core'), Faithful(core, core'), ~ core'.destroyed,
         driver'.at # "ended", shared'.channel => shared.channel, shared'.control_sent,
         snap'.state = snap.state
  PROVE  TurnInv'
<1>1. core \in Core /\ core' \in Core
  BY DEF TurnInv, CoreOk
<1>2. CoreOk(core)'
  BY DEF CoreOk, PendingOk, HeldOk, has_operation
<1>3. NewsInv'
  BY <1>1, NewsKeeps DEF TurnInv
<1>4. SentInv' /\ EndInv'
  BY DEF SentInv, EndInv, AllocationReturned, At
<1> QED BY <1>2, <1>3, <1>4 DEF TurnInv

\* A packet of a pending request leaves the ring.
LEMMA SendFacts ==
  ASSUME NEW c, CoreOk(c), NEW d \in Core, d.state = c.state, d.channel = c.channel,
         d.expires = c.expires, d.failures = c.failures, d.events = c.events,
         d.destroyed = c.destroyed,
         \A o \in Operations :
             /\ d.controls[o] > 0 => c.controls[o] > 0
             /\ d.pending[o].sent = c.pending[o].sent
             /\ d.pending[o].wire => c.pending[o].wire \/ c.controls[o] > 0
  PROVE  CoreOk(d) /\ Faithful(c, d)
<1>c. c \in Core /\ PendingOk(c) /\ HeldOk(c)
  BY DEF CoreOk
<1>1. PendingOk(d)
  BY <1>c DEF PendingOk, has_operation
<1>2. HeldOk(d)
  BY <1>c DEF HeldOk
<1>3. Faithful(c, d)
  BY <1>c, FaithfulAlike DEF Retired
<1> QED BY <1>1, <1>2, <1>3 DEF CoreOk

LEMMA SendStep ==
  ASSUME TurnInv, pump_send, Next
  PROVE  TurnInv'
<1>t. CoreOk(core) /\ TypesInv /\ SharedTypes
  BY DEF TurnInv, TypesInv
<1>1. TypesInv' /\ StartInv'
  BY <1>t, TypesStep, StartStep
<1>2. PICK op \in Operations :
        /\ At("send") /\ core.controls[op] > 0
        /\ core' = [core EXCEPT !.controls[op] = @ - 1, !.pending[op].wire = TRUE]
        /\ shared' = [shared EXCEPT !.control_sent = TRUE]
        /\ driver' = driver /\ snap' = snap
  BY DEF pump_send
<1>3. CoreOk(core') /\ Faithful(core, core') /\ core'.destroyed = core.destroyed
  <2> DEFINE t == [core.pending[op] EXCEPT !.wire = TRUE]
             n == core.controls[op] - 1
  <2>0. core \in Core /\ core.pending \in [Operations -> Transaction]
        /\ core.controls \in [Operations -> Nat]
    BY <1>t DEF CoreOk, Core
  <2>1. t \in Transaction /\ t.sent = core.pending[op].sent /\ n \in Nat
    <3>1. core.pending[op] \in Transaction /\ core.controls[op] \in Nat
      BY <2>0
    <3>2. t \in Transaction /\ t.sent = core.pending[op].sent
      BY <3>1 DEF Transaction
    <3> QED BY <1>2, <3>1, <3>2
  <2>2. core' = [core EXCEPT !.controls = [core.controls EXCEPT ![op] = n],
                             !.pending = [core.pending EXCEPT ![op] = t]]
    BY <1>2, <2>0 DEF Core
  <2> HIDE DEF t, n
  <2>3. /\ core' \in Core /\ core'.state = core.state /\ core'.channel = core.channel
        /\ core'.expires = core.expires /\ core'.failures = core.failures
        /\ core'.destroyed = core.destroyed /\ core'.events = core.events
        /\ core'.controls = [core.controls EXCEPT ![op] = n]
        /\ core'.pending = [core.pending EXCEPT ![op] = t]
    BY <2>0, <2>1, <2>2 DEF Core
  <2>4. \A o \in Operations :
             /\ core'.controls[o] > 0 => core.controls[o] > 0
             /\ core'.pending[o].sent = core.pending[o].sent
             /\ core'.pending[o].wire => core.pending[o].wire \/ core.controls[o] > 0
    BY <1>2, <2>0, <2>1, <2>3
  <2> QED BY <1>t, <2>3, <2>4, SendFacts
<1>4. ~ core.destroyed /\ driver'.at # "ended"
  BY <1>2 DEF TurnInv, EndInv, At
<1>5. shared'.channel = shared.channel /\ shared'.control_sent
  BY <1>t, <1>2 DEF SharedTypes
<1> QED BY <1>1, <1>2, <1>3, <1>4, <1>5, AliveStep

LEMMA SendErrorStep ==
  ASSUME TurnInv, pump_send_error, Next
  PROVE  TurnInv'
<1>t. CoreOk(core) /\ TypesInv /\ SharedTypes /\ DriverTypes /\ core \in Core
  BY DEF TurnInv, TypesInv, CoreOk
<1>1. TypesInv' /\ StartInv'
  BY <1>t, TypesStep, StartStep
<1>2. PICK op \in Operations :
        /\ At("send") /\ core.controls[op] > 0
        /\ shared' = request_cleanup(fail(shared)) /\ snap' = snap /\ cut' = cut
        /\ IF shared.control_sent
           THEN /\ core' = [core EXCEPT !.controls[op] = @ - 1]
                /\ driver' = [driver EXCEPT !.at = "top", !.pump = TRUE]
           ELSE Ended([core EXCEPT !.controls[op] = @ - 1])
  BY DEF pump_send_error
<1> DEFINE c == [core EXCEPT !.controls[op] = @ - 1]
<1>3. core.controls \in [Operations -> Nat] /\ core.controls[op] - 1 \in Nat
  BY <1>t, <1>2 DEF Core
<1>4. [core.controls EXCEPT ![op] = @ - 1] \in [Operations -> Nat]
  BY <1>3
<1>5. /\ c \in Core /\ c.state = core.state /\ c.channel = core.channel
      /\ c.expires = core.expires /\ c.failures = core.failures
      /\ c.destroyed = core.destroyed /\ c.events = core.events /\ c.pending = core.pending
      /\ c.controls = [core.controls EXCEPT ![op] = @ - 1]
  BY <1>t, <1>4 DEF Core
<1> HIDE DEF c
<1>6. CoreOk(c) /\ Faithful(core, c)
  <2>1. \A o \in Operations : c.controls[o] > 0 => core.controls[o] > 0
    BY <1>2, <1>3, <1>5
  <2> QED BY <1>t, <1>5, <2>1, SendFacts
<1>7. Kept(core, c)
  BY <1>5, <1>6 DEF Kept, Claims
<1>8. (shared'.channel => shared.channel) /\ shared'.control_sent = shared.control_sent
  BY <1>t, <1>2, FlagFacts
<1>9. CASE shared.control_sent
  <2>1. core' = c /\ driver'.at = "top" /\ driver.at = "send"
    BY <1>t, <1>2, <1>9 DEF c, At, DriverTypes
  <2> QED BY <1>1, <1>2, <1>7, <1>8, <2>1, KeptStep
<1>10. CASE ~ shared.control_sent
  <2>1. core' = force_destroy(c) /\ driver'.at = "ended"
    BY <1>t, <1>2, <1>10 DEF c, Ended, DriverTypes
  <2>2. ~ c.expires
    BY <1>5, <1>10 DEF TurnInv, SentInv
  <2> QED BY <1>1, <1>2, <1>7, <1>8, <2>1, <2>2, EndStep
<1> QED BY <1>9, <1>10

LEMMA PacketStep ==
  ASSUME TurnInv, NEW op \in Operations, NEW reply \in Replies, wait_packet(op, reply), Next
  PROVE  TurnInv'
<1>t. CoreOk(core) /\ TypesInv /\ DriverTypes
  BY DEF TurnInv, TypesInv
<1>1. TypesInv' /\ StartInv'
  BY <1>t, TypesStep, StartStep
<1>2. /\ driver.at = "wait" /\ core.pending[op].wire /\ core' = input_stun(core, op, reply)
      /\ driver'.at = "top" /\ shared' = shared /\ snap' = snap
  BY <1>t DEF wait_packet, At, Woken, DriverTypes
<1>3. ~ core.destroyed /\ has_operation(core, op) /\ shared.control_sent
  BY <1>t, <1>2 DEF TurnInv, EndInv, At, SentInv, CoreOk, PendingOk
<1>4. CoreOk(core') /\ Faithful(core, core') /\ ~ core'.destroyed
  BY <1>t, <1>2, <1>3, StunFacts
<1> QED BY <1>1, <1>2, <1>3, <1>4, AliveStep

\* The driver takes the oldest event: what it tells is now in the snapshot
\* and in the flags, and what is told later is still queued.
LEMMA EventStep ==
  ASSUME TurnInv, pump_event, Next
  PROVE  TurnInv'
<1> DEFINE e == Head(core.events)
           n == Len(core.events)
<1>t. CoreOk(core) /\ TypesInv /\ DriverTypes /\ SharedTypes /\ SnapTypes /\ core \in Core
  BY DEF TurnInv, TypesInv, CoreOk
<1>1. TypesInv' /\ StartInv'
  BY <1>t, TypesStep, StartStep
<1>2. /\ e \in Event /\ e = core.events[1] /\ n \in Nat \ {0}
      /\ Tail(core.events) \in Seq(Event) /\ Len(Tail(core.events)) = n - 1
      /\ \A i \in 1 .. n - 1 : Tail(core.events)[i] = core.events[i + 1]
  BY <1>t, HeadFacts DEF pump_event
<1>3. core' = [core EXCEPT !.events = Tail(@)] /\ cut' = cut
  BY DEF pump_event
<1>4. /\ core' \in Core /\ Alike(core, core') /\ core'.events = Tail(core.events)
  BY <1>t, <1>2, <1>3 DEF Core, Alike
<1>5. /\ core'.channel = core.channel /\ core'.expires = core.expires
      /\ core'.failures = core.failures /\ core'.destroyed = core.destroyed
      /\ core'.state = core.state /\ core'.pending = core.pending /\ core'.controls = core.controls
  BY <1>4 DEF Alike
<1>6. CoreOk(core)'
  BY <1>t, <1>4, <1>5 DEF CoreOk, PendingOk, HeldOk, has_operation
<1>7. driver.at = "events" /\ driver'.at \in {"events", "top"}
  BY <1>t DEF pump_event, At, DriverTypes
<1>8. shared'.control_sent = shared.control_sent
  BY <1>t DEF pump_event, SharedTypes, fail, request_cleanup
<1>9. \/ e.kind = "bound"
      \/ (shared'.channel => shared.channel) /\ (Unbinds(e) => ~ shared'.channel)
  BY <1>t DEF pump_event, SharedTypes, fail, request_cleanup, Unbinds
<1>10. snap'.state \in Over => snap.state \in Over \/ Retires(e)
  BY <1>t DEF pump_event, SnapTypes, Retires
<1> HIDE DEF e, n
<1>11. /\ Len(core'.events) = n - 1
       /\ \A i \in 1 .. n - 1 : core'.events[i] = core.events[i + 1]
  BY <1>2, <1>4
<1>12. ASSUME NEW i \in 1 .. n - 1, core'.events[i].kind = "bound"
       PROVE  core'.channel \/ \E k \in i + 1 .. n - 1 : Unbinds(core'.events[k])
  <2>1. i + 1 \in 1 .. n /\ core.events[i + 1].kind = "bound"
    BY <1>2, <1>11, <1>12
  <2>2. core.channel \/ \E k \in (i + 1) + 1 .. n : Unbinds(core.events[k])
    BY <2>1 DEF TurnInv, NewsInv, n
  <2>3. ASSUME NEW k \in (i + 1) + 1 .. n, Unbinds(core.events[k])
        PROVE  \E m \in i + 1 .. n - 1 : Unbinds(core'.events[m])
    <3>1. k - 1 \in i + 1 .. n - 1 /\ k - 1 \in 1 .. n - 1 /\ (k - 1) + 1 = k
      BY <1>2, <2>3
    <3>2. core'.events[k - 1] = core.events[k]
      BY <1>11, <3>1
    <3> QED BY <2>3, <3>1, <3>2
  <2> QED BY <1>5, <2>2, <2>3
<1>13. ASSUME shared'.channel
       PROVE  core'.channel \/ \E k \in 1 .. n - 1 : Unbinds(core'.events[k])
  <2>1. core.channel \/ \E k \in 2 .. n : Unbinds(core.events[k])
    <3>1. CASE e.kind = "bound"
      <4>1. 1 \in 1 .. n /\ core.events[1].kind = "bound" /\ 1 + 1 = 2
        BY <1>2, <3>1
      <4>2. core.channel \/ \E k \in 1 + 1 .. n : Unbinds(core.events[k])
        BY <4>1 DEF TurnInv, NewsInv, n
      <4> QED BY <4>1, <4>2
    <3>2. CASE shared.channel /\ ~ Unbinds(e)
      <4>1. core.channel \/ \E k \in 1 .. n : Unbinds(core.events[k])
        BY <3>2 DEF TurnInv, NewsInv, n
      <4>2. \A k \in 1 .. n : Unbinds(core.events[k]) => k \in 2 .. n
        BY <1>2, <3>2
      <4> QED BY <4>1, <4>2
    <3> QED BY <1>9, <1>13, <3>1, <3>2
  <2>2. ASSUME NEW k \in 2 .. n, Unbinds(core.events[k])
        PROVE  \E m \in 1 .. n - 1 : Unbinds(core'.events[m])
    <3>1. k - 1 \in 1 .. n - 1 /\ (k - 1) + 1 = k
      BY <1>2, <2>2
    <3>2. core'.events[k - 1] = core.events[k]
      BY <1>11, <3>1
    <3> QED BY <2>2, <3>1, <3>2
  <2> QED BY <1>5, <2>1, <2>2
<1>14. ASSUME snap'.state \in Over \/ \E i \in 1 .. n - 1 : Retires(core'.events[i])
       PROVE  Retired(core')
  <2>1. snap.state \in Over \/ \E i \in 1 .. n : Retires(core.events[i])
    <3>1. 1 \in 1 .. n /\ \A i \in 1 .. n - 1 : i + 1 \in 1 .. n
      BY <1>2
    <3> QED BY <1>2, <1>10, <1>11, <1>14, <3>1
  <2>2. Retired(core)
    BY <2>1 DEF TurnInv, NewsInv, n
  <2> QED BY <1>5, <2>2 DEF Retired
<1>15. NewsInv'
  BY <1>11, <1>12, <1>13, <1>14 DEF NewsInv, Retired, Unbinds, Retires
<1>16. SentInv'
  BY <1>5, <1>8 DEF TurnInv, SentInv
<1>17. EndInv'
  BY <1>5, <1>7 DEF TurnInv, EndInv, AllocationReturned, At
<1> QED BY <1>1, <1>6, <1>15, <1>16, <1>17 DEF TurnInv

\* The requests of the owner.
LEMMA AllocateStep ==
  ASSUME TurnInv, start_allocation, Next
  PROVE  TurnInv'
<1> DEFINE y == set_state(core, "allocating")
<1>t. CoreOk(core) /\ TypesInv /\ core \in Core /\ SharedTypes /\ PendingOk(core) /\ HeldOk(core)
  BY DEF TurnInv, TypesInv, CoreOk
<1>1. TypesInv' /\ StartInv'
  BY <1>t, TypesStep, StartStep
<1>2. /\ core' = start_operation(y, "Allocate", 0) /\ owner.at = "start"
      /\ driver' = driver /\ snap' = snap /\ cut' = cut
      /\ shared' = [shared EXCEPT !.wake = TRUE]
  BY DEF start_allocation, OwnerTo
<1>3. /\ core.pending = NothingPending /\ core.controls = NoControls
      /\ core.failures < MaxChannelFailures
      /\ core.state = "null" \/ core.destroyed
      /\ ~ shared.control_sent
  BY <1>2 DEF TurnInv, StartInv
<1>4. "allocating" \in States /\ "allocating" \notin Over /\ ~ core.expires
  BY <1>3 DEF States, Over, TurnInv, SentInv
<1>5. /\ y \in Core /\ y.state = "allocating"
      /\ Alike([core EXCEPT !.state = "allocating"], y)
  BY <1>t, <1>4, StateFacts
<1>6. /\ y.channel = core.channel /\ y.expires = core.expires /\ y.failures = core.failures
      /\ y.destroyed = core.destroyed /\ y.pending = NothingPending /\ y.controls = NoControls
  BY <1>t, <1>3, <1>5 DEF Alike, Core
<1>7. Faithful(core, y)
  <2>1. Retired(core) => Retired(y)
    BY <1>3, <1>6 DEF Retired, Over
  <2> QED BY <1>t, <1>4, <2>1, StateFaithful
<1> HIDE DEF y
<1>8. CoreOk(y)
  <2>1. PendingOk(y)
    BY <1>6, EmptyPending
  <2>2. core.channel => core.destroyed
    BY <1>t, <1>3 DEF HeldOk
  <2>3. HeldOk(y)
    <3>1. ~ y.expires /\ (y.channel => y.destroyed) /\ y.failures < MaxChannelFailures
      BY <1>3, <1>4, <1>6, <2>2
    <3> QED BY <3>1 DEF HeldOk
  <2> QED BY <1>5, <2>1, <2>3 DEF CoreOk
<1>9. Kept(core, y)
  <2>1. Claims(core, y)
    BY <1>6, ConstantTypes DEF Claims
  <2> QED BY <1>6, <1>7, <1>8, <2>1 DEF Kept
<1>10. Kept(y, core') /\ core'.failures = y.failures
  BY <1>2, <1>5, <1>8, OperationStates, StartFacts DEF Kept
<1>11. Kept(core, core')
  BY <1>t, <1>9, <1>10, KeptTransitive
<1>12. (shared'.channel => shared.channel) /\ shared'.control_sent = shared.control_sent
  BY <1>t, <1>2, FlagFacts
<1> QED BY <1>1, <1>2, <1>6, <1>10, <1>11, <1>12, KeptStep

LEMMA BindStep ==
  ASSUME TurnInv, start_permission \/ start_channel, Next
  PROVE  TurnInv'
<1>t. CoreOk(core) /\ TypesInv /\ SharedTypes
  BY DEF TurnInv, TypesInv
<1>1. TypesInv' /\ StartInv'
  BY <1>t, TypesStep, StartStep
<1>2. /\ driver' = driver /\ snap' = snap /\ cut' = cut
      /\ shared' \in {shared, [shared EXCEPT !.wake = TRUE], fail(shared)}
  BY DEF start_permission, start_channel
<1>3. (shared'.channel => shared.channel) /\ shared'.control_sent = shared.control_sent
  BY <1>t, <1>2, FlagFacts
<1>4. CASE Ready
  <2>1. PICK op \in {"Permission", "Channel"} : core' = start_operation(core, op, 0)
    BY <1>4 DEF start_permission, start_channel
  <2>2. op \in Operations /\ core.state = Home[op]
    BY <1>4, OperationStates DEF Ready
  <2>3. Kept(core, core') /\ core'.failures = core.failures
    BY <1>t, <2>1, <2>2, StartFacts DEF Kept
  <2> QED BY <1>1, <1>2, <1>3, <2>3, KeptStep
<1>5. CASE ~ Ready
  <2>1. core' = core
    BY <1>5 DEF start_permission, start_channel
  <2> QED BY <1>1, <1>2, <1>3, <2>1, CoreSame, KeptStep
<1> QED BY <1>4, <1>5

LEMMA ReturnStep ==
  ASSUME TurnInv, deallocate_core, Next
  PROVE  TurnInv'
<1>t. CoreOk(core) /\ TypesInv
  BY DEF TurnInv
<1>1. TypesInv' /\ StartInv'
  BY <1>t, TypesStep, StartStep
<1>2. /\ core' = graceful_shutdown(core) /\ shared' = shared /\ snap' = snap
      /\ driver' = driver /\ cut' = cut
  BY DEF deallocate_core
<1>3. Kept(core, core') /\ core'.failures = core.failures
  BY <1>t, <1>2, ShutdownFacts
<1> QED BY <1>1, <1>2, <1>3, KeptStep

LEMMA TurnStep ==
  ASSUME TurnInv, [Next]_vars
  PROVE  TurnInv'
<1>1. CASE UNCHANGED vars
  BY <1>1 DEF vars, TurnInv, CoreOk, PendingOk, HeldOk, has_operation, TypesInv, DriverTypes,
              SharedTypes, SnapTypes, OwnerTypes, NewsInv, Unbinds, Retires, Retired, SentInv,
              EndInv, AllocationReturned, At, StartInv
<1>2. CASE Next
  <2>1. CASE Quiet
    BY <1>2, <2>1, QuietStep
  <2>2. CASE pump_poll
    BY <1>2, <2>2, PollStep
  <2>3. CASE top_unused \/ top_cut \/ deallocate_abort
    BY <1>2, <2>3, StopStep
  <2>4. CASE top_cleanup
    BY <1>2, <2>4, CleanupStep
  <2>5. CASE pump_send
    BY <1>2, <2>5, SendStep
  <2>6. CASE pump_send_error
    BY <1>2, <2>6, SendErrorStep
  <2>7. CASE pump_event
    BY <1>2, <2>7, EventStep
  <2>8. ASSUME NEW op \in Operations, NEW reply \in Replies, wait_packet(op, reply)
        PROVE  TurnInv'
    BY <1>2, <2>8, PacketStep
  <2>9. CASE start_allocation
    BY <1>2, <2>9, AllocateStep
  <2>10. CASE start_permission \/ start_channel
    BY <1>2, <2>10, BindStep
  <2>11. CASE deallocate_core
    BY <1>2, <2>11, ReturnStep
  <2> QED BY <1>2, <2>1, <2>2, <2>3, <2>4, <2>5, <2>6, <2>7, <2>8, <2>9, <2>10, <2>11
          DEF Next, Driver, Surroundings, Owner, Closing, Quiet
<1> QED BY <1>1, <1>2

-----------------------------------------------------------------------------
(* The theorems.                                                           *)

\* While the driver's flag lets the owner send ChannelData, the core has the
\* bound channel behind it or the driver has yet to read of its end: no
\* timer, refusal, failed send or shutdown takes the channel from the core
\* without queueing the event that clears the flag (turn_core.rs,
\* set_state and push_event; turn.rs, pump_native).
THEOREM ChannelIsBacked == Spec => []ChannelBacked
<1>1. Init => TurnInv
  BY TurnInit
<1>2. TurnInv /\ [Next]_vars => TurnInv'
  BY TurnStep
<1>3. TurnInv => ChannelBacked
  <2> SUFFICES ASSUME TurnInv PROVE ChannelBacked
    OBVIOUS
  <2>1. CoreOk(core) /\ core \in Core /\ PendingOk(core) /\ TypesInv
    BY DEF TurnInv, CoreOk
  <2>2. \A op \in Operations : core.pending[op].sent \in 0 .. MaxTransmissions
    BY <2>1 DEF Core, Transaction
  <2>3. TypeOK
    BY <2>1, <2>2 DEF TypeOK, Core, PendingOk, TypesInv, DriverTypes, OwnerTypes, SnapTypes
  <2>4. shared.channel => core.channel \/ core.events # <<>>
    <3>1. CASE core.events = <<>>
      <4>1. Len(core.events) = 0
        BY <3>1
      <4> QED BY <4>1 DEF TurnInv, NewsInv
    <3> QED BY <3>1
  <2> QED BY <2>3, <2>4 DEF ChannelBacked
<1> QED BY <1>1, <1>2, <1>3, PTL DEF Spec

\* A driver task that ends by itself leaves nothing on the server that the
\* core still holds: an allocation whose Allocate succeeds after the owner
\* has left is given back before the end, because the driver ends only on
\* a snapshot of a retired core or before its first packet.  Excepted are
\* cleanups cut off by their deadline and channels given up for good.
THEOREM AllocationIsReturned == Spec => []AllocationReturned
<1>1. Init => TurnInv
  BY TurnInit
<1>2. TurnInv /\ [Next]_vars => TurnInv'
  BY TurnStep
<1>3. TurnInv => AllocationReturned
  BY DEF TurnInv, EndInv
<1> QED BY <1>1, <1>2, <1>3, PTL DEF Spec

=============================================================================
