----------------------------- MODULE ReplayWindow -----------------------------
(***************************************************************************)
(* The duplicate filters in front of the tunnel.  Every packet carries a   *)
(* 16-bit RTP sequence number that starts anywhere and wraps; the server   *)
(* (ReplayState, rust-server/protocol.rs) compares wrapping numbers, the   *)
(* client (ReplayWindow, rust-client/session.rs) extends them to 64 bits.  *)
(* Both remember one bit per number modulo the window.  Paths reorder      *)
(* and repeat packets; the reference is the set of packets accepted so     *)
(* far and their true, unwrapped numbers.                                  *)
(***************************************************************************)
EXTENDS Integers, FiniteSets, FiniteSetsExt

CONSTANTS Sides,        \* "server", "client": whose filters are under test
          Modulus,      \* 2^16
          Window,       \* 16384
          MaxSends,     \* bound: packets sent
          MaxLag,       \* bound: a packet arrives before MaxLag more are sent
          MaxJump,      \* bound: numbers skipped by losses in a row
          FirstInOrder  \* the first packet sent is the first the client receives

\* Numbers half the modulus apart cannot be told apart on the wire: no packet is
\* later, and no run of losses longer, than that.
ReplayTypes ==
  /\ Sides \subseteq {"server", "client"} /\ FirstInOrder \in BOOLEAN
  /\ {Modulus, Window, MaxSends, MaxLag, MaxJump} \subseteq Nat \ {0}
  /\ Modulus % Window = 0 /\ 2 * Window <= Modulus
  /\ MaxLag <= Modulus \div 2 /\ MaxJump < Modulus \div 2

ASSUME ReplayAssumption == ReplayTypes

VARIABLES side,     \* the filter that receives
          start,    \* initial_sequence: random
          sent,     \* packets sent so far, numbered from 0
          win,      \* the filter: [highest, bits], highest = None before the first
          acc,      \* history: the accepted packets that may still come again
          verdict   \* history: the last arrival, what the filter said and why

replayVars == <<side, start, sent, win, acc, verdict>>

None == -1
Half == Modulus \div 2
Wire(n) == (start + n) % Modulus

Bit(c) == c % Window

ReplayInit ==
  /\ side \in Sides /\ start \in 0..(Modulus - 1) /\ sent = 0
  /\ win = [highest |-> None, bits |-> {}]
  /\ acc = {} /\ verdict = [ok |-> TRUE, seen |-> FALSE, age |-> 0]

Send ==
  /\ sent < MaxSends /\ sent' = sent + 1
  /\ acc' = {n \in acc : n = Max(acc) \/ sent + 1 - n <= MaxLag}
  /\ UNCHANGED <<side, start, win, verdict>>

\* Mutant: a jump forward clears only the bit of the new packet.
AdvanceDirty(w, c, shift) == [highest |-> c, bits |-> w.bits \cup {Bit(c)}]

\* Move the window forward by shift to counter c: the bits in between are
\* cleared, all of them when the jump is a whole window.
Advance(w, c, shift) ==
  [highest |-> c,
   bits |-> (IF shift >= Window THEN {} ELSE w.bits \ {Bit(w.highest + i) : i \in 1..shift})
            \cup {Bit(c)}]

First(c) == [ok |-> TRUE, w |-> [highest |-> c, bits |-> {Bit(c)}]]

\* Behind the highest: too old, already seen, or new.
Behind(w, c, age) ==
  IF age >= Window \/ Bit(c) \in w.bits
  THEN [ok |-> FALSE, w |-> w]
  ELSE [ok |-> TRUE, w |-> [w EXCEPT !.bits = @ \cup {Bit(c)}]]

\* ReplayState::accept, on wrapping 16-bit numbers.
ServerAccept(w, seq) ==
  LET forward == (seq - w.highest) % Modulus
  IN  IF w.highest = None THEN First(seq)
      ELSE IF forward # 0 /\ forward < Half
      THEN [ok |-> TRUE, w |-> Advance(w, seq, forward)]
      ELSE Behind(w, seq, (w.highest - seq) % Modulus)

\* accept_rtp: the extension of seq nearest to the highest number.  Below the
\* first cycle there is nothing to subtract.
Extend(w, seq) ==
  LET e == (w.highest - (w.highest % Modulus)) + seq
  IN  IF e + Half < w.highest THEN e + Modulus
      ELSE IF e > w.highest + Half /\ e >= Modulus THEN e - Modulus
      ELSE e

\* ReplayWindow::accept_rtp and accept, on extended numbers.
ClientAccept(w, seq) ==
  LET c == Extend(w, seq)
  IN  IF w.highest = None THEN First(seq)
      ELSE IF c > w.highest
      THEN [ok |-> TRUE, w |-> Advance(w, c, c - w.highest)]
      ELSE Behind(w, c, w.highest - c)

Accept(w, seq) == IF side = "server" THEN ServerAccept(w, seq) ELSE ClientAccept(w, seq)

Arrive(n) ==
  /\ n < sent /\ sent - n <= MaxLag
  /\ FirstInOrder /\ side = "client" /\ acc = {} => n = 0
  /\ acc # {} => n - Max(acc) <= MaxJump
  /\ LET v == Accept(win, Wire(n))
     IN  /\ win' = v.w
         /\ acc' = IF v.ok THEN acc \cup {n} ELSE acc
         /\ verdict' = [ok |-> v.ok, seen |-> n \in acc,
                     age |-> IF acc = {} THEN 0 ELSE Max(acc) - n]
  /\ UNCHANGED <<side, start, sent>>

ReplayNext == Send \/ \E n \in 0..(MaxSends - 1) : Arrive(n)

ReplaySpec == ReplayInit /\ [][ReplayNext]_replayVars

------------------------------------------------------------------------------
(* Properties                                                               *)

\* The window has one bit per slot and its highest number is in range.
ReplayTypeOK ==
  /\ win.bits \subseteq 0..(Window - 1) /\ win.highest \in Nat \cup {None}
  /\ side = "server" => win.highest < Modulus
  /\ acc \subseteq 0..(MaxSends - 1)

\* The filter decides as the set of accepted packets would: a packet passes
\* exactly when it has not passed before and lies inside the window, through
\* every wrap, jump and reordering, and the ring keeps its types.
MatchesReference == ReplayTypeOK /\ (verdict.ok <=> ~verdict.seen /\ verdict.age < Window)

\* No packet passes twice.
AcceptedOnce == verdict.ok => ~verdict.seen
==============================================================================
