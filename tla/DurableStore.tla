---------------------------- MODULE DurableStore ----------------------------
(***************************************************************************)
(* What the server's database promises, without queues or threads: memory  *)
(* runs through a history of contents, the disk always holds one whole     *)
(* content of that history, moves only forward through it, and a restart   *)
(* resumes from what the disk holds.                                       *)
(***************************************************************************)
EXTENDS Naturals, Sequences

CONSTANT Contents      \* the possible contents of the database

VARIABLES
    history,   \* the contents memory has held, the last one is the current
    durable,   \* the position in history of the content on disk
    stored     \* the content on disk

vars == <<history, durable, stored>>

Init ==
    /\ history \in {<<c>> : c \in Contents}
    /\ durable = 1
    /\ stored = history[1]

\* Memory changes; the disk does not know yet.
Change ==
    /\ history' \in {Append(history, c) : c \in Contents}
    /\ UNCHANGED <<durable, stored>>

\* The disk catches up with some later content, possibly skipping several.
Persist ==
    /\ durable' \in (durable + 1) .. Len(history)
    /\ stored' = history[durable']
    /\ UNCHANGED history

\* The process dies and starts again: memory is what the disk holds.
Restart ==
    /\ history' = SubSeq(history, 1, durable)
    /\ UNCHANGED <<durable, stored>>

Next == Change \/ Persist \/ Restart

Spec == Init /\ [][Next]_vars
=============================================================================
