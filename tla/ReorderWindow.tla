---------------------------- MODULE ReorderWindow ----------------------------
(***************************************************************************)
(* What the receive window of a block ack stream promises, without slots,  *)
(* numbers modulo MAX_TID_VALUE, handlers and flushes.  A packet waits     *)
(* only within the window, and once; the packets that wait leave it one by *)
(* one, the least first, whoever takes them out; the window may move       *)
(* anywhere, but never away from a packet that waits, and it is closed     *)
(* only when none does.  A packet is its number and its kind, and only     *)
(* those with data are given to the stack.                                 *)
(***************************************************************************)
EXTENDS Integers

CONSTANT Size

VARIABLES open,     \* the stream has a window
          base,     \* it starts at this number
          waiting,  \* the packets in it
          latest    \* the greatest number given to the stack

vars == <<open, base, waiting, latest>>

Within(b) == b..(b + Size - 1)

Init == open = FALSE /\ base \in Int /\ latest \in Int /\ waiting = {}

Open ==
  /\ ~open
  /\ open' = TRUE /\ base' \in Int
  /\ UNCHANGED <<waiting, latest>>

Close ==
  /\ open /\ waiting = {}
  /\ open' = FALSE
  /\ UNCHANGED <<base, waiting, latest>>

Store(p) ==
  /\ open
  /\ p[1] \in Within(base)
  /\ \A q \in waiting : q[1] # p[1]
  /\ waiting' = waiting \cup {p}
  /\ UNCHANGED <<open, base, latest>>

Leave(p) ==
  /\ open
  /\ \A q \in waiting : p[1] <= q[1]
  /\ waiting' = waiting \ {p}
  /\ latest' = IF p[2] = "data" /\ p[1] > latest THEN p[1] ELSE latest
  /\ UNCHANGED <<open, base>>

Move ==
  /\ open
  /\ base' \in Int
  /\ \A p \in waiting : p[1] \in Within(base')
  /\ UNCHANGED <<open, waiting, latest>>

\* Without a window a packet goes straight to the stack.
Pass ==
  /\ ~open
  /\ latest' \in Int /\ latest' >= latest
  /\ UNCHANGED <<open, base, waiting>>

Next ==
  \/ Open \/ Close \/ Move \/ Pass
  \/ \E n \in Within(base), kind \in {"data", "fw"} : Store(<<n, kind>>)
  \/ \E p \in waiting : Leave(p)

Spec == Init /\ [][Next]_vars
=============================================================================
