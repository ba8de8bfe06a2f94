---------------------------- MODULE PacketChannel ----------------------------
(***************************************************************************)
(* What one direction of the SDIO data ports promises: a packet is         *)
(* received once at most, in the order of sending while no transfer has    *)
(* failed; and a failed transfer costs one packet at most.  The packets    *)
(* are numbered in the order in which they are sent.                       *)
(***************************************************************************)
EXTENDS Naturals, Sequences

VARIABLES flight,  \* packets sent, and neither received nor lost
          sent,    \* how many were sent
          got,     \* packets received, in order
          failed   \* a transfer has failed, in this direction or the other

vars == <<flight, sent, got, failed>>

Init == flight = {} /\ sent = 0 /\ got = <<>> /\ failed = FALSE

Send ==
  /\ sent' = sent + 1
  /\ flight' = flight \cup {sent + 1}
  /\ UNCHANGED <<got, failed>>

Receive(p) ==
  /\ p \in flight
  /\ failed \/ \A q \in flight : p <= q
  /\ got' = Append(got, p)
  /\ flight' = flight \ {p}
  /\ UNCHANGED <<sent, failed>>

Fail ==
  /\ ~failed
  /\ failed' = TRUE
  /\ flight' = flight \/ \E p \in flight : flight' = flight \ {p}
  /\ UNCHANGED <<sent, got>>

Next == Send \/ (\E p \in flight : Receive(p)) \/ Fail

Spec == Init /\ [][Next]_vars
=============================================================================
