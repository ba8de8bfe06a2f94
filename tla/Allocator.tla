----------------------------- MODULE Allocator ------------------------------
(***************************************************************************)
(* What kernel/api/src/memory.c promises the callers of mem_malloc,        *)
(* mem_free and mem_trim: the memory a caller holds is inside the pool and *)
(* shared with no other caller, it stays where it is and as long as it is  *)
(* until its holder shrinks it or gives it back.                           *)
(***************************************************************************)
EXTENDS Integers

CONSTANTS PoolSize,
          Lengths    \* the lengths callers ask for, and shrink to

VARIABLE held        \* the regions held by callers: [addr, len]

Region == [addr : 0..PoolSize, len : Lengths]

Apart(r, s) == r.addr + r.len <= s.addr \/ s.addr + s.len <= r.addr

Init == held = {}

Allocate(r) ==
  /\ r.addr + r.len <= PoolSize
  /\ \A s \in held : Apart(r, s)
  /\ held' = held \cup {r}

Release(r) ==
  /\ r \in held
  /\ held' = held \ {r}

Shrink(r, len) ==
  /\ r \in held
  /\ len <= r.len
  /\ held' = (held \ {r}) \cup {[r EXCEPT !.len = len]}

Next ==
  \/ \E r \in held : Release(r) \/ \E len \in Lengths : Shrink(r, len)
  \/ \E r \in Region : Allocate(r)

Spec == Init /\ [][Next]_held
=============================================================================
