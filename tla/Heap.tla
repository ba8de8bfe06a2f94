-------------------------------- MODULE Heap --------------------------------
(***************************************************************************)
(* kernel/api/src/memory.c: the heap of the firmware (RTOS stacks, lwIP    *)
(* buffers, the WLAN driver's buffers).  The pool ram[0..MemSize) is cut   *)
(* into blocks; every block starts with a struct mem (next, prev, used),   *)
(* an allocated block ends with a guard word (USE_MEM_DEBUG), and ram_end  *)
(* at MemSize closes the list.  lfree points to the lowest free block and  *)
(* is where the first-fit search starts.                                   *)
(*                                                                         *)
(* Addresses and sizes are in words of MEM_ALIGNMENT bytes, so that        *)
(* LWIP_MEM_ALIGN_SIZE is the identity on them.  heads is the set of       *)
(* addresses of the struct mems that the list of blocks goes through; the  *)
(* words of a struct mem that was merged away are not kept.  The mutex     *)
(* around every operation makes an operation one action; mem_malloc gives  *)
(* it up between its two attempts.                                         *)
(***************************************************************************)
EXTENDS Integers

CONSTANTS Clients,   \* threads that allocate
          Requests,  \* the sizes they ask for, and shrink to
          MemSize,   \* MEM_SIZE_ALIGNED: the offset of ram_end
          Hdr,       \* SIZEOF_STRUCT_MEM
          MinSize,   \* MIN_SIZE_ALIGNED
          Guard      \* MEM_CRITICAL_AREA_SIZE

ASSUME HeapAssumption ==
  /\ Requests \subseteq Nat \ {0}
  /\ MemSize \in Nat /\ Hdr \in Nat \ {0} /\ MinSize \in Nat \ {0}
  /\ Guard \in Nat
  /\ Hdr + MinSize <= MemSize
  /\ \A r \in Requests : r + Guard <= MemSize   \* more fails before the lock

VARIABLES heads,     \* addresses of the struct mems, ram_end's included
          next,      \* mem->next
          prev,      \* mem->prev
          used,      \* mem->used
          lfree,     \* the lowest free block, or ram_end
          ramUsed,   \* ram_used
          want,      \* the size the holder of a block may use (0: no holder)
          retry      \* the size of a thread's second attempt (0: none)

blocks == <<heads, next, prev, used>>
vars == <<heads, next, prev, used, lfree, ramUsed, want, retry>>

Init ==   \* sys_meminit
  /\ heads = {0, MemSize}
  /\ next = [h \in heads |-> MemSize]
  /\ prev = [h \in heads |-> h]
  /\ used = [h \in heads |-> h = MemSize]
  /\ lfree = 0
  /\ ramUsed = 0
  /\ want = [h \in heads |-> 0]
  /\ retry = [c \in Clients |-> 0]

Allocated == {h \in heads : used[h] /\ h # MemSize}

Span(h) == next[h] - h          \* header, data and guard of a block
Room(h) == Span(h) - Hdr        \* what is left for data and guard

-----------------------------------------------------------------------------
(***************************************************************************)
(* mem_malloc_ex                                                           *)
(***************************************************************************)
BlockSize(r) == IF r + Guard < MinSize THEN MinSize ELSE r + Guard

\* Mutant: a block in use is taken for a free one.
FitsUsed(h, n) == lfree <= h /\ h < MemSize - n /\ Room(h) >= n

\* The search reaches h (it walks up from lfree, and stops where a block of
\* n cannot fit any more) and takes it.
Fits(h, n) ==
  /\ lfree <= h /\ h < MemSize - n
  /\ ~used[h]
  /\ Room(h) >= n

FirstFit(h, n) == Fits(h, n) /\ \A g \in heads : Fits(g, n) => h <= g

Splits(h, n) == Room(h) >= n + Hdr + MinSize

\* The block h becomes allocated; if it splits, the rest starts at rest.
Carve(h, n, rest) ==
  IF Splits(h, n)
  THEN /\ heads' = heads \cup {rest}
       /\ next' = [g \in heads' |-> CASE g = h -> rest
                                      [] g = rest -> next[h]
                                      [] OTHER -> next[g]]
       /\ prev' = [g \in heads' |-> CASE g = rest -> h
                                      [] g = next[h] /\ g # MemSize -> rest
                                      [] OTHER -> prev[g]]
       /\ used' = [g \in heads' |-> CASE g = h -> TRUE
                                      [] g = rest -> FALSE
                                      [] OTHER -> used[g]]
       /\ ramUsed' = ramUsed + n + Hdr
  ELSE /\ used' = [used EXCEPT ![h] = TRUE]
       /\ ramUsed' = ramUsed + Span(h)
       /\ UNCHANGED <<heads, next, prev>>

\* lfree moves up from the block just taken to the next one that is free.
MoveUpLfree(h) ==
  IF h # lfree
  THEN UNCHANGED lfree
  ELSE \E l \in heads' :
         /\ lfree' = l
         /\ h <= l /\ (l = MemSize \/ ~used'[l])
         /\ \A g \in heads' : h <= g /\ g < l => used'[g]

Take(h, r) ==
  /\ Carve(h, BlockSize(r), h + Hdr + BlockSize(r))
  /\ MoveUpLfree(h)
  /\ want' = [g \in heads' |-> IF g = h THEN r
                               ELSE IF g \in heads THEN want[g] ELSE 0]

\* An attempt that finds a block: the first one, or the one after "again:".
Malloc(c, r) ==
  /\ retry[c] \in {0, r}
  /\ \E h \in heads : FirstFit(h, BlockSize(r)) /\ Take(h, r)
  /\ retry' = [retry EXCEPT ![c] = 0]

NoFit(r) == \A h \in heads : ~Fits(h, BlockSize(r))

\* The first attempt fails: the mutex is released and taken again.
MallocAgain(c, r) ==
  /\ retry[c] = 0
  /\ NoFit(r)
  /\ retry' = [retry EXCEPT ![c] = r]
  /\ UNCHANGED <<heads, next, prev, used, lfree, ramUsed, want>>

\* The second attempt fails as well: mem_malloc returns NULL.
MallocFails(c) ==
  /\ retry[c] # 0
  /\ NoFit(retry[c])
  /\ retry' = [retry EXCEPT ![c] = 0]
  /\ UNCHANGED <<heads, next, prev, used, lfree, ramUsed, want>>

-----------------------------------------------------------------------------
(***************************************************************************)
(* mem_free and plug_holes: the block is merged with a free block after it *)
(* and then with a free block before it.                                   *)
(***************************************************************************)
PlugsForward(h) == ~used[next[h]] /\ next[h] # MemSize
PlugsBackward(h) == prev[h] # h /\ ~used[prev[h]]

\* The struct mem that is left, the end of its block, the ones that vanish.
Survivor(h) == IF PlugsBackward(h) THEN prev[h] ELSE h
End(h) == IF PlugsForward(h) THEN next[next[h]] ELSE next[h]
Vanish(h) == (IF PlugsForward(h) THEN {next[h]} ELSE {})
             \cup (IF PlugsBackward(h) THEN {h} ELSE {})

\* Mutant: lfree is not lowered to a block below it.
LowerLfreeNot(h) == IF PlugsForward(h) /\ lfree = next[h] THEN h ELSE lfree

LowerLfree(h) ==
  LET lowest  == IF h < lfree THEN h ELSE lfree
      forward == IF PlugsForward(h) /\ lowest = next[h] THEN h ELSE lowest
  IN  IF PlugsBackward(h) /\ forward = h THEN prev[h] ELSE forward

Free(h) ==
  /\ h \in Allocated
  /\ heads' = heads \ Vanish(h)
  /\ next' = [g \in heads' |-> IF g = Survivor(h) THEN End(h) ELSE next[g]]
  /\ prev' = [g \in heads' |-> IF g = End(h) /\ Vanish(h) # {}
                               THEN Survivor(h) ELSE prev[g]]
  /\ used' = [g \in heads' |-> g # h /\ used[g]]
  /\ lfree' = LowerLfree(h)
  /\ ramUsed' = ramUsed - Span(h)
  /\ want' = [g \in heads' |-> IF g = h THEN 0 ELSE want[g]]
  /\ UNCHANGED retry

-----------------------------------------------------------------------------
(***************************************************************************)
(* mem_trim: the holder of h keeps r words.  The rest goes to the free     *)
(* block behind, or becomes a block if it is large enough.  No guard word  *)
(* is asked for or written.                                                *)
(***************************************************************************)
TrimSize(r) == IF r < MinSize THEN MinSize ELSE r

\* Mutant: the rest ends where the block in front of it ended.
RestEndShort(h) == next[h]

\* The free block behind h is not one of its own any more; where the block
\* that starts at rest from now on ends.
Absorbed(h) == IF used[next[h]] THEN {} ELSE {next[h]}
RestEnd(h) == IF used[next[h]] THEN next[h] ELSE next[next[h]]

Trim(h, r) ==
  LET n == TrimSize(r)
      rest == h + Hdr + n
  IN /\ h \in Allocated
     /\ r <= want[h]
     /\ n < Room(h)
     /\ used[next[h]] => Room(h) >= n + Hdr + MinSize
     /\ heads' = (heads \ Absorbed(h)) \cup {rest}
     /\ next' = [g \in heads' |-> CASE g = h -> rest
                                    [] g = rest -> RestEnd(h)
                                    [] OTHER -> next[g]]
     /\ prev' = [g \in heads' |-> CASE g = rest -> h
                                    [] g = RestEnd(h) /\ g # MemSize -> rest
                                    [] OTHER -> prev[g]]
     /\ used' = [g \in heads' |-> g # rest /\ used[g]]
     /\ lfree' = IF (IF used[next[h]] THEN rest < lfree ELSE lfree = next[h])
                 THEN rest ELSE lfree
     /\ ramUsed' = ramUsed - (Room(h) - n)
     /\ want' = [g \in heads' |-> CASE g = h -> r
                                    [] g = rest -> 0
                                    [] OTHER -> want[g]]
     /\ UNCHANGED retry

\* Nothing to give back, or too little behind an allocated block.
TrimKeeps(h, r) ==
  /\ h \in Allocated
  /\ r < want[h]
  /\ \/ TrimSize(r) = Room(h)
     \/ used[next[h]] /\ Room(h) < TrimSize(r) + Hdr + MinSize
  /\ want' = [want EXCEPT ![h] = r]
  /\ UNCHANGED <<heads, next, prev, used, lfree, ramUsed, retry>>

Next ==
  \/ \E c \in Clients :
       MallocFails(c) \/ \E r \in Requests : Malloc(c, r) \/ MallocAgain(c, r)
  \/ \E h \in heads :
       Free(h) \/ \E r \in Requests : Trim(h, r) \/ TrimKeeps(h, r)

Spec == Init /\ [][Next]_vars

-----------------------------------------------------------------------------
TypeOK ==
  /\ heads \subseteq 0..MemSize
  /\ next \in [heads -> heads]
  /\ prev \in [heads -> 0..MemSize]
  /\ used \in [heads -> BOOLEAN]
  /\ lfree \in heads
  /\ ramUsed \in Int
  /\ want \in [heads -> Requests \cup {0}]
  /\ retry \in [Clients -> Requests \cup {0}]

\* The list of blocks tiles the pool: a block reaches to the one after it,
\* has room for data, and prev leads to the block before it.
ListSound ==
  /\ 0 \in heads /\ MemSize \in heads
  /\ used[MemSize] /\ next[MemSize] = MemSize
  /\ prev[0] = 0
  /\ \A h \in heads \ {MemSize} :
       /\ h + Hdr + MinSize <= next[h]
       /\ \A g \in heads : g <= h \/ next[h] <= g
       /\ h # 0 => prev[h] \in heads /\ next[prev[h]] = h

\* plug_holes, memory.c:124-125: "there should not exist one empty struct mem
\* pointing to another empty struct mem", after any operation.
NoTwoFree == \A h \in heads : ~used[h] => used[next[h]]

\* memory.c:72: lfree is the lowest free block, so no search misses one.
LfreeLowest ==
  /\ lfree = MemSize \/ ~used[lfree]
  /\ \A h \in heads : ~used[h] => lfree <= h

\* A block that is held has room for what its holder may write; a free one
\* has no holder.
HoldersFit ==
  \A h \in heads \ {MemSize} :
    IF used[h] THEN want[h] \in 1..Room(h) ELSE want[h] = 0

\* mem_malloc returns NULL only when no block of the pool, wherever it is,
\* has room for the request.
FailsOnlyWhenFull ==
  [][\A c \in Clients :
       retry[c] # 0 /\ retry'[c] = 0 /\ UNCHANGED blocks
         => \A h \in heads : ~used[h] => Room(h) < BlockSize(retry[c])]_vars

\* The regions the holders may use.
Held == {[addr |-> h + Hdr, len |-> want[h]] : h \in Allocated}

\* The blocks, however they are split, merged and moved, implement the
\* allocator's promise.
Abstract == INSTANCE Allocator WITH held <- Held, PoolSize <- MemSize,
                               Lengths <- Requests

AllocatorSpec == Abstract!Spec
=============================================================================
