----------------------------- MODULE Heap_proof -----------------------------
(***************************************************************************)
(* The block list of memory.c is sound for any pool, header and request    *)
(* sizes and any number of threads.  Inv is inductive as a whole only: the *)
(* merge of mem_free needs the way back (ListSound), the absence of two    *)
(* free neighbours needs lfree's place for the search, and the room of the *)
(* holders needs the tiling.                                               *)
(***************************************************************************)
EXTENDS Heap, TLAPS

Inv == TypeOK /\ ListSound /\ NoTwoFree /\ LfreeLowest /\ HoldersFit

LEMMA BlockSizeBounds ==
  ASSUME NEW r \in Requests
  PROVE  BlockSize(r) \in Nat /\ BlockSize(r) >= MinSize /\ BlockSize(r) >= r
BY HeapAssumption DEF BlockSize

LEMMA TrimSizeBounds ==
  ASSUME NEW r \in Requests
  PROVE  TrimSize(r) \in Nat /\ TrimSize(r) >= MinSize /\ TrimSize(r) >= r
BY HeapAssumption DEF TrimSize

\* The facts about one block that the steps below are made of.
LEMMA BlockFacts ==
  ASSUME TypeOK, ListSound, NEW h \in heads, h # MemSize
  PROVE  /\ h \in Nat /\ next[h] \in Nat /\ next[h] \in heads
         /\ h + Hdr + MinSize <= next[h] /\ h < next[h] /\ next[h] <= MemSize
         /\ \A g \in heads : g <= h \/ next[h] <= g
<1> USE HeapAssumption
<1>1. h \in Nat /\ next[h] \in heads /\ next[h] \in 0..MemSize
  <2>1. next[h] \in heads
    BY DEF TypeOK
  <2>2. \A g \in heads : g \in 0..MemSize
    BY DEF TypeOK
  <2>3. QED
    BY <2>1, <2>2
<1>2. h + Hdr + MinSize <= next[h] /\ \A g \in heads : g <= h \/ next[h] <= g
  BY DEF ListSound
<1>3. QED
  BY <1>1, <1>2

\* prev leads to the block before, and there is one block before a block only.
LEMMA PrevFacts ==
  ASSUME TypeOK, ListSound, NEW h \in heads, h # MemSize, h # 0
  PROVE  /\ prev[h] \in heads /\ next[prev[h]] = h /\ prev[h] # MemSize
         /\ prev[h] \in Nat /\ prev[h] < h
<1> USE HeapAssumption
<1>1. prev[h] \in heads /\ next[prev[h]] = h
  BY DEF ListSound
<1>2. prev[h] # MemSize
  BY <1>1 DEF ListSound
<1>3. QED
  BY <1>1, <1>2, BlockFacts

LEMMA OnePredecessor ==
  ASSUME TypeOK, ListSound, NEW g \in heads, NEW h \in heads,
         g # MemSize, h # MemSize, next[g] = next[h]
  PROVE  g = h
BY BlockFacts

LEMMA InvInit == Init => Inv
<1> SUFFICES ASSUME Init PROVE Inv
  OBVIOUS
<1> USE HeapAssumption DEF Init
<1>1. TypeOK
  BY DEF TypeOK
<1>2. /\ heads = {0, MemSize} /\ 0 # MemSize
      /\ next[0] = MemSize /\ next[MemSize] = MemSize
      /\ ~used[0] /\ used[MemSize] /\ prev[0] = 0
      /\ want[0] = 0 /\ lfree = 0
  <2>1. heads = {0, MemSize} /\ 0 \in heads /\ MemSize \in heads /\ 0 # MemSize
    OBVIOUS
  <2>2. next[0] = MemSize /\ next[MemSize] = MemSize /\ prev[0] = 0
    BY <2>1
  <2>3. ~used[0] /\ used[MemSize] /\ want[0] = 0
    BY <2>1
  <2>4. QED
    BY <2>1, <2>2, <2>3
<1>3. ListSound
  BY <1>2 DEF ListSound
<1>4. NoTwoFree /\ LfreeLowest /\ HoldersFit
  BY <1>2 DEF NoTwoFree, LfreeLowest, HoldersFit
<1>5. QED
  BY <1>1, <1>3, <1>4 DEF Inv

-----------------------------------------------------------------------------
(***************************************************************************)
(* mem_malloc: the block h is taken whole or split.                        *)
(***************************************************************************)
LEMMA SplitStep ==
  ASSUME Inv, NEW h \in heads, NEW r \in Requests,
         FirstFit(h, BlockSize(r)), Splits(h, BlockSize(r)), Take(h, r),
         retry' \in [Clients -> Requests \cup {0}]
  PROVE  Inv'
<1> DEFINE n == BlockSize(r)
           rest == h + Hdr + n
<1> USE HeapAssumption
<1>1. n \in Nat /\ n >= MinSize /\ n >= r
  BY BlockSizeBounds
<1>2. h # MemSize /\ ~used[h] /\ lfree <= h
  BY <1>1 DEF FirstFit, Fits, Inv, TypeOK
<1>3. /\ h \in Nat /\ next[h] \in heads /\ next[h] \in Nat /\ next[h] <= MemSize
      /\ \A g \in heads : g \in Nat /\ g <= MemSize /\ (g <= h \/ next[h] <= g)
  BY <1>2, BlockFacts DEF Inv, TypeOK
<1>4. rest \in Nat /\ h + Hdr + MinSize <= rest /\ rest + Hdr + MinSize <= next[h]
  BY <1>1, <1>3 DEF Splits, Room, Span
<1>5. rest \notin heads /\ h < rest /\ rest < next[h]
  BY <1>3, <1>4
<1>6. heads' = heads \cup {rest}
  BY DEF Take, Carve
<1>7. /\ next' \in [heads' -> heads']
      /\ next'[h] = rest /\ next'[rest] = next[h]
      /\ \A g \in heads \ {h} : next'[g] = next[g]
  <2>1. next' = [g \in heads' |-> CASE g = h -> rest
                                    [] g = rest -> next[h]
                                    [] OTHER -> next[g]]
    BY DEF Take, Carve
  <2>2. QED
    BY <2>1, <1>3, <1>5, <1>6 DEF Inv, TypeOK
<1>8. /\ prev' \in [heads' -> 0..MemSize]
      /\ prev'[rest] = h
      /\ next[h] # MemSize => prev'[next[h]] = rest
      /\ \A g \in heads \ {next[h]} : prev'[g] = prev[g]
  <2>1. prev' = [g \in heads' |-> CASE g = rest -> h
                                    [] g = next[h] /\ g # MemSize -> rest
                                    [] OTHER -> prev[g]]
    BY DEF Take, Carve
  <2>2. QED
    BY <2>1, <1>3, <1>4, <1>5, <1>6 DEF Inv, TypeOK
<1>9. /\ used' \in [heads' -> BOOLEAN]
      /\ used'[h] /\ ~used'[rest]
      /\ \A g \in heads \ {h} : used'[g] = used[g]
  <2>1. used' = [g \in heads' |-> CASE g = h -> TRUE
                                    [] g = rest -> FALSE
                                    [] OTHER -> used[g]]
    BY DEF Take, Carve
  <2>2. QED
    BY <2>1, <1>3, <1>5, <1>6 DEF Inv, TypeOK
<1>10. /\ want' \in [heads' -> Requests \cup {0}]
       /\ want'[h] = r /\ want'[rest] = 0
       /\ \A g \in heads \ {h} : want'[g] = want[g]
  BY <1>5, <1>6 DEF Take, Inv, TypeOK
<1>11. lfree' \in heads' /\ LfreeLowest'
  <2>1. CASE h # lfree
    <3>1. lfree' = lfree /\ lfree < h /\ lfree \in heads /\ lfree # MemSize
      BY <2>1, <1>2, <1>3 DEF Take, MoveUpLfree, Inv, TypeOK
    <3>2. ~used'[lfree] /\ \A g \in heads' : ~used'[g] => lfree <= g
      BY <3>1, <1>3, <1>5, <1>6, <1>9 DEF Inv, LfreeLowest, TypeOK
    <3>3. QED
      BY <3>1, <3>2, <1>6 DEF LfreeLowest
  <2>2. CASE h = lfree
    <3>1. PICK l \in heads' :
            /\ lfree' = l
            /\ h <= l /\ (l = MemSize \/ ~used'[l])
            /\ \A g \in heads' : h <= g /\ g < l => used'[g]
      BY <2>2 DEF Take, MoveUpLfree
    <3>2. \A g \in heads' : ~used'[g] => h <= g
      BY <2>2, <1>3, <1>5, <1>6, <1>9 DEF Inv, LfreeLowest
    <3>3. \A g \in heads' : g \in Nat
      BY <1>3, <1>4, <1>6
    <3>4. QED
      BY <3>1, <3>2, <3>3 DEF LfreeLowest
  <2>3. QED
    BY <2>1, <2>2
<1>12. TypeOK'
  <2>1. heads' \subseteq 0..MemSize
    <3>1. rest \in 0..MemSize
      BY <1>3, <1>4
    <3>2. QED
      BY <3>1, <1>6 DEF Inv, TypeOK
  <2>2. ramUsed' \in Int
    BY <1>1 DEF Take, Carve, Inv, TypeOK
  <2>3. QED
    BY <2>1, <2>2, <1>7, <1>8, <1>9, <1>10, <1>11 DEF TypeOK
<1>13. ListSound'
  <2>1. /\ 0 \in heads' /\ MemSize \in heads'
        /\ used'[MemSize] /\ next'[MemSize] = MemSize /\ prev'[0] = 0
    BY <1>2, <1>3, <1>5, <1>6, <1>7, <1>8, <1>9 DEF Inv, ListSound
  <2>2. ASSUME NEW g \in heads' \ {MemSize}
        PROVE  /\ g + Hdr + MinSize <= next'[g]
               /\ \A k \in heads' : k <= g \/ next'[g] <= k
    <3>1. CASE g = h
      BY <3>1, <1>3, <1>4, <1>5, <1>6, <1>7
    <3>2. CASE g = rest
      BY <3>2, <1>3, <1>4, <1>5, <1>6, <1>7
    <3>3. CASE g # h /\ g # rest
      <4>1. g \in heads /\ next'[g] = next[g]
        BY <3>3, <1>6, <1>7
      <4>2. /\ g + Hdr + MinSize <= next[g] /\ next[g] \in heads /\ next[g] \in Nat
            /\ \A k \in heads : k <= g \/ next[g] <= k
        BY <2>2, <4>1, BlockFacts DEF Inv
      <4>3. rest <= g \/ next[g] <= rest
        BY <3>3, <4>1, <4>2, <1>3, <1>4, <1>5
      <4>4. QED
        BY <4>1, <4>2, <4>3, <1>6
    <3>4. QED
      BY <3>1, <3>2, <3>3
  <2>3. ASSUME NEW g \in heads' \ {MemSize}, g # 0
        PROVE  prev'[g] \in heads' /\ next'[prev'[g]] = g
    <3>1. CASE g = rest
      BY <3>1, <1>6, <1>7, <1>8
    <3>2. CASE g = next[h]
      BY <2>3, <3>2, <1>6, <1>7, <1>8
    <3>3. CASE g # rest /\ g # next[h]
      <4>1. g \in heads /\ prev'[g] = prev[g]
        BY <3>3, <1>6, <1>8
      <4>2. prev[g] \in heads /\ next[prev[g]] = g
        BY <2>3, <4>1, PrevFacts DEF Inv
      <4>3. QED
        BY <3>3, <4>1, <4>2, <1>6, <1>7
    <3>4. QED
      BY <3>1, <3>2, <3>3
  <2>4. QED
    BY <2>1, <2>2, <2>3 DEF ListSound
<1>14. NoTwoFree'
  <2>1. used[next[h]] /\ next[h] # h
    BY <1>2 DEF Inv, NoTwoFree
  <2>2. \A g \in heads \ {h} : ~used[g] => used[next[g]] /\ next[g] # h
    BY <1>2 DEF Inv, NoTwoFree
  <2>3. \A g \in heads : next[g] \in heads
    BY DEF Inv, TypeOK
  <2>4. ASSUME NEW g \in heads', ~used'[g] PROVE used'[next'[g]]
    <3>1. CASE g = rest
      BY <3>1, <2>1, <1>3, <1>7, <1>9
    <3>2. CASE g # rest
      <4>1. g \in heads \ {h}
        BY <3>2, <2>4, <1>6, <1>9
      <4>2. used[next[g]] /\ next[g] \in heads \ {h}
        BY <4>1, <2>2, <2>3, <2>4, <1>9
      <4>3. QED
        BY <4>1, <4>2, <1>7, <1>9
    <3>3. QED
      BY <3>1, <3>2
  <2>5. QED
    BY <2>4 DEF NoTwoFree
<1>15. HoldersFit'
  <2>1. Room(h)' >= r /\ r \in Nat \ {0}
    BY <1>1, <1>3, <1>7 DEF Room, Span
  <2>2. \A g \in heads \ {h} : Room(g)' = Room(g)
    BY <1>7 DEF Room, Span
  <2>3. QED
    BY <2>1, <2>2, <1>1, <1>3, <1>5, <1>6, <1>7, <1>9, <1>10
    DEF Inv, HoldersFit, Room, Span
<1>16. QED
  BY <1>11, <1>12, <1>13, <1>14, <1>15 DEF Inv
\* The block is taken as it is: the list does not change.
LEMMA WholeStep ==
  ASSUME Inv, NEW h \in heads, NEW r \in Requests,
         FirstFit(h, BlockSize(r)), ~Splits(h, BlockSize(r)), Take(h, r),
         retry' \in [Clients -> Requests \cup {0}]
  PROVE  Inv'
<1> USE HeapAssumption
<1>1. /\ UNCHANGED <<heads, next, prev>>
      /\ used' = [used EXCEPT ![h] = TRUE]
      /\ ramUsed' = ramUsed + Span(h)
  BY DEF Take, Carve
<1>2. BlockSize(r) \in Nat /\ BlockSize(r) >= r /\ r \in Nat \ {0}
  BY BlockSizeBounds
<1>3. /\ h # MemSize /\ ~used[h] /\ lfree <= h /\ Room(h) >= BlockSize(r)
      /\ h \in Nat /\ next[h] \in Nat
  BY <1>2, BlockFacts DEF FirstFit, Fits, Inv, TypeOK
<1>4. /\ used' \in [heads -> BOOLEAN] /\ used'[h]
      /\ \A g \in heads \ {h} : used'[g] = used[g]
  BY <1>1 DEF Inv, TypeOK
<1>5. /\ want' \in [heads -> Requests \cup {0}] /\ want'[h] = r
      /\ \A g \in heads \ {h} : want'[g] = want[g]
  BY <1>1 DEF Take, Inv, TypeOK
<1>6. \A g \in heads : g \in Nat
  BY DEF Inv, TypeOK
<1>7. lfree' \in heads /\ LfreeLowest'
  <2>1. CASE h # lfree
    <3>1. lfree' = lfree /\ lfree \in heads
      BY <2>1 DEF Take, MoveUpLfree, Inv, TypeOK
    <3>2. QED
      BY <2>1, <3>1, <1>1, <1>4 DEF Inv, LfreeLowest
  <2>2. CASE h = lfree
    <3>1. PICK l \in heads :
            /\ lfree' = l
            /\ h <= l /\ (l = MemSize \/ ~used'[l])
            /\ \A g \in heads : h <= g /\ g < l => used'[g]
      BY <2>2, <1>1 DEF Take, MoveUpLfree
    <3>2. \A g \in heads : ~used'[g] => h <= g
      BY <2>2, <1>4 DEF Inv, LfreeLowest
    <3>3. QED
      BY <3>1, <3>2, <1>1, <1>6 DEF LfreeLowest
  <2>3. QED
    BY <2>1, <2>2
<1>8. TypeOK'
  <2>1. ramUsed' \in Int
    BY <1>1, <1>3 DEF Span, Inv, TypeOK
  <2>2. QED
    BY <2>1, <1>1, <1>4, <1>5, <1>7 DEF Inv, TypeOK
<1>9. ListSound'
  BY <1>1, <1>4 DEF Inv, ListSound
<1>10. NoTwoFree'
  BY <1>1, <1>4 DEF Inv, NoTwoFree, TypeOK
<1>11. HoldersFit'
  <2>1. \A g \in heads : Room(g)' = Room(g)
    BY <1>1 DEF Room, Span
  <2>2. Room(h) \in Int
    BY <1>3 DEF Room, Span
  <2>3. want'[h] \in 1..Room(h)' /\ used'[h]
    BY <2>1, <2>2, <1>2, <1>3, <1>4, <1>5
  <2>4. ASSUME NEW g \in heads \ {MemSize}, g # h
        PROVE  IF used'[g] THEN want'[g] \in 1..Room(g)' ELSE want'[g] = 0
    <3>1. IF used[g] THEN want[g] \in 1..Room(g) ELSE want[g] = 0
      BY DEF Inv, HoldersFit
    <3>2. used'[g] = used[g] /\ want'[g] = want[g] /\ Room(g)' = Room(g)
      BY <2>1, <2>4, <1>4, <1>5
    <3>3. QED
      BY <3>1, <3>2
  <2>5. QED
    BY <2>3, <2>4, <1>1 DEF HoldersFit
<1>12. QED
  BY <1>7, <1>8, <1>9, <1>10, <1>11 DEF Inv
-----------------------------------------------------------------------------
(***************************************************************************)
(* mem_free: Survivor(h) is left of h and the free blocks around it, and   *)
(* reaches to End(h); the struct mems in between vanish.                   *)
(***************************************************************************)
LEMMA PlugFacts ==
  ASSUME Inv, NEW h \in Allocated
  PROVE  /\ Survivor(h) \in heads /\ Survivor(h) \in Nat /\ Survivor(h) # MemSize
         /\ End(h) \in heads /\ End(h) \in Nat /\ End(h) <= MemSize
         /\ Survivor(h) <= h /\ h < next[h] /\ next[h] <= End(h)
         /\ Survivor(h) + Hdr + MinSize <= End(h)
         /\ Vanish(h) \subseteq heads
         /\ \A g \in Vanish(h) : Survivor(h) < g /\ g < End(h)
         /\ \A g \in heads \ Vanish(h) : g <= Survivor(h) \/ End(h) <= g
         /\ used[End(h)]
         /\ Survivor(h) # h => ~used[Survivor(h)]
         /\ Vanish(h) = {} => Survivor(h) = h /\ End(h) = next[h]
         /\ Survivor(h) # h => h \in Vanish(h)
<1> USE HeapAssumption
<1>1. h \in heads /\ h # MemSize /\ used[h]
  BY DEF Allocated
<1>2. /\ h \in Nat /\ next[h] \in Nat /\ next[h] \in heads
      /\ h + Hdr + MinSize <= next[h] /\ h < next[h] /\ next[h] <= MemSize
      /\ \A g \in heads : g <= h \/ next[h] <= g
  BY <1>1, BlockFacts DEF Inv
<1>3. ASSUME PlugsForward(h)
      PROVE  LET k == next[h] IN
             /\ k # MemSize /\ ~used[k] /\ used[next[k]]
             /\ next[k] \in Nat /\ next[k] \in heads
             /\ k < next[k] /\ next[k] <= MemSize
             /\ \A g \in heads : g <= k \/ next[k] <= g
  <2>1. next[h] # MemSize /\ ~used[next[h]]
    BY <1>3 DEF PlugsForward
  <2>2. used[next[next[h]]]
    BY <2>1, <1>2 DEF Inv, NoTwoFree
  <2>3. QED
    BY <2>1, <2>2, <1>2, BlockFacts DEF Inv
<1>4. ASSUME PlugsBackward(h)
      PROVE  /\ h # 0 /\ prev[h] \in heads /\ prev[h] \in Nat /\ prev[h] < h
             /\ prev[h] # MemSize /\ ~used[prev[h]]
             /\ prev[h] + Hdr + MinSize <= h
             /\ \A g \in heads : g <= prev[h] \/ h <= g
  <2>1. h # 0 /\ ~used[prev[h]]
    BY <1>4 DEF PlugsBackward, Inv, ListSound
  <2>2. /\ prev[h] \in heads /\ next[prev[h]] = h /\ prev[h] # MemSize
        /\ prev[h] \in Nat /\ prev[h] < h
    BY <2>1, <1>1, PrevFacts DEF Inv
  <2>3. QED
    BY <2>1, <2>2, BlockFacts DEF Inv
<1>5. ~PlugsForward(h) => used[next[h]]
  BY DEF PlugsForward, Inv, ListSound
<1>6. CASE PlugsForward(h) /\ PlugsBackward(h)
  <2>1. /\ Survivor(h) = prev[h] /\ End(h) = next[next[h]]
        /\ Vanish(h) = {next[h], h}
    BY <1>6 DEF Survivor, End, Vanish
  <2>2. QED
    BY <2>1, <1>1, <1>2, <1>3, <1>4, <1>6
<1>7. CASE PlugsForward(h) /\ ~PlugsBackward(h)
  <2>1. Survivor(h) = h /\ End(h) = next[next[h]] /\ Vanish(h) = {next[h]}
    BY <1>7 DEF Survivor, End, Vanish
  <2>2. QED
    BY <2>1, <1>1, <1>2, <1>3, <1>7
<1>8. CASE ~PlugsForward(h) /\ PlugsBackward(h)
  <2>1. Survivor(h) = prev[h] /\ End(h) = next[h] /\ Vanish(h) = {h}
    BY <1>8 DEF Survivor, End, Vanish
  <2>2. QED
    BY <2>1, <1>1, <1>2, <1>4, <1>5, <1>8
<1>9. CASE ~PlugsForward(h) /\ ~PlugsBackward(h)
  <2>1. Survivor(h) = h /\ End(h) = next[h] /\ Vanish(h) = {}
    BY <1>9 DEF Survivor, End, Vanish
  <2>2. QED
    BY <2>1, <1>1, <1>2, <1>5, <1>9
<1>10. QED
  BY <1>6, <1>7, <1>8, <1>9

LEMMA FreeStep ==
  ASSUME Inv, NEW h \in heads, Free(h)
  PROVE  Inv'
<1> USE HeapAssumption
<1> DEFINE s == Survivor(h)
           e == End(h)
           V == Vanish(h)
<1>1. h \in Allocated /\ h # MemSize /\ used[h] /\ h \in Nat /\ next[h] \in Nat
  BY BlockFacts DEF Free, Allocated, Inv
<1>2. /\ s \in heads /\ s \in Nat /\ s # MemSize
      /\ e \in heads /\ e \in Nat /\ e <= MemSize
      /\ s <= h /\ h < next[h] /\ next[h] <= e
      /\ s + Hdr + MinSize <= e
      /\ V \subseteq heads
      /\ \A g \in V : s < g /\ g < e
      /\ \A g \in heads \ V : g <= s \/ e <= g
      /\ used[e]
      /\ s # h => ~used[s]
      /\ V = {} => s = h /\ e = next[h]
      /\ s # h => h \in V
  BY <1>1, PlugFacts
<1>3. \A g \in heads : g \in Nat /\ g <= MemSize
  BY DEF Inv, TypeOK
<1>4. /\ heads' = heads \ V /\ heads' \subseteq heads
      /\ s \in heads' /\ e \in heads' /\ s < e
      /\ 0 \in heads' /\ MemSize \in heads'
  BY <1>2, <1>3 DEF Free, Inv, ListSound
<1> HIDE DEF s, e, V
<1>5. ASSUME NEW g \in heads' \ {s, MemSize}
      PROVE  next[g] \in heads' /\ next[g] \in Nat /\ ((g < s /\ next[g] <= s) \/ e < next[g])
  <2>1. g \in heads /\ g \in Nat /\ (g < s \/ e <= g)
    BY <1>2, <1>3, <1>4
  <2>2. next[g] \in heads /\ next[g] \in Nat /\ g < next[g] /\ (s <= g \/ next[g] <= s)
    BY <2>1, <1>2, BlockFacts DEF Inv
  <2>3. QED
    BY <2>1, <2>2, <1>2, <1>3, <1>4
<1>6. /\ next' \in [heads' -> heads']
      /\ next'[s] = e
      /\ \A g \in heads' \ {s} : next'[g] = next[g]
  <2>1. next' = [g \in heads' |-> IF g = s THEN e ELSE next[g]]
    BY DEF Free, s, e
  <2>2. next[MemSize] = MemSize
    BY DEF Inv, ListSound
  <2>3. \A g \in heads' \ {s} : next[g] \in heads'
    BY <2>2, <1>4, <1>5
  <2>4. QED
    BY <2>1, <2>3, <1>4
<1>7. /\ prev' \in [heads' -> 0..MemSize]
      /\ e # MemSize => prev'[e] = s
      /\ \A g \in heads' \ {e} : prev'[g] = prev[g]
  <2>1. prev' = [g \in heads' |-> IF g = e /\ V # {} THEN s ELSE prev[g]]
    BY DEF Free, s, e, V
  <2>2. s \in 0..MemSize /\ \A g \in heads : prev[g] \in 0..MemSize
    BY <1>2, <1>3 DEF Inv, TypeOK
  <2>3. ASSUME e # MemSize, V = {} PROVE prev[e] = s
    <3>1. s = h /\ e = next[h] /\ e # 0 /\ next[s] = e
      BY <2>3, <1>2
    <3>2. prev[e] \in heads /\ next[prev[e]] = e /\ prev[e] # MemSize
      BY <3>1, <2>3, <1>2, PrevFacts DEF Inv
    <3>3. QED
      BY <3>1, <3>2, <1>2, OnePredecessor DEF Inv
  <2>4. QED
    BY <2>1, <2>2, <2>3, <1>4
<1>8. /\ used' \in [heads' -> BOOLEAN] /\ ~used'[s]
      /\ \A g \in heads' \ {s} : used'[g] = used[g]
  <2>1. used' = [g \in heads' |-> g # h /\ used[g]]
    BY DEF Free
  <2>2. \A g \in heads : used[g] \in BOOLEAN
    BY DEF Inv, TypeOK
  <2>3. h \in heads' => s = h
    BY <1>2, <1>4
  <2>4. QED
    BY <2>1, <2>2, <2>3, <1>2, <1>4
<1>9. /\ want' \in [heads' -> Requests \cup {0}] /\ want'[s] = 0
      /\ \A g \in heads' \ {s} : want'[g] = want[g]
  <2>1. want' = [g \in heads' |-> IF g = h THEN 0 ELSE want[g]]
    BY DEF Free
  <2>2. s # h => want[s] = 0
    BY <1>2 DEF Inv, HoldersFit
  <2>3. \A g \in heads : want[g] \in Requests \cup {0}
    BY DEF Inv, TypeOK
  <2>4. h \in heads' => s = h
    BY <1>2, <1>4
  <2>5. QED
    BY <2>1, <2>2, <2>3, <2>4, <1>4
<1>10. lfree' \in heads' /\ LfreeLowest'
  <2>1. lfree \in Nat /\ lfree \in heads /\ \A g \in heads : ~used[g] => lfree <= g
    BY <1>3 DEF Inv, TypeOK, LfreeLowest
  <2>2. s # h => prev[h] = s /\ lfree <= s
    BY <2>1, <1>2 DEF s, Survivor
  <2>3. lfree' = IF s < lfree THEN s ELSE lfree
    <3>1. CASE PlugsBackward(h)
      <4>1. s = prev[h] /\ s # h
        BY <3>1 DEF s, Survivor, PlugsBackward
      <4>2. lfree <= s /\ s < h /\ h < next[h]
        BY <4>1, <2>2, <1>1, <1>2
      <4>3. QED
        BY <4>1, <4>2, <3>1, <2>1, <1>1, <1>2 DEF Free, LowerLfree
    <3>2. CASE ~PlugsBackward(h)
      <4>1. s = h
        BY <3>2 DEF s, Survivor
      <4>2. QED
        BY <4>1, <3>2, <2>1, <1>1, <1>2 DEF Free, LowerLfree
    <3>3. QED
      BY <3>1, <3>2
  <2>4. lfree' \in heads'
    BY <2>1, <2>3, <1>2, <1>4
  <2>5. lfree' = MemSize \/ ~used'[lfree']
    BY <2>1, <2>3, <2>4, <1>4, <1>8 DEF Inv, LfreeLowest
  <2>6. ASSUME NEW g \in heads', ~used'[g] PROVE lfree' <= g
    BY <2>1, <2>3, <2>6, <1>2, <1>3, <1>4, <1>8
  <2>7. QED
    BY <2>4, <2>5, <2>6 DEF LfreeLowest
<1>11. TypeOK'
  <2>1. heads' \subseteq 0..MemSize /\ retry' \in [Clients -> Requests \cup {0}]
    BY <1>4 DEF Free, Inv, TypeOK
  <2>2. ramUsed' \in Int
    BY <1>1 DEF Free, Span, Inv, TypeOK
  <2>3. QED
    BY <2>1, <2>2, <1>6, <1>7, <1>8, <1>9, <1>10 DEF TypeOK
<1>12. ListSound'
  <2>1. used'[MemSize] /\ next'[MemSize] = MemSize
    BY <1>2, <1>4, <1>6, <1>8 DEF Inv, ListSound
  <2>2. prev'[0] = 0
    BY <1>2, <1>4, <1>7 DEF Inv, ListSound
  <2>3. ASSUME NEW g \in heads' \ {MemSize}
        PROVE  /\ g + Hdr + MinSize <= next'[g]
               /\ \A k \in heads' : k <= g \/ next'[g] <= k
    <3>1. CASE g = s
      BY <3>1, <1>2, <1>4, <1>6
    <3>2. CASE g # s
      BY <3>2, <1>4, <1>6, BlockFacts DEF Inv
    <3>3. QED
      BY <3>1, <3>2
  <2>4. ASSUME NEW g \in heads' \ {MemSize}, g # 0
        PROVE  prev'[g] \in heads' /\ next'[prev'[g]] = g
    <3>1. CASE g = e
      BY <2>4, <3>1, <1>4, <1>6, <1>7
    <3>2. CASE g # e
      <4>1. prev'[g] = prev[g] /\ g \in heads /\ g \in Nat /\ (g <= s \/ e < g)
        BY <3>2, <1>2, <1>3, <1>4, <1>7
      <4>2. /\ prev[g] \in heads /\ next[prev[g]] = g /\ prev[g] # MemSize
            /\ prev[g] \in Nat /\ prev[g] < g
        BY <2>4, <4>1, PrevFacts DEF Inv
      <4>3. \A k \in heads : k <= prev[g] \/ g <= k
        BY <4>2, BlockFacts DEF Inv
      <4>4. prev[g] < s \/ e <= prev[g]
        BY <4>1, <4>2, <4>3, <1>2
      <4>5. prev[g] \in heads' /\ prev[g] # s
        BY <4>2, <4>4, <1>2, <1>4
      <4>6. QED
        BY <4>1, <4>2, <4>5, <1>6
    <3>3. QED
      BY <3>1, <3>2
  <2>5. QED
    BY <2>1, <2>2, <2>3, <2>4, <1>4 DEF ListSound
<1>13. NoTwoFree'
  <2>1. used'[e]
    BY <1>2, <1>4, <1>8
  <2>2. ASSUME NEW g \in heads', g # s, ~used'[g] PROVE used'[next'[g]]
    <3>1. g \in heads /\ ~used[g] /\ used[next[g]] /\ next'[g] = next[g]
      BY <2>2, <1>4, <1>6, <1>8 DEF Inv, NoTwoFree
    <3>2. g # MemSize /\ next[g] \in heads'
      BY <2>2, <3>1, <1>5 DEF Inv, ListSound
    <3>3. next[g] # s
      <4>1. SUFFICES ASSUME next[g] = s PROVE FALSE
        OBVIOUS
      <4>2. s = h /\ h # 0 /\ next[g] = h
        BY <3>1, <3>2, <4>1, <1>1, <1>2, BlockFacts DEF Inv
      <4>3. prev[h] = g
        BY <3>1, <3>2, <4>2, <1>1, PrevFacts, OnePredecessor DEF Inv
      <4>4. PlugsBackward(h)
        BY <3>1, <4>3, <1>1 DEF PlugsBackward
      <4>5. QED
        BY <4>2, <4>3, <4>4, <3>1, <1>1 DEF s, Survivor
    <3>4. QED
      BY <3>1, <3>2, <3>3, <1>8
  <2>3. QED
    BY <2>1, <2>2, <1>6 DEF NoTwoFree
<1>14. HoldersFit'
  <2>1. ASSUME NEW g \in heads' \ {MemSize}, g # s
        PROVE  IF used'[g] THEN want'[g] \in 1..Room(g)' ELSE want'[g] = 0
    <3>1. IF used[g] THEN want[g] \in 1..Room(g) ELSE want[g] = 0
      BY <1>4 DEF Inv, HoldersFit
    <3>2. used'[g] = used[g] /\ want'[g] = want[g] /\ Room(g)' = Room(g)
      BY <2>1, <1>6, <1>8, <1>9 DEF Room, Span
    <3>3. QED
      BY <3>1, <3>2
  <2>2. QED
    BY <2>1, <1>8, <1>9 DEF HoldersFit
<1>15. QED
  BY <1>10, <1>11, <1>12, <1>13, <1>14 DEF Inv
-----------------------------------------------------------------------------
(***************************************************************************)
(* mem_trim: the block behind h starts further down, or starts to exist.   *)
(***************************************************************************)
LEMMA TrimFacts ==
  ASSUME Inv, NEW h \in Allocated, NEW r \in Requests, TrimSize(r) < Room(h),
         used[next[h]] => Room(h) >= TrimSize(r) + Hdr + MinSize
  PROVE  LET rest == h + Hdr + TrimSize(r)
             e == RestEnd(h)
         IN /\ h \in heads /\ h \in Nat /\ h # MemSize /\ used[h]
            /\ rest \in Nat /\ h + Hdr + MinSize <= rest /\ rest < next[h]
            /\ rest \notin heads
            /\ e \in heads \ Absorbed(h) /\ e \in Nat /\ e <= MemSize /\ used[e]
            /\ rest + Hdr + MinSize <= e
            /\ next[h] \in Nat /\ next[h] \in heads
            /\ h \notin Absorbed(h) /\ 0 \notin Absorbed(h)
            /\ MemSize \notin Absorbed(h)
            /\ \A g \in heads \ Absorbed(h) : g <= h \/ e <= g
<1> USE HeapAssumption
<1>1. TrimSize(r) \in Nat /\ TrimSize(r) >= MinSize
  BY TrimSizeBounds
<1>2. h \in heads /\ h # MemSize /\ used[h]
  BY DEF Allocated
<1>3. /\ h \in Nat /\ next[h] \in Nat /\ next[h] \in heads
      /\ h + Hdr + MinSize <= next[h] /\ h < next[h] /\ next[h] <= MemSize
      /\ \A g \in heads : g \in Nat /\ (g <= h \/ next[h] <= g)
  BY <1>2, BlockFacts DEF Inv, TypeOK
<1>4. h + Hdr + TrimSize(r) < next[h]
  BY <1>1, <1>3 DEF Room, Span
<1>5. CASE used[next[h]]
  <2>1. RestEnd(h) = next[h] /\ Absorbed(h) = {}
    BY <1>5 DEF RestEnd, Absorbed
  <2>2. h + Hdr + TrimSize(r) + Hdr + MinSize <= next[h]
    BY <1>1, <1>3, <1>5 DEF Room, Span
  <2>3. QED
    BY <2>1, <2>2, <1>1, <1>2, <1>3, <1>4, <1>5
<1>6. CASE ~used[next[h]]
  <2>1. RestEnd(h) = next[next[h]] /\ Absorbed(h) = {next[h]}
    BY <1>6 DEF RestEnd, Absorbed
  <2>2. next[h] # MemSize /\ used[next[next[h]]]
    BY <1>3, <1>6 DEF Inv, ListSound, NoTwoFree
  <2>3. /\ next[next[h]] \in heads /\ next[next[h]] \in Nat
        /\ next[h] + Hdr + MinSize <= next[next[h]] /\ next[next[h]] <= MemSize
        /\ \A g \in heads : g <= next[h] \/ next[next[h]] <= g
    BY <2>2, <1>3, BlockFacts DEF Inv
  <2>4. QED
    BY <2>1, <2>2, <2>3, <1>1, <1>2, <1>3, <1>4
<1>7. QED
  BY <1>5, <1>6

LEMMA TrimStep ==
  ASSUME Inv, NEW h \in heads, NEW r \in Requests, Trim(h, r)
  PROVE  Inv'
<1> USE HeapAssumption
<1> DEFINE n == TrimSize(r)
           rest == h + Hdr + n
           e == RestEnd(h)
           A == Absorbed(h)
<1>1. n \in Nat /\ n >= MinSize /\ n >= r /\ r \in Nat \ {0}
  BY TrimSizeBounds
<1>2. /\ h \in Nat /\ h # MemSize /\ used[h]
      /\ rest \in Nat /\ h + Hdr + MinSize <= rest /\ rest < next[h]
      /\ rest \notin heads
      /\ e \in heads \ A /\ e \in Nat /\ e <= MemSize /\ used[e]
      /\ rest + Hdr + MinSize <= e
      /\ next[h] \in Nat /\ next[h] \in heads
      /\ h \notin A /\ 0 \notin A /\ MemSize \notin A
      /\ \A g \in heads \ A : g <= h \/ e <= g
  BY TrimFacts DEF Trim
<1>3. \A g \in heads : g \in Nat /\ g <= MemSize
  BY DEF Inv, TypeOK
<1>4. /\ heads' = (heads \ A) \cup {rest}
      /\ h \in heads' /\ e \in heads' /\ 0 \in heads' /\ MemSize \in heads'
      /\ h < rest /\ rest < e
  <2>1. heads' = (heads \ A) \cup {rest}
    BY DEF Trim
  <2>2. 0 \in heads /\ MemSize \in heads
    BY DEF Inv, ListSound
  <2>3. h < rest /\ rest < e
    BY <1>2
  <2>4. QED
    BY <2>1, <2>2, <2>3, <1>2
<1>5. rest = h + Hdr + n
  OBVIOUS
<1> HIDE DEF n, e, A, rest
<1>6. ASSUME NEW g \in heads \ A, g # h, g # MemSize
      PROVE  next[g] \in heads \ A /\ next[g] # e
  <2>1. g \in Nat /\ (g < h \/ e <= g)
    BY <1>2, <1>3, <1>6
  <2>2. next[g] \in heads /\ next[g] \in Nat /\ g < next[g] /\ (h <= g \/ next[g] <= h)
    BY <2>1, <1>6, BlockFacts DEF Inv
  <2>3. \A k \in A : h < k /\ k < e
    BY <1>2, <1>3, BlockFacts DEF A, Absorbed, e, RestEnd, Inv
  <2>4. QED
    BY <2>1, <2>2, <2>3, <1>2
<1>7. /\ next' \in [heads' -> heads']
      /\ next'[h] = rest /\ next'[rest] = e
      /\ \A g \in (heads \ A) \ {h} : next'[g] = next[g]
  <2>1. next' = [g \in heads' |-> CASE g = h -> rest
                                    [] g = rest -> e
                                    [] OTHER -> next[g]]
    BY DEF Trim, rest, n, e
  <2>2. next[MemSize] = MemSize
    BY DEF Inv, ListSound
  <2>3. \A g \in (heads \ A) \ {h} : next[g] \in heads'
    BY <2>2, <1>2, <1>4, <1>6
  <2>4. QED
    BY <2>1, <2>3, <1>2, <1>4
<1>8. /\ prev' \in [heads' -> 0..MemSize]
      /\ prev'[rest] = h
      /\ e # MemSize => prev'[e] = rest
      /\ \A g \in (heads \ A) \ {e} : prev'[g] = prev[g]
  <2>1. prev' = [g \in heads' |-> CASE g = rest -> h
                                    [] g = e /\ g # MemSize -> rest
                                    [] OTHER -> prev[g]]
    BY DEF Trim, rest, n, e
  <2>2. /\ h \in 0..MemSize /\ rest \in 0..MemSize
        /\ \A g \in heads : prev[g] \in 0..MemSize
    BY <1>2, <1>3, <1>4 DEF Inv, TypeOK
  <2>3. QED
    BY <2>1, <2>2, <1>2, <1>4
<1>9. /\ used' \in [heads' -> BOOLEAN] /\ ~used'[rest]
      /\ \A g \in heads \ A : used'[g] = used[g]
  <2>1. used' = [g \in heads' |-> g # rest /\ used[g]]
    BY DEF Trim, rest, n
  <2>2. \A g \in heads : used[g] \in BOOLEAN
    BY DEF Inv, TypeOK
  <2>3. QED
    BY <2>1, <2>2, <1>2, <1>4
<1>10. /\ want' \in [heads' -> Requests \cup {0}] /\ want'[h] = r /\ want'[rest] = 0
       /\ \A g \in (heads \ A) \ {h} : want'[g] = want[g]
  <2>1. want' = [g \in heads' |-> CASE g = h -> r
                                    [] g = rest -> 0
                                    [] OTHER -> want[g]]
    BY DEF Trim, rest, n
  <2>2. \A g \in heads : want[g] \in Requests \cup {0}
    BY DEF Inv, TypeOK
  <2>3. QED
    BY <2>1, <2>2, <1>2, <1>4
<1>11. lfree' \in heads' /\ LfreeLowest'
  <2>1. /\ lfree \in Nat /\ lfree \in heads
        /\ lfree = MemSize \/ ~used[lfree]
        /\ \A g \in heads : ~used[g] => lfree <= g
    BY <1>3 DEF Inv, TypeOK, LfreeLowest
  <2>2. CASE used[next[h]]
    <3>1. A = {} /\ lfree' = IF rest < lfree THEN rest ELSE lfree
      BY <2>2 DEF A, Absorbed, Trim, rest, n
    <3>2. lfree' \in heads' /\ (lfree' = MemSize \/ ~used'[lfree'])
      BY <3>1, <2>1, <1>4, <1>9
    <3>3. \A g \in heads' : ~used'[g] => lfree' <= g
      BY <3>1, <2>1, <1>2, <1>3, <1>4, <1>9
    <3>4. QED
      BY <3>2, <3>3 DEF LfreeLowest
  <2>3. CASE ~used[next[h]]
    <3>1. A = {next[h]} /\ lfree' = IF lfree = next[h] THEN rest ELSE lfree
      BY <2>3 DEF A, Absorbed, Trim, rest, n
    <3>2. lfree # next[h] => lfree <= h
      BY <2>1, <2>3, <1>2, BlockFacts DEF Inv
    <3>3. lfree' = MemSize \/ ~used'[lfree']
      <4>1. CASE lfree = next[h]
        BY <4>1, <3>1, <1>9
      <4>2. CASE lfree # next[h]
        BY <4>2, <3>1, <2>1, <1>9
      <4>3. QED
        BY <4>1, <4>2
    <3>4. lfree' \in heads'
      BY <3>1, <2>1, <1>4
    <3>5. lfree' <= rest
      BY <3>1, <3>2, <2>1, <1>2, <1>4
    <3>6. ASSUME NEW g \in heads \ A, ~used'[g] PROVE lfree' <= g
      <4>1. lfree <= g /\ g \in Nat /\ rest < next[h]
        BY <3>6, <2>1, <1>2, <1>3, <1>9
      <4>2. QED
        BY <4>1, <3>1, <1>2
    <3>7. \A g \in heads' : ~used'[g] => lfree' <= g
      BY <3>5, <3>6, <1>4
    <3>8. QED
      BY <3>3, <3>4, <3>7 DEF LfreeLowest
  <2>4. QED
    BY <2>2, <2>3
<1>12. TypeOK'
  <2>1. heads' \subseteq 0..MemSize
    <3>1. rest \in 0..MemSize
      BY <1>2, <1>4
    <3>2. QED
      BY <3>1, <1>4 DEF Inv, TypeOK
  <2>2. ramUsed' \in Int /\ retry' \in [Clients -> Requests \cup {0}]
    BY <1>1, <1>2 DEF Trim, Room, Span, n, Inv, TypeOK
  <2>3. QED
    BY <2>1, <2>2, <1>7, <1>8, <1>9, <1>10, <1>11 DEF TypeOK
<1>13. ListSound'
  <2>1. used'[MemSize] /\ next'[MemSize] = MemSize
    BY <1>2, <1>4, <1>7, <1>9 DEF Inv, ListSound
  <2>2. prev'[0] = 0
    BY <1>2, <1>4, <1>8 DEF Inv, ListSound
  <2>3. ASSUME NEW g \in heads' \ {MemSize}
        PROVE  /\ g + Hdr + MinSize <= next'[g]
               /\ \A k \in heads' : k <= g \/ next'[g] <= k
    <3>1. CASE g = h
      BY <3>1, <1>2, <1>4, <1>7
    <3>2. CASE g = rest
      BY <3>2, <1>2, <1>4, <1>7
    <3>3. CASE g # h /\ g # rest
      <4>1. g \in heads \ A /\ next'[g] = next[g] /\ g \in Nat
        BY <3>3, <1>3, <1>4, <1>7
      <4>2. /\ g + Hdr + MinSize <= next[g] /\ next[g] \in heads /\ next[g] \in Nat
            /\ \A k \in heads : k <= g \/ next[g] <= k
        BY <2>3, <4>1, BlockFacts DEF Inv
      <4>3. rest <= g \/ next[g] <= rest
        BY <3>3, <4>1, <4>2, <1>2, <1>4
      <4>4. QED
        BY <4>1, <4>2, <4>3, <1>4
    <3>4. QED
      BY <3>1, <3>2, <3>3
  <2>4. ASSUME NEW g \in heads' \ {MemSize}, g # 0
        PROVE  prev'[g] \in heads' /\ next'[prev'[g]] = g
    <3>1. CASE g = rest
      BY <3>1, <1>4, <1>7, <1>8
    <3>2. CASE g = e
      BY <2>4, <3>2, <1>4, <1>7, <1>8
    <3>3. CASE g # rest /\ g # e
      <4>1. g \in heads \ A /\ prev'[g] = prev[g] /\ g \in Nat /\ (g <= h \/ e < g)
        BY <3>3, <1>2, <1>3, <1>4, <1>8
      <4>2. /\ prev[g] \in heads /\ next[prev[g]] = g /\ prev[g] # MemSize
            /\ prev[g] \in Nat /\ prev[g] < g
        BY <2>4, <4>1, PrevFacts DEF Inv
      <4>3. \A k \in heads : k <= prev[g] \/ g <= k
        BY <4>2, BlockFacts DEF Inv
      <4>4. prev[g] < h \/ e <= prev[g]
        BY <4>1, <4>2, <4>3, <1>2
      <4>5. prev[g] \in heads \ A /\ prev[g] # h
        <5>1. \A k \in A : h < k /\ k < e
          BY <1>2, <1>3, BlockFacts DEF A, Absorbed, e, RestEnd, Inv
        <5>2. QED
          BY <5>1, <4>2, <4>4, <1>2, <1>4
      <4>6. QED
        BY <4>1, <4>2, <4>5, <1>4, <1>7
    <3>4. QED
      BY <3>1, <3>2, <3>3
  <2>5. QED
    BY <2>1, <2>2, <2>3, <2>4, <1>4 DEF ListSound
<1>14. NoTwoFree'
  <2>1. ASSUME NEW g \in heads \ A, ~used'[g] PROVE used'[next'[g]]
    <3>1. ~used[g] /\ used[next[g]] /\ g # h /\ g # MemSize
      BY <2>1, <1>2, <1>9 DEF Inv, NoTwoFree, ListSound
    <3>2. QED
      BY <2>1, <3>1, <1>6, <1>7, <1>9
  <2>2. used'[next'[rest]]
    BY <1>2, <1>7, <1>9
  <2>3. QED
    BY <2>1, <2>2, <1>4 DEF NoTwoFree
<1>15. HoldersFit'
  <2>1. Room(h)' = n
    BY <1>1, <1>2, <1>5, <1>7 DEF Room, Span
  <2>2. ASSUME NEW g \in (heads \ A) \ {MemSize}, g # h
        PROVE  IF used'[g] THEN want'[g] \in 1..Room(g)' ELSE want'[g] = 0
    <3>1. IF used[g] THEN want[g] \in 1..Room(g) ELSE want[g] = 0
      BY DEF Inv, HoldersFit
    <3>2. used'[g] = used[g] /\ want'[g] = want[g] /\ Room(g)' = Room(g)
      BY <2>2, <1>7, <1>9, <1>10 DEF Room, Span
    <3>3. QED
      BY <3>1, <3>2
  <2>3. want'[h] \in 1..Room(h)' /\ used'[h]
    BY <2>1, <1>1, <1>2, <1>9, <1>10
  <2>4. QED
    BY <2>2, <2>3, <1>4, <1>9, <1>10 DEF HoldersFit
<1>16. QED
  BY <1>11, <1>12, <1>13, <1>14, <1>15 DEF Inv

LEMMA TrimKeepsStep ==
  ASSUME Inv, NEW h \in heads, NEW r \in Requests, TrimKeeps(h, r)
  PROVE  Inv'
<1> USE HeapAssumption
<1>1. /\ UNCHANGED <<heads, next, prev, used, lfree, ramUsed, retry>>
      /\ want' = [want EXCEPT ![h] = r] /\ r < want[h] /\ used[h] /\ h # MemSize
  BY DEF TrimKeeps, Allocated
<1>2. TypeOK' /\ ListSound' /\ NoTwoFree' /\ LfreeLowest'
  BY <1>1 DEF Inv, TypeOK, ListSound, NoTwoFree, LfreeLowest
<1>3. ASSUME NEW g \in heads \ {MemSize}
      PROVE  IF used[g] THEN want'[g] \in 1..Room(g) ELSE want'[g] = 0
  <2>1. IF used[g] THEN want[g] \in 1..Room(g) ELSE want[g] = 0
    BY DEF Inv, HoldersFit
  <2>2. r \in Nat \ {0} /\ want'[g] = (IF g = h THEN r ELSE want[g])
    BY <1>1 DEF Inv, TypeOK
  <2>3. Room(g) \in Int
    BY BlockFacts DEF Room, Span, Inv
  <2>4. QED
    BY <1>1, <2>1, <2>2, <2>3
<1>4. \A g \in heads : Room(g)' = Room(g)
  BY <1>1 DEF Room, Span
<1>5. HoldersFit'
  BY <1>1, <1>3, <1>4 DEF HoldersFit
<1>6. QED
  BY <1>2, <1>5 DEF Inv
-----------------------------------------------------------------------------
LEMMA InvStep == Inv /\ [Next]_vars => Inv'
<1> USE HeapAssumption
<1> SUFFICES ASSUME Inv, [Next]_vars PROVE Inv'
  OBVIOUS
<1>1. retry \in [Clients -> Requests \cup {0}]
  BY DEF Inv, TypeOK
<1>2. ASSUME NEW c \in Clients, NEW r \in Requests, Malloc(c, r) PROVE Inv'
  <2>1. PICK h \in heads : FirstFit(h, BlockSize(r)) /\ Take(h, r)
    BY <1>2 DEF Malloc
  <2>2. retry' \in [Clients -> Requests \cup {0}]
    BY <1>1, <1>2 DEF Malloc
  <2>3. QED
    BY <2>1, <2>2, SplitStep, WholeStep
<1>3. ASSUME NEW c \in Clients, NEW r \in Requests, MallocAgain(c, r) PROVE Inv'
  <2>1. retry' \in [Clients -> Requests \cup {0}]
    BY <1>1, <1>3 DEF MallocAgain
  <2>2. QED
    BY <2>1, <1>3 DEF MallocAgain, Inv, TypeOK, ListSound, NoTwoFree, LfreeLowest,
                      HoldersFit, Room, Span
<1>4. ASSUME NEW c \in Clients, MallocFails(c) PROVE Inv'
  <2>1. retry' \in [Clients -> Requests \cup {0}]
    BY <1>1, <1>4 DEF MallocFails
  <2>2. QED
    BY <2>1, <1>4 DEF MallocFails, Inv, TypeOK, ListSound, NoTwoFree, LfreeLowest,
                      HoldersFit, Room, Span
<1>5. ASSUME UNCHANGED vars PROVE Inv'
  BY <1>5 DEF vars, Inv, TypeOK, ListSound, NoTwoFree, LfreeLowest, HoldersFit,
              Room, Span
<1>6. QED
  BY <1>2, <1>3, <1>4, <1>5, FreeStep, TrimStep, TrimKeepsStep DEF Next

LEMMA InvCorrect == Spec => []Inv
BY InvInit, InvStep, PTL DEF Spec

\* Types: in particular lfree always points to a struct mem of the list.
THEOREM TypeCorrect == Spec => []TypeOK
<1>1. Inv => TypeOK
  BY DEF Inv
<1>2. QED
  BY <1>1, InvCorrect, PTL

\* The blocks tile the pool after any sequence of operations.
THEOREM ListCorrect == Spec => []ListSound
<1>1. Inv => ListSound
  BY DEF Inv
<1>2. QED
  BY <1>1, InvCorrect, PTL

\* What the comment of plug_holes says holds after every operation, shrinking
\* included, which "already" relies on it.
THEOREM NoTwoFreeCorrect == Spec => []NoTwoFree
<1>1. Inv => NoTwoFree
  BY DEF Inv
<1>2. QED
  BY <1>1, InvCorrect, PTL

\* The search of mem_malloc may start at lfree.
THEOREM LfreeCorrect == Spec => []LfreeLowest
<1>1. Inv => LfreeLowest
  BY DEF Inv
<1>2. QED
  BY <1>1, InvCorrect, PTL

\* A holder's memory lies inside its block.
THEOREM HoldersCorrect == Spec => []HoldersFit
<1>1. Inv => HoldersFit
  BY DEF Inv
<1>2. QED
  BY <1>1, InvCorrect, PTL

\* mem_malloc gives up only when the pool has no block for the request.
THEOREM NeverFailsEarly == Spec => FailsOnlyWhenFull
<1> USE HeapAssumption
<1>1. Inv /\ [Next]_vars
        => [\A c \in Clients :
              retry[c] # 0 /\ retry'[c] = 0 /\ UNCHANGED blocks
                => \A h \in heads : ~used[h] => Room(h) < BlockSize(retry[c])]_vars
  <2> SUFFICES ASSUME Inv, Next, NEW c \in Clients,
                      retry[c] # 0, retry'[c] = 0, UNCHANGED blocks,
                      NEW h \in heads, ~used[h]
               PROVE  Room(h) < BlockSize(retry[c])
    BY DEF vars
  <2>1. retry[c] \in Requests /\ retry \in [Clients -> Requests \cup {0}]
    BY DEF Inv, TypeOK
  <2>2. NoFit(retry[c])
    <3>1. ASSUME NEW d \in Clients, NEW r \in Requests, Malloc(d, r) PROVE FALSE
      <4>1. PICK k \in heads : FirstFit(k, BlockSize(r)) /\ Take(k, r)
        BY <3>1 DEF Malloc
      <4>2. ~used[k]
        BY <4>1 DEF FirstFit, Fits
      <4>3. used'[k]
        <5>1. CASE Splits(k, BlockSize(r))
          <6>1. k \in heads'
            BY <4>1, <5>1 DEF Take, Carve
          <6>2. k # k + Hdr + BlockSize(r)
            BY BlockSizeBounds DEF Inv, TypeOK
          <6>3. QED
            BY <4>1, <5>1, <6>1, <6>2 DEF Take, Carve
        <5>2. CASE ~Splits(k, BlockSize(r))
          BY <4>1, <5>2 DEF Take, Carve, Inv, TypeOK
        <5>3. QED
          BY <5>1, <5>2
      <4>4. QED
        BY <4>2, <4>3 DEF blocks
    <3>2. ASSUME NEW d \in Clients, NEW r \in Requests, MallocAgain(d, r) PROVE FALSE
      <4>1. d # c /\ retry' = [retry EXCEPT ![d] = r]
        BY <3>2 DEF MallocAgain
      <4>2. QED
        BY <4>1, <2>1
    <3>3. ASSUME NEW d \in Clients, MallocFails(d) PROVE NoFit(retry[c])
      <4>1. d = c
        BY <3>3, <2>1 DEF MallocFails
      <4>2. QED
        BY <3>3, <4>1 DEF MallocFails
    <3>4. QED
      BY <3>1, <3>2, <3>3 DEF Next, Free, Trim, TrimKeeps
  <2>3. BlockSize(retry[c]) \in Nat
    BY <2>1, BlockSizeBounds
  <2>4. h # MemSize /\ lfree <= h
    BY DEF Inv, ListSound, LfreeLowest
  <2>5. h \in Nat /\ next[h] \in Nat /\ next[h] <= MemSize
    BY <2>4, BlockFacts DEF Inv
  <2>6. QED
    BY <2>2, <2>3, <2>4, <2>5 DEF NoFit, Fits, Room, Span
<1>2. QED
  BY <1>1, InvCorrect, PTL DEF Spec, FailsOnlyWhenFull
-----------------------------------------------------------------------------
(***************************************************************************)
(* The blocks implement the abstract allocator.                            *)
(***************************************************************************)
Piece(h, len) == [addr |-> h + Hdr, len |-> len]

\* A step that changes the holding of h at most, and what it does then.
LEMMA AllocateMaps ==
  ASSUME Inv, Inv', NEW h \in heads, NEW r \in Requests, ~used[h], h # MemSize,
         Allocated' = Allocated \cup {h}, want'[h] = r,
         \A g \in Allocated : want'[g] = want[g]
  PROVE  Abstract!Next
<1> USE HeapAssumption
<1>1. h \in Nat /\ \A g \in heads : g <= h \/ next[h] <= g
  BY BlockFacts DEF Inv
<1>2. h \in Allocated' /\ h \in heads'
  BY DEF Allocated
<1>3. h + Hdr + r <= MemSize
  <2>1. r \in 1..Room(h)' /\ next'[h] \in Nat /\ next'[h] <= MemSize
    <3>1. used'[h] /\ h \in heads' \ {MemSize}
      BY <1>2 DEF Allocated
    <3>2. next'[h] \in 0..MemSize
      BY <1>2 DEF Inv, TypeOK
    <3>3. QED
      BY <3>1, <3>2 DEF Inv, HoldersFit
  <2>2. QED
    BY <2>1, <1>1 DEF Room, Span
<1>4. Held' = Held \cup {Piece(h, r)}
  BY DEF Held, Piece
<1>5. ASSUME NEW s \in Held PROVE Abstract!Apart(Piece(h, r), s)
  <2>1. PICK g \in Allocated : s = Piece(g, want[g])
    BY <1>5 DEF Held, Piece
  <2>2. g \in heads /\ g # MemSize /\ used[g] /\ g # h
    BY DEF Allocated
  <2>3. /\ want[g] \in 1..Room(g) /\ g \in Nat /\ next[g] \in Nat
        /\ g < next[g] /\ (h <= g \/ next[g] <= h)
    BY <2>2, BlockFacts DEF Inv, HoldersFit
  <2>4. \A k \in heads : k \in Nat /\ (k <= g \/ next[g] <= k)
    BY <2>2, BlockFacts DEF Inv, TypeOK
  <2>5. g + Hdr + want[g] <= h + Hdr \/ h + Hdr + r <= g + Hdr
    <3>1. CASE g < h
      BY <3>1, <2>2, <2>3, <1>1 DEF Room, Span
    <3>2. CASE h < g
      <4>1. h \in heads' /\ g \in heads' /\ used'[h] /\ used'[g] /\ g \in Allocated'
        BY <1>2 DEF Allocated
      <4>2. next'[h] <= g /\ next'[h] \in Nat
        <5>1. g <= h \/ next'[h] <= g
          BY <4>1 DEF Inv, ListSound
        <5>2. next'[h] \in 0..MemSize
          BY <4>1 DEF Inv, TypeOK
        <5>3. QED
          BY <3>2, <5>1, <5>2, <1>1, <2>3
      <4>3. r \in 1..Room(h)'
        BY <4>1 DEF Inv, HoldersFit
      <4>4. QED
        BY <4>2, <4>3, <1>1, <2>3 DEF Room, Span
    <3>3. QED
      BY <3>1, <3>2, <1>1, <2>2, <2>3
  <2>6. QED
    BY <2>1, <2>5 DEF Abstract!Apart, Piece
<1>6. Piece(h, r) \in Abstract!Region
  BY <1>1, <1>3 DEF Abstract!Region, Piece
<1>7. Abstract!Allocate(Piece(h, r))
  BY <1>3, <1>4, <1>5 DEF Abstract!Allocate, Piece
<1>8. QED
  BY <1>6, <1>7 DEF Abstract!Next
LEMMA ReleaseMaps ==
  ASSUME Inv, NEW h \in Allocated,
         Allocated' = Allocated \ {h}, \A g \in Allocated \ {h} : want'[g] = want[g]
  PROVE  Abstract!Next
<1> USE HeapAssumption
<1>1. Piece(h, want[h]) \in Held
  BY DEF Held, Piece
<1>2. \A g \in Allocated : g \in Nat
  BY DEF Allocated, Inv, TypeOK
<1>3. Held' = Held \ {Piece(h, want[h])}
  <2>1. \A g \in Allocated \ {h} : g + Hdr # h + Hdr
    BY <1>2
  <2>2. Held' = {Piece(g, want[g]) : g \in Allocated \ {h}}
    BY DEF Held, Piece
  <2>3. \A g \in Allocated \ {h} : Piece(g, want[g]) # Piece(h, want[h])
    BY <2>1 DEF Piece
  <2>4. Held = {Piece(g, want[g]) : g \in Allocated}
    BY DEF Held, Piece
  <2>5. QED
    BY <2>2, <2>3, <2>4
<1>4. QED
  BY <1>1, <1>3 DEF Abstract!Next, Abstract!Release

LEMMA ShrinkMaps ==
  ASSUME Inv, NEW h \in Allocated, NEW r \in Requests, r <= want[h],
         Allocated' = Allocated, want'[h] = r,
         \A g \in Allocated \ {h} : want'[g] = want[g]
  PROVE  Abstract!Next
<1> USE HeapAssumption
<1> DEFINE old == Piece(h, want[h])
<1>1. old \in Held
  BY DEF Held, Piece
<1>2. \A g \in Allocated : g \in Nat
  BY DEF Allocated, Inv, TypeOK
<1>3. Held' = (Held \ {old}) \cup {Piece(h, r)}
  <2>1. \A g \in Allocated \ {h} : g + Hdr # h + Hdr
    BY <1>2
  <2>2. \A g \in Allocated \ {h} : Piece(g, want[g]) # old
    BY <2>1 DEF Piece
  <2>3. Held = {Piece(g, want[g]) : g \in Allocated}
    BY DEF Held, Piece
  <2>4. Held' = {Piece(g, want'[g]) : g \in Allocated}
    BY DEF Held, Piece
  <2>5. \A x \in Held' : x \in (Held \ {old}) \cup {Piece(h, r)}
    BY <2>2, <2>3, <2>4
  <2>6. \A x \in (Held \ {old}) \cup {Piece(h, r)} : x \in Held'
    BY <2>2, <2>3, <2>4
  <2>7. QED
    BY <2>5, <2>6
<1>4. Piece(h, r) = [old EXCEPT !.len = r] /\ r <= old.len
  BY DEF Piece
<1>5. QED
  BY <1>1, <1>3, <1>4 DEF Abstract!Next, Abstract!Shrink

\* Holders get memory no one else holds, it does not move or shrink under
\* them, and every step of the heap is a step of the abstract allocator.
THEOREM ImplementsAllocator == Spec => AllocatorSpec
<1> USE HeapAssumption
<1>1. Init => Abstract!Init
  BY DEF Init, Abstract!Init, Held, Allocated
<1>2. Inv /\ Inv' /\ [Next]_vars => [Abstract!Next]_Held
  <2> SUFFICES ASSUME Inv, Inv', [Next]_vars PROVE [Abstract!Next]_Held
    OBVIOUS
  <2>1. ASSUME NEW c \in Clients, NEW r \in Requests, Malloc(c, r)
        PROVE Abstract!Next
    <3>1. PICK h \in heads : FirstFit(h, BlockSize(r)) /\ Take(h, r)
      BY <2>1 DEF Malloc
    <3>2. ~used[h] /\ h # MemSize
      BY <3>1 DEF FirstFit, Fits, Inv, ListSound
    <3>3. h \in heads' /\ want'[h] = r
      BY <3>1 DEF Take, Carve
    <3>4. \A g \in Allocated : want'[g] = want[g]
      <4>1. \A g \in Allocated : g \in heads' /\ g # h /\ g \in heads
        BY <3>1, <3>2 DEF Allocated, Take, Carve
      <4>2. QED
        BY <3>1, <4>1 DEF Take
    <3>5. Allocated' = Allocated \cup {h}
      <4>1. CASE Splits(h, BlockSize(r))
        <5> DEFINE rest == h + Hdr + BlockSize(r)
        <5>1. /\ heads' = heads \cup {rest}
              /\ used' = [g \in heads' |-> CASE g = h -> TRUE
                                             [] g = rest -> FALSE
                                             [] OTHER -> used[g]]
          BY <3>1, <4>1 DEF Take, Carve
        <5>2. rest \notin heads
          <6>1. BlockSize(r) \in Nat /\ Room(h) >= BlockSize(r) + Hdr + MinSize
            BY <4>1, BlockSizeBounds DEF Splits
          <6>2. /\ h \in Nat /\ next[h] \in Nat
                /\ \A g \in heads : g \in Nat /\ (g <= h \/ next[h] <= g)
            BY <3>2, BlockFacts DEF Inv, TypeOK
          <6>3. QED
            BY <6>1, <6>2 DEF Room, Span
        <5> HIDE DEF rest
        <5>3. used'[h] /\ \A g \in heads' \ {h} : used'[g] <=> g # rest /\ used[g]
          BY <5>1, <5>2
        <5>4. QED
          BY <5>1, <5>2, <5>3, <3>2 DEF Allocated
      <4>2. CASE ~Splits(h, BlockSize(r))
        BY <3>1, <3>2, <4>2 DEF Take, Carve, Allocated, Inv, TypeOK
      <4>3. QED
        BY <4>1, <4>2
    <3>6. QED
      BY <3>2, <3>3, <3>4, <3>5, AllocateMaps
  <2>2. ASSUME NEW h \in heads, Free(h) PROVE Abstract!Next
    <3>1. h \in Allocated /\ Vanish(h) \subseteq {h} \cup {g \in heads : ~used[g]}
      BY <2>2 DEF Free, Vanish, PlugsForward, PlugsBackward, Allocated, Inv, TypeOK
    <3>2. heads' = heads \ Vanish(h) /\ used' = [g \in heads' |-> g # h /\ used[g]]
      BY <2>2 DEF Free
    <3>3. Allocated' = Allocated \ {h}
      BY <3>1, <3>2 DEF Allocated
    <3>4. \A g \in Allocated \ {h} : want'[g] = want[g]
      BY <2>2, <3>1 DEF Free, Allocated
    <3>5. QED
      BY <3>1, <3>3, <3>4, ReleaseMaps
  <2>3. ASSUME NEW h \in heads, NEW r \in Requests, Trim(h, r) PROVE Abstract!Next
    <3> DEFINE rest == h + Hdr + TrimSize(r)
    <3>1. h \in Allocated /\ r <= want[h] /\ rest \notin heads /\ h # rest
      BY <2>3, TrimFacts DEF Trim
    <3>2. /\ heads' = (heads \ Absorbed(h)) \cup {rest}
          /\ used' = [g \in heads' |-> g # rest /\ used[g]]
          /\ want' = [g \in heads' |-> CASE g = h -> r
                                         [] g = rest -> 0
                                         [] OTHER -> want[g]]
      BY <2>3 DEF Trim
    <3> HIDE DEF rest
    <3>3. Absorbed(h) \subseteq {g \in heads : ~used[g]}
      BY <3>1 DEF Absorbed, Allocated, Inv, TypeOK
    <3>4. Allocated' = Allocated
      BY <3>1, <3>2, <3>3 DEF Allocated
    <3>5. want'[h] = r /\ \A g \in Allocated \ {h} : want'[g] = want[g]
      BY <3>1, <3>2, <3>3 DEF Allocated
    <3>6. QED
      BY <3>1, <3>4, <3>5, ShrinkMaps
  <2>4. ASSUME NEW h \in heads, NEW r \in Requests, TrimKeeps(h, r)
        PROVE Abstract!Next
    <3>1. h \in Allocated /\ r <= want[h] /\ Allocated' = Allocated
      <4>1. r < want[h] /\ h \in Allocated
        BY <2>4 DEF TrimKeeps
      <4>2. want[h] \in Requests \cup {0}
        BY <4>1 DEF Allocated, Inv, TypeOK
      <4>3. want[h] \in Nat /\ r \in Nat
        <5>1. \A x \in Requests \cup {0} : x \in Nat
          BY HeapAssumption
        <5>2. QED
          BY <4>2, <5>1
      <4>4. Allocated' = Allocated
        BY <2>4 DEF TrimKeeps, Allocated
      <4>5. QED
        BY <4>1, <4>3, <4>4
    <3>2. want'[h] = r /\ \A g \in Allocated \ {h} : want'[g] = want[g]
      BY <2>4 DEF TrimKeeps, Allocated, Inv, TypeOK
    <3>3. QED
      BY <3>1, <3>2, ShrinkMaps
  <2>5. ASSUME UNCHANGED <<heads, used, want>> PROVE UNCHANGED Held
    BY <2>5 DEF Held, Allocated
  <2>6. QED
    BY <2>1, <2>2, <2>3, <2>4, <2>5 DEF Next, MallocAgain, MallocFails, vars
<1>3. QED
  BY <1>1, <1>2, InvCorrect, PTL DEF Spec, AllocatorSpec, Abstract!Spec
=============================================================================
