\* A pool of 28 words and the real header (4 words), smallest block (3) and
\* guard word: up to four blocks of the smallest size, with splits, near fits,
\* merges on either side and shrinks into a free or a used neighbour.
CONSTANTS
  Clients = {t1, t2}
  Requests = {1, 3, 6}
  MemSize = 28
  Hdr = 4
  MinSize = 3
  Guard = 1
SPECIFICATION Spec
INVARIANTS ListSound
PROPERTIES FailsOnlyWhenFull AllocatorSpec
