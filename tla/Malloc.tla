------------------------------- MODULE Malloc -------------------------------
(***************************************************************************)
(* uw_cse351/lab5: the allocator mm.c, an explicit free list with boundary *)
(* tags, on the heap of memlib.c.                                          *)
(*                                                                         *)
(* The heap is memory of 8-byte words with byte addresses.  Everything the *)
(* allocator knows is in these words: the head of the free list in the     *)
(* first, headers, boundary tags and list pointers in the others, next to  *)
(* and overwritten by the payload.  An operation maps the words to words.  *)
(***************************************************************************)
EXTENDS Integers, Sequences, FiniteSets, TLC

CONSTANTS PageSize,   \* mem_pagesize()
          MAX_HEAP    \* size of the area mem_sbrk hands out

ASSUME HeapAssumption ==
    /\ PageSize \in Nat \ {0} /\ PageSize % 8 = 0
    /\ MAX_HEAP \in Nat /\ MAX_HEAP >= 48

WORD_SIZE == 8
ALIGNMENT == 8
MIN_BLOCK_SIZE == 32
TAG_USED == 1
TAG_PRECEDING_USED == 2
NULL == -1
HEAD == 0                        \* address of FREE_LIST_HEAD
Garbage == -5                    \* what is in memory nobody has written

Words(lo, hi) == {a \in lo .. hi - 1 : a % WORD_SIZE = 0}
-----------------------------------------------------------------------------
(* Words and tags. *)

SIZE(x) == x - (x % ALIGNMENT)
Used(x) == x % 2 = 1
PrecedingUsed(x) == (x \div 2) % 2 = 1
Tag(x) == IF PrecedingUsed(x) THEN TAG_PRECEDING_USED ELSE 0
SetUsed(x) == IF Used(x) THEN x ELSE x + TAG_USED
ClearUsed(x) == IF Used(x) THEN x - TAG_USED ELSE x
SetPrecedingUsed(x) == IF PrecedingUsed(x) THEN x ELSE x + TAG_PRECEDING_USED
ClearPrecedingUsed(x) == IF PrecedingUsed(x) THEN x - TAG_PRECEDING_USED ELSE x

\* A store.  One outside the heap adds an address to the memory.
Store(m, a, x) == (a :> x) @@ m

\* The fields of a BlockInfo.
Next_(b) == b + WORD_SIZE
Prev_(b) == b + 2 * WORD_SIZE

\* Header and boundary tag of a free block.
StoreTags(m, b, size, tag) ==
    Store(Store(m, b, size + tag), b + size - WORD_SIZE, size + tag)
-----------------------------------------------------------------------------
(* memlib.c *)

Brk(m) == Cardinality(DOMAIN m) * WORD_SIZE

mem_sbrk(m, incr) == [a \in Words(Brk(m), Brk(m) + incr) |-> Garbage] @@ m
SbrkFails(m, incr) == Brk(m) + incr > MAX_HEAP
-----------------------------------------------------------------------------
(* The free list. *)

RECURSIVE Search(_, _, _)
Search(m, b, reqSize) ==
    IF b = NULL \/ SIZE(m[b]) >= reqSize THEN b ELSE Search(m, m[Next_(b)], reqSize)

searchFreeList(m, reqSize) == Search(m, m[HEAD], reqSize)

\* prev of the first block is never set: it is whatever was in that word, or
\* what the previous first block had there.
insertFreeBlock(m, b) ==
    LET old == m[HEAD]
        linked == IF old = NULL THEN m
                  ELSE Store(Store(m, Prev_(b), m[Prev_(old)]), Prev_(old), b)
    IN  Store(Store(linked, Next_(b), old), HEAD, b)

removeFreeBlock_NoPrev(m, b) ==
    CASE b = m[HEAD] -> Store(m, HEAD, m[Next_(b)])
      [] b # m[HEAD] /\ m[Prev_(b)] # NULL -> Store(m, Next_(m[Prev_(b)]), m[Next_(b)])
      [] OTHER -> m

removeFreeBlock(m, b) ==
    LET nextFree == m[Next_(b)]
        prevFree == m[Prev_(b)]
        patched == IF nextFree = NULL THEN m ELSE Store(m, Prev_(nextFree), prevFree)
    IN  CASE b = m[HEAD] -> Store(patched, HEAD, nextFree)
          [] b # m[HEAD] /\ prevFree # NULL -> Store(patched, Next_(prevFree), nextFree)
          [] OTHER -> patched

\* The two loops of coalesceFreeBlock, over the free blocks in front of and
\* behind a block; size is the running sum.
RECURSIVE CoalescePreceding(_, _, _)
CoalescePreceding(m, cursor, size) ==
    IF PrecedingUsed(m[cursor]) THEN [mem |-> m, cursor |-> cursor, size |-> size]
    ELSE LET s == SIZE(m[cursor - WORD_SIZE])
         IN  CoalescePreceding(removeFreeBlock(m, cursor - s), cursor - s, size + s)

RECURSIVE CoalesceFollowing(_, _, _)
CoalesceFollowing(m, cursor, size) ==
    IF Used(m[cursor]) THEN [mem |-> m, cursor |-> cursor, size |-> size]
    ELSE LET s == SIZE(m[cursor])
         IN  CoalesceFollowing(removeFreeBlock(m, cursor), cursor + s, size + s)

coalesceFreeBlock_Once(m, b) ==
    LET oldSize == SIZE(m[b])
        next == b + oldSize
        back == IF PrecedingUsed(m[b]) THEN [mem |-> m, cursor |-> b, size |-> oldSize]
                ELSE LET s == SIZE(m[b - WORD_SIZE])
                     IN  [mem |-> removeFreeBlock(m, b - s), cursor |-> b - s,
                          size |-> oldSize + s]
        both == CoalesceFollowing(back.mem, next, back.size)
    IN  IF both.size = oldSize THEN m
        ELSE insertFreeBlock(
                StoreTags(removeFreeBlock(both.mem, b), back.cursor, both.size,
                          TAG_PRECEDING_USED),
                back.cursor)

coalesceFreeBlock(m, b) ==
    LET oldSize == SIZE(m[b])
        back == CoalescePreceding(m, b, oldSize)
        both == CoalesceFollowing(back.mem, b + oldSize, back.size)
    IN  IF both.size = oldSize THEN m
        ELSE insertFreeBlock(
                StoreTags(removeFreeBlock(both.mem, b), back.cursor, both.size,
                          TAG_PRECEDING_USED),
                back.cursor)

Pages(reqSize) == ((reqSize + PageSize - 1) \div PageSize) * PageSize

\* The new block begins at the old last word of the heap, which has told
\* whether the last block is used, and ends before the new one.
requestMoreSpace(m, reqSize) ==
    LET totalSize == Pages(reqSize)
        b == Brk(m) - WORD_SIZE
        grown == StoreTags(mem_sbrk(m, totalSize), b, totalSize, Tag(m[b]))
    IN  coalesceFreeBlock(
            insertFreeBlock(Store(grown, b + totalSize, TAG_USED), b), b)
-----------------------------------------------------------------------------
(* mm_init, mm_malloc, mm_free, mm_realloc *)

mm_init ==
    LET size == MIN_BLOCK_SIZE
        b == WORD_SIZE
        m == StoreTags([a \in Words(0, size + 2 * WORD_SIZE) |-> Garbage], b, size,
                       TAG_PRECEDING_USED)
    IN  (HEAD :> b) @@ (Next_(b) :> NULL) @@ (Prev_(b) :> NULL)
            @@ (b + size :> TAG_USED) @@ m

\* Header included, at least a BlockInfo and a boundary tag, rounded up.
ReqSize(size) ==
    IF size + WORD_SIZE <= MIN_BLOCK_SIZE THEN MIN_BLOCK_SIZE
    ELSE ALIGNMENT * ((size + WORD_SIZE + ALIGNMENT - 1) \div ALIGNMENT)

\* Mark the first reqSize bytes of a block of blockSize bytes, not in the free
\* list, as used, and put the rest in the free list.
Split(m, b, reqSize, blockSize) ==
    LET head == Store(m, b, reqSize + Tag(m[b]) + TAG_USED)
        rest == b + reqSize
    IN  insertFreeBlock(StoreTags(head, rest, blockSize - reqSize, TAG_PRECEDING_USED), rest)

\* Mark a whole block as used, for itself and for the block behind it.
TakeWhole(m, b, blockSize) ==
    LET following == b + blockSize
    IN  Store(Store(m, following, SetPrecedingUsed(m[following])), b, SetUsed(m[b]))

\* The block mm_malloc takes: NULL means that the heap must grow first.
mm_malloc(m, size) ==
    LET reqSize == ReqSize(size)
        found == searchFreeList(m, reqSize)
        h == IF found # NULL THEN m ELSE requestMoreSpace(m, reqSize)
        b == searchFreeList(h, reqSize)
        blockSize == SIZE(h[b])
        taken == removeFreeBlock(h, b)
    IN  [ptr |-> b + WORD_SIZE,
         mem |-> IF blockSize - reqSize >= MIN_BLOCK_SIZE
                 THEN Split(taken, b, reqSize, blockSize)
                 ELSE TakeWhole(taken, b, blockSize)]

\* mem_sbrk fails under mm_malloc, and requestMoreSpace calls exit.
MallocExits(m, size) ==
    /\ searchFreeList(m, ReqSize(size)) = NULL
    /\ SbrkFails(m, Pages(ReqSize(size)))

mm_free(m, ptr) ==
    LET b == ptr - WORD_SIZE
        following == b + SIZE(m[b])
        header == ClearUsed(m[b])
        freed == Store(Store(Store(m, following, ClearPrecedingUsed(m[following])),
                             b, header),
                       following - WORD_SIZE, header)
    IN  coalesceFreeBlock(insertFreeBlock(freed, b), b)

\* The block behind b is free and with it b is large enough.
CanCombine(m, b, reqSize) ==
    LET following == b + SIZE(m[b])
    IN  /\ SIZE(m[b]) < reqSize
        /\ ~Used(m[following])
        /\ SIZE(m[b]) + SIZE(m[following]) >= reqSize

Combine(m, b) ==
    LET following == b + SIZE(m[b])
        size == SIZE(m[b]) + SIZE(m[following])
        taken == removeFreeBlock(m, following)
    IN  Store(Store(Store(taken, b, size + Tag(m[b]) + TAG_USED), following, 0),
              b + size, SetPrecedingUsed(taken[b + size]))

memcpy_Nothing(m, to, from, size) == m
memcpy(m, to, from, size) ==
    [a \in Words(to, to + size) |-> m[from + a - to]] @@ m

Shrink_KeepTag(m, b, reqSize) ==
    LET size == SIZE(m[b])
    IN  IF size - reqSize >= MIN_BLOCK_SIZE THEN Split(m, b, reqSize, size) ELSE m

\* Give back what is not needed.  The rest is not coalesced.
Shrink(m, b, reqSize) ==
    LET size == SIZE(m[b])
        following == b + size
        split == Split(m, b, reqSize, size)
    IN  IF size - reqSize >= MIN_BLOCK_SIZE
        THEN Store(split, following, ClearPrecedingUsed(split[following]))
        ELSE m

mm_realloc_Leak(m, ptr, size) ==
    LET b == ptr - WORD_SIZE
        reqSize == ReqSize(size)
        h == IF CanCombine(m, b, reqSize) THEN Combine(m, b) ELSE m
        new == mm_malloc(h, size)
    IN  CASE reqSize = SIZE(m[b]) -> [ptr |-> ptr, mem |-> m]
          [] reqSize # SIZE(m[b]) /\ reqSize <= SIZE(h[b]) ->
                [ptr |-> ptr, mem |-> Shrink(h, b, reqSize)]
          [] OTHER ->
                [ptr |-> new.ptr,
                 mem |-> memcpy(new.mem, new.ptr, ptr, SIZE(m[b]) - WORD_SIZE)]

\* mm_realloc of an allocation, to a size that is not 0.
mm_realloc(m, ptr, size) ==
    LET b == ptr - WORD_SIZE
        reqSize == ReqSize(size)
        h == IF CanCombine(m, b, reqSize) THEN Combine(m, b) ELSE m
        new == mm_malloc(h, size)
    IN  CASE reqSize = SIZE(m[b]) -> [ptr |-> ptr, mem |-> m]
          [] reqSize # SIZE(m[b]) /\ reqSize <= SIZE(h[b]) ->
                [ptr |-> ptr, mem |-> Shrink(h, b, reqSize)]
          [] OTHER ->
                [ptr |-> new.ptr,
                 mem |-> mm_free(memcpy(new.mem, new.ptr, ptr, SIZE(m[b]) - WORD_SIZE), ptr)]

ReallocExits(m, ptr, size) ==
    LET b == ptr - WORD_SIZE
        reqSize == ReqSize(size)
    IN  reqSize > SIZE(m[b]) /\ ~CanCombine(m, b, reqSize) /\ MallocExits(m, size)
=============================================================================
