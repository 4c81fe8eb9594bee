---------------------------- MODULE MallocDriver ----------------------------
(***************************************************************************)
(* eval_mm_valid of uw_cse351/lab5/mdriver-realloc.c: a trace of alloc,    *)
(* realloc and free requests runs against the allocator.  The driver keeps *)
(* a list of the payload ranges, fills every payload with the number of    *)
(* its allocation, and looks for it after a realloc.                       *)
(*                                                                         *)
(* The words of the heap change in one action per request, with everything *)
(* the driver does for it.                                                 *)
(***************************************************************************)
EXTENDS Malloc

CONSTANTS Index,      \* names of the allocations of a trace
          Sizes       \* sizes in bytes that a trace asks for

ASSUME SizesAssumption == Sizes \subseteq Nat \ {0}

VARIABLES
    mem,           \* the words below mem_brk
    blocks,        \* trace->blocks
    block_sizes,   \* trace->block_sizes, 0 when the allocation is free
    ranges,        \* the range list
    status         \* "running", "exited", or "invalid": eval_mm_valid returned 0

vars == <<mem, blocks, block_sizes, ranges, status>>

Fill(i) == i     \* a word of the bytes index & 0xFF
Live(i) == block_sizes[i] # 0

\* The addresses of the blocks, from the first one to the last word of the
\* heap, found by the sizes in the headers as examine_heap does it.
RECURSIVE BlocksFrom(_, _)
BlocksFrom(m, b) ==
    IF b >= Brk(m) - WORD_SIZE \/ SIZE(m[b]) < MIN_BLOCK_SIZE THEN {b}
    ELSE {b} \cup BlocksFrom(m, b + SIZE(m[b]))

Blocks(m) == BlocksFrom(m, WORD_SIZE)

\* The words that are in use: the first word of the heap, the headers, the
\* pointers and the boundary tags of the free blocks, and the payloads up to
\* the sizes the trace asked for.
InUse(m, ptrs, sizes) ==
    {HEAD} \cup Blocks(m)
    \cup UNION {{Next_(b), Prev_(b), b + SIZE(m[b]) - WORD_SIZE} :
                    b \in {c \in Blocks(m) : ~Used(m[c])}}
    \cup UNION {Words(ptrs[i], ptrs[i] + sizes[i]) : i \in Index}

\* What is left over in the other words is not told apart from memory that was
\* never written.
Forget(m, ptrs, sizes) ==
    LET used == InUse(m, ptrs, sizes)
    IN  [a \in DOMAIN m |-> IF a \in used THEN m[a] ELSE Garbage]

Init ==
    /\ mem = mm_init
    /\ blocks = [i \in Index |-> NULL]
    /\ block_sizes = [i \in Index |-> 0]
    /\ ranges = {}
    /\ status = "running"

\* The tests of add_range on a payload against the heap and a range list.
RangeOK(rs, m, lo, size) ==
    LET hi == lo + size - 1
    IN  /\ lo % ALIGNMENT = 0
        /\ lo >= HEAD /\ hi < Brk(m)
        /\ \A r \in rs : lo \notin r.lo .. r.hi /\ hi \notin r.lo .. r.hi

add_range(rs, lo, size) == rs \cup {[lo |-> lo, hi |-> lo + size - 1]}
remove_range(rs, lo) == {r \in rs : r.lo # lo}

memset(m, ptr, size, i) == [a \in Words(ptr, ptr + size) |-> Fill(i)] @@ m

\* What the driver does with a payload it got: check the range, and whether the
\* old contents were kept, then fill it and remember it, or give up.
Remember(rs, m, ptr, size, i, kept) ==
    LET fits == RangeOK(rs, m, ptr, size)
        valid == fits /\ kept
    IN  /\ ranges' = IF fits THEN add_range(rs, ptr, size) ELSE rs
        /\ blocks' = IF valid THEN [blocks EXCEPT ![i] = ptr] ELSE blocks
        /\ block_sizes' = IF valid THEN [block_sizes EXCEPT ![i] = size] ELSE block_sizes
        /\ mem' = IF valid THEN Forget(memset(m, ptr, size, i), blocks', block_sizes') ELSE m
        /\ status' = IF valid THEN "running" ELSE "invalid"

Exit ==
    /\ status' = "exited"
    /\ UNCHANGED <<mem, blocks, block_sizes, ranges>>

Alloc(i, size) ==
    /\ status = "running"
    /\ ~Live(i)
    /\ IF MallocExits(mem, size) THEN Exit
       ELSE LET r == mm_malloc(mem, size)
            IN  Remember(ranges, r.mem, r.ptr, size, i, TRUE)

\* The words of the old payload that the new one must hold.
Preserved(m, ptr, i, size) ==
    LET n == IF size < block_sizes[i] THEN size ELSE block_sizes[i]
    IN  \A a \in Words(ptr, ptr + n) : m[a] = Fill(i)

Realloc(i, size) ==
    /\ status = "running"
    /\ Live(i)
    /\ IF ReallocExits(mem, blocks[i], size) THEN Exit
       ELSE LET r == mm_realloc(mem, blocks[i], size)
            IN  Remember(remove_range(ranges, blocks[i]), r.mem, r.ptr, size, i,
                         Preserved(r.mem, r.ptr, i, size))

Free(i) ==
    /\ status = "running"
    /\ Live(i)
    /\ ranges' = remove_range(ranges, blocks[i])
    /\ blocks' = [blocks EXCEPT ![i] = NULL]
    /\ block_sizes' = [block_sizes EXCEPT ![i] = 0]
    /\ mem' = Forget(mm_free(mem, blocks[i]), blocks', block_sizes')
    /\ UNCHANGED status

Next ==
    \E i \in Index :
        \/ \E size \in Sizes : Alloc(i, size) \/ Realloc(i, size)
        \/ Free(i)

Spec == Init /\ [][Next]_vars
-----------------------------------------------------------------------------
(* Properties. *)

AllBlocks == Blocks(mem)
FreeBlocks == {b \in AllBlocks : ~Used(mem[b])}

\* The free list from b, at most n blocks of it.
RECURSIVE ListFrom(_, _)
ListFrom(b, n) == IF b = NULL \/ n = 0 THEN <<>> ELSE <<b>> \o ListFrom(mem[Next_(b)], n - 1)

FreeList == ListFrom(mem[HEAD], Cardinality(AllBlocks))

\* The blocks tile the heap up to its last word; every header tells whether the
\* block in front of it is used; a free block has its size in its boundary tag
\* as well.  No store falls outside the heap, which grows to MAX_HEAP at most.
HeapIsTiled ==
    LET last == Brk(mem) - WORD_SIZE
        all == AllBlocks
    IN  /\ DOMAIN mem = Words(0, Brk(mem)) /\ Brk(mem) <= MAX_HEAP
        /\ last \in all /\ SIZE(mem[last]) = 0 /\ Used(mem[last])
        /\ PrecedingUsed(mem[WORD_SIZE])
        /\ \A b \in all \ {last} :
            LET following == b + SIZE(mem[b])
            IN  /\ PrecedingUsed(mem[following]) = Used(mem[b])
                /\ ~Used(mem[b]) => SIZE(mem[following - WORD_SIZE]) = SIZE(mem[b])

\* The free list holds the free blocks, each once, and every one but the first
\* points back to the one before it.  The prev pointer of the first is never
\* set to NULL by insertFreeBlock and may be anything.
FreeListIsExact ==
    LET list == FreeList
    IN  /\ Len(list) = Cardinality(FreeBlocks)
        /\ {list[k] : k \in DOMAIN list} = FreeBlocks
        /\ list # <<>> => mem[Next_(list[Len(list)])] = NULL
        /\ \A k \in 2 .. Len(list) : mem[Prev_(list[k])] = list[k - 1]

\* A used block is one live allocation and holds its size: no block leaks.
UsedIsLive ==
    /\ {b \in AllBlocks : Used(mem[b])} \ {Brk(mem) - WORD_SIZE}
            = {blocks[i] - WORD_SIZE : i \in {j \in Index : Live(j)}}
    /\ \A i \in Index : Live(i) => SIZE(mem[blocks[i] - WORD_SIZE]) >= ReqSize(block_sizes[i])

\* When everything is freed the heap is one free block again, although realloc
\* leaves free blocks side by side when it gives back the rest of a block.
NothingFragmented ==
    (\A i \in Index : ~Live(i)) =>
        FreeBlocks = {WORD_SIZE} /\ SIZE(mem[WORD_SIZE]) = Brk(mem) - 2 * WORD_SIZE

\* eval_mm_valid never rejects the allocator.
DriverAccepts == status # "invalid"

\* The allocator gives every allocation an array of its own: read through the
\* payload pointers, the words of the heap behave like separate arrays.
Allocations == INSTANCE Allocator WITH
    array <- [i \in Index |->
                [k \in 1 .. (block_sizes[i] + WORD_SIZE - 1) \div WORD_SIZE |->
                    mem[blocks[i] + (k - 1) * WORD_SIZE]]]

ImplementsAllocator == Allocations!Spec
=============================================================================
