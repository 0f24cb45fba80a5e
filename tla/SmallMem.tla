------------------------------ MODULE SmallMem ------------------------------
(***************************************************************************)
(* The small memory heap of mem.c: one stretch of bytes cut into blocks, each*)
(* led by an item with the offsets of the next and the previous one.  Every  *)
(* call is made under the heap lock of kservice.c and is one action.  An     *)
(* offset into the heap stands for a pointer to the item there, and a block's*)
(* user for the one who holds its offset.                                    *)
(***************************************************************************)
EXTENDS Integers, FiniteSets, FiniteSetsExt, Functions

CONSTANTS
    ALIGN,      \* RT_ALIGN_SIZE
    HEADER,     \* SIZEOF_STRUCT_MEM
    MIN_SIZE,
    MEM_SIZE,   \* mem_size_aligned
    WORD,       \* the numbers of rt_size_t are those below it
    Size,       \* the sizes that are asked for
    NULL

ASSUME SmallMemAssumption ==
    /\ ALIGN \in Nat \ {0} /\ HEADER \in Nat \ {0} /\ MIN_SIZE \in Nat \ {0}
    /\ MEM_SIZE \in Nat \ {0}
    /\ HEADER % ALIGN = 0 /\ MEM_SIZE % ALIGN = 0
    /\ WORD \in Nat /\ MEM_SIZE + HEADER + MIN_SIZE + ALIGN <= WORD
    /\ Size \subseteq 0 .. WORD - 1
    /\ NULL \notin Nat

VARIABLES
    item,    \* the items in the heap: [next, prev, used] by offset
    lfree,   \* the first free block, or the end
    used,    \* parent.used: the bytes of the used blocks
    asked,   \* the size that the last call asked for
    answer   \* the pointer that it returned

smemVars == <<item, lfree, used, asked, answer>>

\* The sum is one of rt_size_t: a size just below WORD is rounded to 0.
RT_ALIGN(n) == (((n + ALIGN - 1) % WORD) \div ALIGN) * ALIGN
MIN_SIZE_ALIGNED == RT_ALIGN(MIN_SIZE)
END == MEM_SIZE + HEADER          \* the offset of heap_end

heap == [item |-> item, lfree |-> lfree, used |-> used]

\* The bytes that the block at p has for its user.
MemSize(h, p) == h.item[p].next - p - HEADER

-----------------------------------------------------------------------------

\* Block b becomes part of block a, the one before it.
Merged(it, a, b) ==
    [Restrict(it, DOMAIN it \ {b}) EXCEPT ![a].next = it[b].next, ![it[b].next].prev = a]

PlugNext(h, mem) ==
    LET nmem == h.item[mem].next
    IN  IF mem # nmem /\ ~h.item[nmem].used /\ nmem # END
        THEN [h EXCEPT !.item = Merged(@, mem, nmem), !.lfree = IF @ = nmem THEN mem ELSE @]
        ELSE h

PlugPrev(h, mem) ==
    LET pmem == h.item[mem].prev
    IN  IF pmem # mem /\ ~h.item[pmem].used
        THEN [h EXCEPT !.item = Merged(@, pmem, mem), !.lfree = IF @ = mem THEN pmem ELSE @]
        ELSE h

\* Mutant: the free block before this one stays a block of its own.
plug_holes_NextOnly(h, mem) == PlugNext(h, mem)

plug_holes(h, mem) == PlugPrev(PlugNext(h, mem), mem)

\* Mutant: the block behind keeps the block it was cut from as its neighbour.
Split_StalePrev(h, ptr, size) ==
    LET ptr2 == ptr + HEADER + size
        next == h.item[ptr].next
    IN  [h EXCEPT !.item =
           [p \in DOMAIN h.item \cup {ptr2} |->
              IF p = ptr2 THEN [next |-> next, prev |-> ptr, used |-> FALSE]
              ELSE IF p = ptr THEN [h.item[p] EXCEPT !.next = ptr2]
              ELSE h.item[p]]]

\* The block at ptr is cut behind its first size bytes; the rest is a free block.
Split(h, ptr, size) ==
    LET ptr2 == ptr + HEADER + size
        next == h.item[ptr].next
    IN  [h EXCEPT !.item =
           [p \in DOMAIN h.item \cup {ptr2} |->
              CASE p = ptr2 -> [next |-> next, prev |-> ptr, used |-> FALSE]
                [] p = ptr -> [h.item[p] EXCEPT !.next = ptr2]
                [] p = next /\ p # END -> [h.item[p] EXCEPT !.prev = ptr2]
                [] OTHER -> h.item[p]]]

\* The search of rt_smem_alloc: the first block from lfree on that is free and holds size
FirstFit(h, size) ==
    LET From[p \in DOMAIN h.item] ==
          IF p > MEM_SIZE - size THEN NULL
          ELSE IF ~h.item[p].used /\ MemSize(h, p) >= size THEN p
          ELSE From[h.item[p].next]
    IN  From[h.lfree]

\* lfree, if its block has just been taken, goes on to the next free block.
NextFree(h) ==
    LET From[p \in DOMAIN h.item] ==
          IF h.item[p].used /\ p # END THEN From[h.item[p].next] ELSE p
    IN  [h EXCEPT !.lfree = From[@]]

\* The block at p is taken for size bytes, whole when the rest would be too small.
Taken(h, p, size) ==
    LET whole == MemSize(h, p) < size + HEADER + MIN_SIZE_ALIGNED
        cut == IF whole THEN h ELSE Split(h, p, size)
        marked == [cut EXCEPT !.item[p].used = TRUE,
                              !.used = @ + (cut.item[p].next - p)]
    IN  IF p = h.lfree THEN NextFree(marked) ELSE marked

\* rt_smem_alloc: the heap and the pointer that it returns
rt_smem_alloc(h, n) ==
    LET size == Max({RT_ALIGN(n), MIN_SIZE_ALIGNED})
        p == IF n = 0 \/ size > MEM_SIZE THEN NULL ELSE FirstFit(h, size)
    IN  [heap |-> IF p = NULL THEN h ELSE Taken(h, p, size), ptr |-> p]

rt_smem_free(h, mem) ==
    plug_holes([h EXCEPT !.item[mem].used = FALSE,
                         !.lfree = IF mem < @ THEN mem ELSE @,
                         !.used = @ - (h.item[mem].next - mem)], mem)

\* rt_smem_realloc cuts a block in place
Shrunk(h, ptr, newsize) ==
    LET ptr2 == ptr + HEADER + newsize
        cut == Split(h, ptr, newsize)
    IN  plug_holes([cut EXCEPT !.used = @ - (MemSize(h, ptr) - newsize),
                               !.lfree = IF ptr2 < @ THEN ptr2 ELSE @], ptr2)

-----------------------------------------------------------------------------

\* rt_smem_init: one free block and the end
SmemInit ==
    /\ item = [p \in {0, END} |-> [next |-> END, prev |-> p, used |-> p = END]]
    /\ lfree = 0
    /\ used = 0
    /\ asked = 0
    /\ answer = NULL

Becomes(h) == item' = h.item /\ lfree' = h.lfree /\ used' = h.used

\* the blocks that somebody holds
Held == {p \in DOMAIN item \ {END} : item[p].used}

\* rt_malloc, and rt_realloc without a block to a size it does not refuse
Malloc(n) ==
    LET r == rt_smem_alloc(heap, n)
    IN  /\ Becomes(r.heap)
        /\ asked' = n
        /\ answer' = r.ptr

\* rt_free, which asks for nothing, and rt_realloc of a block to a size that rounds to 0
Free(p, n) ==
    /\ p \in Held
    /\ RT_ALIGN(n) = 0
    /\ Becomes(rt_smem_free(heap, p))
    /\ asked' = n
    /\ answer' = NULL

\* rt_realloc to a size beyond the heap, or, without a block, to one that rounds to 0
ReallocRefused(n) ==
    /\ RT_ALIGN(n) \notin 1 .. MEM_SIZE
    /\ UNCHANGED <<item, lfree, used>>
    /\ asked' = n
    /\ answer' = NULL

\* rt_realloc when the block stays: it has the size, or is cut to it
ReallocInPlace(p, n) ==
    LET newsize == RT_ALIGN(n)
    IN  /\ p \in Held
        /\ newsize \in 1 .. MEM_SIZE
        /\ \/ MemSize(heap, p) = newsize /\ UNCHANGED <<item, lfree, used>>
           \/ newsize + HEADER + MIN_SIZE < MemSize(heap, p) /\ Becomes(Shrunk(heap, p, newsize))
        /\ asked' = n
        /\ answer' = p

\* rt_realloc otherwise, also for a little less: a new block, and the old one is freed
ReallocMoves(p, n) ==
    LET newsize == RT_ALIGN(n)
        r == rt_smem_alloc(heap, newsize)
    IN  /\ p \in Held
        /\ newsize \in 1 .. MEM_SIZE
        /\ MemSize(heap, p) # newsize
        /\ newsize + HEADER + MIN_SIZE >= MemSize(heap, p)
        /\ Becomes(IF r.ptr = NULL THEN heap ELSE rt_smem_free(r.heap, p))
        /\ asked' = n
        /\ answer' = r.ptr

SmemNext ==
    \/ \E n \in Size : Malloc(n) \/ ReallocRefused(n)
    \/ \E p \in Held :
         \/ \E n \in Size \cup {0} : Free(p, n)
         \/ \E n \in Size : ReallocInPlace(p, n) \/ ReallocMoves(p, n)

SmemSpec == SmemInit /\ [][SmemNext]_smemVars

-----------------------------------------------------------------------------
(* Properties.                                                              *)

SmemTypeOK ==
    /\ DOMAIN item \subseteq 0 .. END
    /\ item \in [DOMAIN item -> [next : 0 .. END, prev : 0 .. END, used : BOOLEAN]]
    /\ lfree \in DOMAIN item
    /\ used \in 0 .. END
    /\ asked \in Size \cup {0}
    /\ answer \in DOMAIN item \cup {NULL}

\* The blocks follow each other without gap or overlap and are linked both ways, no
\* two free ones are neighbours, lfree is the first of them, and parent.used is the sum
\* of the used ones: what plug_holes and every walk over the heap rely on.
HeapSound ==
    LET Blocks == DOMAIN item \ {END}
        FreeBlocks == {p \in Blocks : ~item[p].used}
    IN  /\ {0, END} \subseteq DOMAIN item /\ item[0].prev = 0
        /\ \A p \in Blocks :
             LET n == item[p].next
             IN  /\ n = Min({q \in DOMAIN item : q > p})
                 /\ n # END => item[n].prev = p
                 /\ p \in FreeBlocks => n \notin FreeBlocks
        /\ lfree = Min(FreeBlocks \cup {END})
        /\ used = MapThenSumSet(LAMBDA p : item[p].next - p, Blocks \ FreeBlocks)

\* Rounding this size up leaves the range of rt_size_t (mem.c:305, :436).
AlignWraps(n) == n + ALIGN - 1 >= WORD

\* The heap keeps the promise of module Allocator: what rt_malloc and rt_realloc hand
\* out overlaps nothing in use and is large enough, and they return RT_NULL only when
\* no stretch of free bytes would do.  A size that wraps is out of the promise: the
\* code treats it as one of 0, so that rt_malloc hands out the smallest block and
\* rt_realloc frees the block.
Abstract == INSTANCE Allocator WITH
    SPACE <- END,
    Size <- Size \cup {0},
    region <- [p \in Held |-> item[p].next - p]
ImplementsAllocator ==
    Abstract!Init /\ [][~AlignWraps(asked') => Abstract!Next]_(Abstract!vars)

=============================================================================
