------------------------------ MODULE FreeList ------------------------------
(***************************************************************************)
(* The free list of PagedCache (cache.cpp:22-132): a linked list of        *)
(* FreeBlocks sorted by start page.  A call of allocate_pages_linked or    *)
(* deallocate_pages_linked is a run of steps here, one per iteration of    *)
(* its loops, so that the list can be inspected while it is being changed. *)
(* The caller holds cache_mutex, so calls do not overlap.                  *)
(*                                                                         *)
(* Linked lists are sequences and the pointer current is an index.  The    *)
(* pointer prev of the allocation loop is current - 1.                     *)
(***************************************************************************)
EXTENDS Pages, Sequences, SequencesExt

CONSTANT MaxRequest      \* the largest number of pages a caller asks for

ASSUME MaxRequestAssumption == MaxRequest \in Nat

VARIABLES
    page_bitmap,   \* the pages whose bit is set
    free_list,     \* the FreeBlocks from free_list_head on
    chains,        \* the lists of MemoryBlocks the callers hold
    pc,            \* which loop is running: "idle", "allocate", "free", "coalesce"
    current,       \* the position in free_list the loop looks at
    num_pages,     \* the argument of the running allocation
    taken,         \* allocated_blocks: the pages taken so far
    todo           \* the pages deallocate_pages_linked has still to give back

vars == <<page_bitmap, free_list, chains, pc, current, num_pages, taken, todo>>

Block(start, n) == [start_page |-> start, num_pages |-> n]
PagesOf(b) == b.start_page .. b.start_page + b.num_pages - 1
PagesInOrder(start, n) == [i \in 1 .. n |-> start + i - 1]

----------------------------------------------------------------------------
\* allocate_pages_linked is called.  A call for no page returns at once.
CallAllocate(n) ==
    /\ pc = "idle"
    /\ n > 0
    /\ pc' = "allocate"
    /\ current' = 1
    /\ num_pages' = n
    /\ UNCHANGED <<page_bitmap, free_list, chains, taken, todo>>

\* Mutant: the whole block is taken from the list even when only a part of
\* it is needed.
AfterTaking_all(list, i, n) == RemoveAt(list, i)

\* The list after n pages of its i-th block were taken: the block leaves the
\* list or shrinks from its front.
AfterTaking(list, i, n) ==
    IF n = list[i].num_pages
      THEN RemoveAt(list, i)
      ELSE [list EXCEPT ![i] = Block(@.start_page + n, @.num_pages - n)]

\* One iteration of the loop of allocate_pages_linked.
TakeFromBlock ==
    /\ pc = "allocate"
    /\ current <= Len(free_list)
    /\ Len(taken) < num_pages
    /\ LET b == free_list[current]
           n == Min({b.num_pages, num_pages - Len(taken)})
       IN  /\ taken' = taken \o PagesInOrder(b.start_page, n)
           /\ page_bitmap' = page_bitmap \cup PagesOf(Block(b.start_page, n))
           /\ free_list' = AfterTaking(free_list, current, n)
           /\ current' = IF n = b.num_pages THEN current ELSE current + 1
    /\ UNCHANGED <<chains, pc, num_pages, todo>>

\* The loop ends with all the pages: they go to the caller.
AllocateReturns ==
    /\ pc = "allocate"
    /\ Len(taken) = num_pages
    /\ chains' = chains \cup {taken}
    /\ taken' = << >>
    /\ pc' = "idle"
    /\ UNCHANGED <<page_bitmap, free_list, current, num_pages, todo>>

\* Mutant: the pages of a failed allocation are forgotten.
AllocateFails_leaks ==
    /\ pc = "allocate"
    /\ current > Len(free_list)
    /\ Len(taken) < num_pages
    /\ taken' = << >>
    /\ pc' = "idle"
    /\ UNCHANGED <<page_bitmap, free_list, chains, current, num_pages, todo>>

\* The loop ends with too few: if there are any they are given back, and the
\* result is null.
AllocateFails ==
    /\ pc = "allocate"
    /\ current > Len(free_list)
    /\ Len(taken) < num_pages
    /\ taken' = << >>
    /\ todo' = taken
    /\ pc' = IF taken = << >> THEN "idle" ELSE "free"
    /\ UNCHANGED <<page_bitmap, free_list, chains, current, num_pages>>

----------------------------------------------------------------------------
\* deallocate_pages_linked is called on a list handed out before.
CallDeallocate(blocks) ==
    /\ pc = "idle"
    /\ chains' = chains \ {blocks}
    /\ todo' = blocks
    /\ pc' = "free"
    /\ UNCHANGED <<page_bitmap, free_list, current, num_pages, taken>>

\* PagedCache::add_to_free_list: insert the block in front of the first one
\* when it starts before that, and else behind the first one and those after
\* it that start before the new block.
add_to_free_list(list, start, n) ==
    LET before == {i \in 1 .. Len(list) :
                      /\ list[1].start_page <= start
                      /\ \A j \in 2 .. i : list[j].start_page < start}
    IN  InsertAt(list, Cardinality(before) + 1, Block(start, n))

\* One iteration of the loop of deallocate_pages_linked.
GiveBackPage ==
    /\ pc = "free"
    /\ todo # << >>
    /\ page_bitmap' = page_bitmap \ {Head(todo)}
    /\ free_list' = add_to_free_list(free_list, Head(todo), 1)
    /\ todo' = Tail(todo)
    /\ UNCHANGED <<chains, pc, current, num_pages, taken>>

\* All pages are given back and coalesce_free_blocks is called.
StartCoalesce ==
    /\ pc = "free"
    /\ todo = << >>
    /\ pc' = "coalesce"
    /\ current' = 1
    /\ UNCHANGED <<page_bitmap, free_list, chains, num_pages, taken, todo>>

Adjacent(b, c) == b.start_page + b.num_pages = c.start_page

\* Mutant: the loop moves on after a merge, so of three adjacent blocks only
\* the first two are merged.
CoalesceStep_skips ==
    /\ pc = "coalesce"
    /\ current < Len(free_list)
    /\ LET b == free_list[current]
           c == free_list[current + 1]
       IN  free_list' = IF Adjacent(b, c)
                          THEN [RemoveAt(free_list, current + 1) EXCEPT
                                  ![current].num_pages = @ + c.num_pages]
                          ELSE free_list
    /\ current' = current + 1
    /\ UNCHANGED <<page_bitmap, chains, pc, num_pages, taken, todo>>

\* Mutant: the loop stays on a block it cannot merge.
CoalesceStep_stuck ==
    /\ pc = "coalesce"
    /\ current < Len(free_list)
    /\ LET b == free_list[current]
           c == free_list[current + 1]
       IN  /\ Adjacent(b, c)
           /\ free_list' = [RemoveAt(free_list, current + 1) EXCEPT
                              ![current].num_pages = @ + c.num_pages]
    /\ UNCHANGED <<page_bitmap, chains, pc, current, num_pages, taken, todo>>

\* One iteration of the loop of coalesce_free_blocks: merge the current block
\* with the next one and stay, or move on.
CoalesceStep ==
    /\ pc = "coalesce"
    /\ current < Len(free_list)
    /\ LET b == free_list[current]
           c == free_list[current + 1]
       IN  \/ /\ Adjacent(b, c)
              /\ free_list' = [RemoveAt(free_list, current + 1) EXCEPT
                                 ![current].num_pages = @ + c.num_pages]
              /\ UNCHANGED current
           \/ /\ ~ Adjacent(b, c)
              /\ current' = current + 1
              /\ UNCHANGED free_list
    /\ UNCHANGED <<page_bitmap, chains, pc, num_pages, taken, todo>>

\* coalesce_free_blocks, and deallocate_pages_linked with it, returns.
CoalesceReturns ==
    /\ pc = "coalesce"
    /\ current >= Len(free_list)
    /\ pc' = "idle"
    /\ UNCHANGED <<page_bitmap, free_list, chains, current, num_pages, taken, todo>>

----------------------------------------------------------------------------
\* Mutant: the largest block is the last one that was looked at.
get_fragmentation_stats_last ==
    [free_blocks_count  |-> Len(free_list),
     largest_free_block |-> IF free_list = << >> THEN 0 ELSE Last(free_list).num_pages,
     total_free_pages   |-> FoldSeq(LAMBDA b, n : b.num_pages + n, 0, free_list)]

\* PagedCache::get_fragmentation_stats: the number of blocks, the largest,
\* and the two terms of the ratio (1 - largest / total) * 100.
get_fragmentation_stats ==
    LET sizes == {free_list[i].num_pages : i \in 1 .. Len(free_list)}
    IN  [free_blocks_count  |-> Len(free_list),
         largest_free_block |-> Max({0} \cup sizes),
         total_free_pages   |-> FoldSeq(LAMBDA b, n : b.num_pages + n, 0, free_list)]

----------------------------------------------------------------------------
Init ==
    /\ page_bitmap = {}
    /\ free_list = <<Block(0, TOTAL_PAGES)>>
    /\ chains = {}
    /\ pc = "idle"
    /\ current = 1
    /\ num_pages = 0
    /\ taken = << >>
    /\ todo = << >>

\* The steps of a call that is under way.
Step ==
    \/ TakeFromBlock \/ AllocateReturns \/ AllocateFails
    \/ GiveBackPage \/ StartCoalesce \/ CoalesceStep \/ CoalesceReturns

Next ==
    \/ \E n \in 1 .. MaxRequest : CallAllocate(n)
    \/ \E blocks \in chains : CallDeallocate(blocks)
    \/ Step

\* A thread that has called one of the two functions runs: nothing in their
\* loops blocks.
Spec == Init /\ [][Next]_vars /\ WF_vars(Step)

----------------------------------------------------------------------------
\* The pages the free list covers.
ListPages == UNION {PagesOf(free_list[i]) : i \in DOMAIN free_list}

\* The blocks are sorted, never empty and do not overlap, at every iteration of
\* every loop: add_to_free_list and coalesce_free_blocks rely on it
\* (cache.cpp:103, 124).  Between calls no two neighbours could be merged: one
\* pass of coalesce_free_blocks from the front is enough, and taking pages keeps
\* it so (cache.cpp:96, 122-131).
FreeListCanonical ==
    /\ \A i \in DOMAIN free_list : free_list[i].num_pages > 0
    /\ \A i, j \in DOMAIN free_list : i < j =>
         /\ free_list[i].start_page + free_list[i].num_pages <= free_list[j].start_page
         /\ pc = "idle" => ~ Adjacent(free_list[i], free_list[j])

\* The free list and the bitmap agree at every iteration (cache.cpp:49, 55-69,
\* 88-91).
FreeListMatchesBitmap == ListPages = Page \ page_bitmap

\* get_fragmentation_stats, which only looks at the blocks, reports what is
\* true of the bitmap: its maximal runs of clear bits, the longest of them,
\* and the number of free pages (cache.cpp:412-431).
FreeRuns ==
    LET free == Page \ page_bitmap
    IN  {r \in {p .. q : p, q \in Page} :
            /\ r # {}
            /\ r \subseteq free
            /\ \A p \in free \ r : p + 1 \notin r /\ p - 1 \notin r}

StatsDescribeBitmap ==
    pc = "idle" =>
        LET stats == get_fragmentation_stats
        IN  /\ stats.free_blocks_count = Cardinality(FreeRuns)
            /\ stats.largest_free_block = Max({0} \cup {Cardinality(r) : r \in FreeRuns})
            /\ stats.total_free_pages = Cardinality(Page \ page_bitmap)

\* Every call returns: the loops of allocation, deallocation and coalescing
\* end whatever the list looks like (cache.cpp:33, 86, 122).
CallsReturn == (pc # "idle") ~> (pc = "idle")

----------------------------------------------------------------------------
\* A page taken by an unfinished allocation, or still to be given back, is
\* free for the abstract allocator: an allocation takes effect when it
\* returns and a deallocation when it is called.
InHand == Range(taken) \cup Range(todo)

PA == INSTANCE PageAllocator WITH
        mem    <- [page_bitmap |-> page_bitmap \ InHand,
                   free_list   |-> ListPages \cup InHand],
        chains <- {Range(chain) : chain \in chains}

\* The loops on blocks implement the operators of module Pages: a call that
\* succeeds hands out exactly the lowest free pages, and one that fails
\* leaves the memory as it found it.
ImplementsPageAllocator == PA!Spec
=============================================================================
