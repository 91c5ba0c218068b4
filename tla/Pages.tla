------------------------------- MODULE Pages -------------------------------
(***************************************************************************)
(* The page memory of PagedCache (cache.h, cache.cpp) and what its two     *)
(* entry points, allocate_pages_linked and deallocate_pages_linked, do to  *)
(* it.  The operators work on any record with the fields                   *)
(*                                                                         *)
(*   page_bitmap   the pages whose bit is set (vector<bool> page_bitmap)   *)
(*   free_list     the pages covered by the blocks of the free list        *)
(*                                                                         *)
(* The code keeps the two separately: the free list decides what can be    *)
(* handed out, the bitmap is what get_free_pages counts.  How the pages of *)
(* the free list are grouped into FreeBlocks, and the loops that walk      *)
(* them, are the subject of module FreeList, which implements the          *)
(* operators below (see PageAllocator).                                    *)
(*                                                                         *)
(* A linked list of MemoryBlocks is the set of its page indices, and the   *)
(* null pointer is the empty set: the list is never empty otherwise, its   *)
(* order is never used, and no page holds data (CacheEntry::value does).   *)
(***************************************************************************)
EXTENDS Integers, FiniteSets

CONSTANT TOTAL_PAGES     \* the number of pages, 52428 in cache.h

ASSUME TotalPagesAssumption == TOTAL_PAGES \in Nat \ {0}

Page == 0 .. TOTAL_PAGES - 1

NullBlocks == {}

\* The n smallest elements of S, all of S if it has fewer.
LowestPages(S, n) == {p \in S : Cardinality({q \in S : q < p}) < n}

\* PagedCache::get_free_pages: the number of clear bits in the bitmap.
get_free_pages(s) == Cardinality(Page \ s.page_bitmap)

----------------------------------------------------------------------------
\* Mutant: the pages return to the free list but their bits stay set.
deallocate_pages_linked_keeps_bits(s, blocks) ==
    [s EXCEPT !.free_list = @ \cup blocks]

\* PagedCache::deallocate_pages_linked: clear the bit of every page of the
\* list and give each page back to the free list.
deallocate_pages_linked(s, blocks) ==
    [s EXCEPT !.page_bitmap = @ \ blocks,
              !.free_list   = @ \cup blocks]

\* The loop of allocate_pages_linked that takes pages from the front of the
\* sorted free list: the lowest n pages, or every page if there are fewer.
TakePages(s, taken) ==
    [s EXCEPT !.page_bitmap = @ \cup taken,
              !.free_list   = @ \ taken]

\* Mutant: the last free page can never be handed out (< for <=).
allocate_pages_linked_strict(s, n) ==
    LET taken == LowestPages(s.free_list, n)
    IN  IF n < Cardinality(s.free_list)
          THEN [mem |-> TakePages(s, taken), blocks |-> taken]
          ELSE [mem |-> s, blocks |-> NullBlocks]

\* PagedCache::allocate_pages_linked: the new memory and the list handed out.
\* When the free list runs out, the pages taken so far are given back and the
\* result is null.  A request for no page takes none, so its result is null
\* as well: the caller cannot tell it from a failure.
allocate_pages_linked(s, n) ==
    LET taken == LowestPages(s.free_list, n)
        after == TakePages(s, taken)
    IN  IF n <= Cardinality(s.free_list)
          THEN [mem |-> after, blocks |-> taken]
          ELSE [mem |-> deallocate_pages_linked(after, taken), blocks |-> NullBlocks]
=============================================================================
