--------------------------- MODULE PageAllocator ---------------------------
(***************************************************************************)
(* The page allocator as module PagedCache uses it: each call of           *)
(* allocate_pages_linked or deallocate_pages_linked is one step that       *)
(* applies the operator of module Pages.  Module FreeList, where the       *)
(* calls run their loops block by block, implements this specification.    *)
(***************************************************************************)
EXTENDS Pages

CONSTANT MaxRequest      \* the largest number of pages a caller asks for

VARIABLES
    mem,      \* [page_bitmap, free_list], two sets of pages
    chains    \* the lists of pages handed out and not given back

allocVars == <<mem, chains>>

Allocate(n) ==
    LET got == allocate_pages_linked(mem, n)
    IN  /\ mem' = got.mem
        /\ chains' = chains \cup ({got.blocks} \ {NullBlocks})

Deallocate(blocks) ==
    /\ mem' = deallocate_pages_linked(mem, blocks)
    /\ chains' = chains \ {blocks}

Init ==
    /\ mem = [page_bitmap |-> {}, free_list |-> Page]
    /\ chains = {}

Next ==
    \/ \E n \in 0 .. MaxRequest : Allocate(n)
    \/ \E blocks \in chains : Deallocate(blocks)

Spec == Init /\ [][Next]_allocVars
=============================================================================
