------------------------------- MODULE BuddyMM -------------------------------
(***************************************************************************)
(* drivers/usb/ipchost/ipc_4ghif_mm.c: the allocator of the UL shared      *)
(* memory.  Six bit fields say what each page is used for and one word per *)
(* page which of its sectors are used.  allocate_* and free_* run with the *)
(* buddy lock held.  buddy_free is called while ACKs are processed (by the *)
(* mailbox ISR, the dl_complete and the bp_ready tasklet), with interrupts *)
(* off, and submit_ul is the only caller of buddy_alloc, which touches the *)
(* bit fields under the lock only: each call is one step.                  *)
(* The counters of the statistics string are not modelled.                 *)
(***************************************************************************)
EXTENDS Integers

CONSTANTS
  MM_NB_PAGE,             \* 48 in the code
  MM_NB_SECTOR_BY_PAGE,   \* 16
  SECTORS_2K,             \* 4
  MM_SECTOR_SIZE          \* 512

ASSUME BuddyAssumption ==
  /\ MM_NB_PAGE \in Nat \ {0}
  /\ MM_NB_SECTOR_BY_PAGE \in Nat \ {0}
  /\ SECTORS_2K \in 2 .. (MM_NB_SECTOR_BY_PAGE - 1)
  /\ MM_NB_SECTOR_BY_PAGE % SECTORS_2K = 0
  /\ MM_SECTOR_SIZE \in Nat \ {0}

VARIABLES
  pool,           \* mm_bf_pool_pages: pages with no block
  pages_partial,  \* mm_bf_<class>_pages_partial: pages with room left
  pages_full,     \* mm_bf_<class>_pages_full
  sectors_used,   \* mm_bf_sectors_used
  held,           \* blocks given to submit_ul whose ACK has not come back
  ret             \* the last call and what it answered

vars == <<pool, pages_partial, pages_full, sectors_used, held, ret>>

Pages == 0 .. (MM_NB_PAGE - 1)
Sectors == 0 .. (MM_NB_SECTOR_BY_PAGE - 1)

Class == {"8k", "2k", "512"}

SectorsIn(c) == CASE c = "8k" -> MM_NB_SECTOR_BY_PAGE
                  [] c = "2k" -> SECTORS_2K
                  [] c = "512" -> 1

(* Addresses count sectors from MM_MEM_BASE_ADR.                           *)
Adr(page, sector) == page * MM_NB_SECTOR_BY_PAGE + sector
PageOf(adr) == adr \div MM_NB_SECTOR_BY_PAGE
SectorOf(adr) == adr % MM_NB_SECTOR_BY_PAGE

(* Mutant: the mask is one sector too long.                                *)
MaskOneMore(sector, c) == sector .. (sector + SectorsIn(c))

Mask(sector, c) == sector .. (sector + SectorsIn(c) - 1)

(* find_page_in_mm_bf_pages, first_zero_bit_index_in_u16: the lowest       *)
(* index of a bit field; an empty one has none.                            *)
IsFirst(i, bits) == i \in bits /\ \A j \in bits : i <= j

IPC_4GHIF_data_ul_mm_buddy_init ==
  /\ pool = Pages
  /\ pages_partial = [c \in Class |-> {}]
  /\ pages_full = [c \in Class |-> {}]
  /\ sectors_used = [p \in Pages |-> {}]
  /\ held = {}
  /\ ret = [call |-> "init", size |-> 0, adr |-> -1]

----------------------------------------------------------------------------
Gives(size, c, page, sector) ==
  /\ held' = held \cup {[adr |-> Adr(page, sector), cls |-> c]}
  /\ ret' = [call |-> "alloc", size |-> size, adr |-> Adr(page, sector)]

NoSpace(size) ==
  /\ ret' = [call |-> "alloc", size |-> size, adr |-> -1]
  /\ UNCHANGED <<pool, pages_partial, pages_full, sectors_used, held>>

allocate_8k(size) ==
  \/ /\ pool = {}
     /\ NoSpace(size)
  \/ \E page \in pool :
       /\ IsFirst(page, pool)
       /\ pool' = pool \ {page}
       /\ pages_full' = [pages_full EXCEPT !["8k"] = @ \cup {page}]
       /\ sectors_used' = [sectors_used EXCEPT ![page] = Sectors]
       /\ Gives(size, "8k", page, 0)
       /\ UNCHANGED pages_partial

(* A page of the pool becomes a page of class c, with its first block.     *)
AllocInNewPage(size, c) ==
  /\ pages_partial[c] = {}
  /\ \E page \in pool :
       /\ IsFirst(page, pool)
       /\ pool' = pool \ {page}
       /\ pages_partial' = [pages_partial EXCEPT ![c] = @ \cup {page}]
       /\ sectors_used' = [sectors_used EXCEPT ![page] = Mask(0, c)]
       /\ Gives(size, c, page, 0)
       /\ UNCHANGED pages_full

(* Mutant: the page stays in the partial bit field when it becomes full.   *)
NeverFull(page, c, used) == UNCHANGED <<pages_partial, pages_full>>

(* A page whose sectors are all used moves from partial to full.           *)
MoveIfFull(page, c, used) ==
  \/ /\ used = Sectors
     /\ pages_partial' = [pages_partial EXCEPT ![c] = @ \ {page}]
     /\ pages_full' = [pages_full EXCEPT ![c] = @ \cup {page}]
  \/ /\ used # Sectors
     /\ UNCHANGED <<pages_partial, pages_full>>

(* The first free sector of the first partial page.                        *)
AllocInPartialPage(size, c) ==
  \E page \in pages_partial[c], sector \in Sectors :
    LET used == sectors_used[page] \cup Mask(sector, c)
    IN  /\ IsFirst(page, pages_partial[c])
        /\ IsFirst(sector, Sectors \ sectors_used[page])
        /\ sectors_used' = [sectors_used EXCEPT ![page] = used]
        /\ MoveIfFull(page, c, used)
        /\ Gives(size, c, page, sector)
        /\ UNCHANGED pool

(* allocate_2k and allocate_512 differ in the class only.                  *)
allocate_small(size, c) ==
  \/ AllocInPartialPage(size, c)
  \/ AllocInNewPage(size, c)
  \/ /\ pages_partial[c] = {}
     /\ pool = {}
     /\ NoSpace(size)

(* Mutant: a request of exactly 512 bytes goes to the 2 KB blocks.         *)
BlockOffByOne(size) == IF size > SECTORS_2K * MM_SECTOR_SIZE THEN "8k"
                       ELSE IF size >= MM_SECTOR_SIZE THEN "2k"
                       ELSE "512"

BlockFor(size) == IF size > SECTORS_2K * MM_SECTOR_SIZE THEN "8k"
                  ELSE IF size > MM_SECTOR_SIZE THEN "2k"
                  ELSE "512"

IPC_4GHIF_data_ul_mm_buddy_alloc(size) ==
  \/ BlockFor(size) = "8k" /\ allocate_8k(size)
  \/ BlockFor(size) # "8k" /\ allocate_small(size, BlockFor(size))

----------------------------------------------------------------------------
Takes(adr) ==
  /\ \E b \in held : b.adr = adr /\ held' = held \ {b}
  /\ ret' = [call |-> "free", size |-> 0, adr |-> adr]

free_8k(page) ==
  /\ sectors_used' = [sectors_used EXCEPT ![page] = {}]
  /\ pages_full' = [pages_full EXCEPT !["8k"] = @ \ {page}]
  /\ pool' = pool \cup {page}
  /\ UNCHANGED pages_partial

(* Mutant: one sector is released whatever the class of the block.         *)
LeftOneSector(page, sector, c) == sectors_used[page] \ {sector}

Left(page, sector, c) == sectors_used[page] \ Mask(sector, c)

(* free_2k and free_512: a full page becomes partial, an emptied one goes  *)
(* back to the pool.                                                       *)
free_small(page, sector, c) ==
  LET left == Left(page, sector, c)
      wasFull == sectors_used[page] = Sectors
      partial == IF wasFull THEN pages_partial[c] \cup {page}
                            ELSE pages_partial[c]
  IN  /\ sectors_used' = [sectors_used EXCEPT ![page] = left]
      /\ pages_full' = IF wasFull
                       THEN [pages_full EXCEPT ![c] = @ \ {page}]
                       ELSE pages_full
      /\ \/ /\ left = {}
            /\ pages_partial' = [pages_partial EXCEPT ![c] = partial \ {page}]
            /\ pool' = pool \cup {page}
         \/ /\ left # {}
            /\ pages_partial' = [pages_partial EXCEPT ![c] = partial]
            /\ UNCHANGED pool

(* Mutant: full pages of 2 KB blocks are taken for pages of 512 bytes.     *)
FreedAsPartialOnly(page) ==
  IF page \in pages_full["8k"] THEN "8k"
  ELSE IF page \in pages_partial["2k"] THEN "2k"
  ELSE "512"

(* buddy_free finds the class of a block from the bit fields of its page.  *)
FreedAs(page) ==
  IF page \in pages_full["8k"] THEN "8k"
  ELSE IF page \in pages_partial["2k"] \cup pages_full["2k"] THEN "2k"
  ELSE "512"

(* The panics of buddy_free and free_2k: outside the memory, a sector that *)
(* is not used, a 2 KB block that does not start on a multiple of 2 KB.    *)
FreePanics(adr) ==
  \/ PageOf(adr) \notin Pages
  \/ SectorOf(adr) \notin sectors_used[PageOf(adr)]
  \/ FreedAs(PageOf(adr)) = "2k" /\ SectorOf(adr) % SECTORS_2K # 0

(* The panics of allocate_2k and allocate_512, "No sector available".      *)
AllocPanics(c) ==
  \E page \in pages_partial[c] :
    IsFirst(page, pages_partial[c]) /\ sectors_used[page] = Sectors

IPC_4GHIF_data_ul_mm_buddy_free(adr) ==
  LET page == PageOf(adr)
  IN  /\ ~FreePanics(adr)
      /\ \/ /\ FreedAs(page) = "8k"
            /\ free_8k(page)
         \/ /\ FreedAs(page) # "8k"
            /\ free_small(page, SectorOf(adr), FreedAs(page))
      /\ Takes(adr)

(* The baseband returns the blocks in any order.                           *)
Next ==
  \/ \E size \in 1 .. (MM_NB_SECTOR_BY_PAGE * MM_SECTOR_SIZE) :
       IPC_4GHIF_data_ul_mm_buddy_alloc(size)
  \/ \E b \in held : IPC_4GHIF_data_ul_mm_buddy_free(b.adr)

Spec == IPC_4GHIF_data_ul_mm_buddy_init /\ [][Next]_vars

----------------------------------------------------------------------------
(* The type invariant of the bit fields and of the blocks given out.       *)
TypeOK ==
  /\ pool \subseteq Pages
  /\ pages_partial \in [Class -> SUBSET Pages]
  /\ pages_full \in [Class -> SUBSET Pages]
  /\ sectors_used \in [Pages -> SUBSET Sectors]
  /\ held \subseteq [adr : 0 .. (MM_NB_PAGE * MM_NB_SECTOR_BY_PAGE - 1),
                     cls : Class]

(* The six bit fields partition the pages, and they agree with the sector  *)
(* words: a page of the pool is empty, a full page full, a partial one     *)
(* neither.  Every allocate_* and free_* updates up to four of them.       *)
BitFieldsAgree ==
  /\ \A p \in Pages :
       /\ p \in pool <=> sectors_used[p] = {}
       /\ (\E c \in Class : p \in pages_full[c]) <=> sectors_used[p] = Sectors
       /\ p \in pool <=> \A c \in Class : p \notin pages_partial[c] \cup pages_full[c]
  /\ \A c \in Class : pages_partial[c] \cap pages_full[c] = {}
  /\ \A c, d \in Class : c # d =>
       (pages_partial[c] \cup pages_full[c])
         \cap (pages_partial[d] \cup pages_full[d]) = {}
  /\ pages_partial["8k"] = {}

(* The sector words say exactly which sectors the blocks in use cover:     *)
(* nothing leaks over any sequence of allocations and out-of-order         *)
(* returns, and no sector is free while the baseband may still read it.    *)
SectorsMatchHeld ==
  \A p \in Pages, s \in Sectors :
    s \in sectors_used[p] <=>
      \E b \in held : PageOf(b.adr) = p /\ s \in Mask(SectorOf(b.adr), b.cls)

(* No panic of the allocator is reachable: "No sector available" (//never) *)
(* and, for the address of any block in use, the checks of buddy_free; and *)
(* buddy_free finds the class that the block was allocated with.           *)
NoPanic ==
  /\ \A c \in Class : ~AllocPanics(c)
  /\ \A b \in held : ~FreePanics(b.adr) /\ FreedAs(PageOf(b.adr)) = b.cls

Abs == INSTANCE BlockStore

(* The allocator implements the block store: blocks never overlap, have    *)
(* the size asked for, and are refused only when no page has room.         *)
RefinesBlockStore == Abs!BSSpec
==============================================================================
