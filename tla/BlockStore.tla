----------------------------- MODULE BlockStore -----------------------------
(***************************************************************************)
(* What the UL memory manager of the 4G HIF promises submit_ul: blocks of  *)
(* the 384 KB of shared memory that never overlap, are large enough, and   *)
(* are refused only when the memory is exhausted.  No bit field and no     *)
(* search order is visible here; BuddyMM.tla implements this.              *)
(***************************************************************************)
EXTENDS Integers

CONSTANTS
  MM_NB_PAGE,             \* pages of 8 KB
  MM_NB_SECTOR_BY_PAGE,   \* sectors of 512 bytes in a page
  SECTORS_2K,             \* sectors in a 2 KB block
  MM_SECTOR_SIZE          \* bytes in a sector

VARIABLES
  held,   \* the blocks given out and not yet returned
  ret     \* the last call and what it answered

storeVars == <<held, ret>>

Pages == 0 .. (MM_NB_PAGE - 1)

Class == {"8k", "2k", "512"}

SectorsIn(c) == CASE c = "8k" -> MM_NB_SECTOR_BY_PAGE
                  [] c = "2k" -> SECTORS_2K
                  [] c = "512" -> 1

(* Addresses count sectors from MM_MEM_BASE_ADR.                           *)
Adr(page, sector) == page * MM_NB_SECTOR_BY_PAGE + sector

(* The sectors a block covers.                                             *)
Span(adr, c) == adr .. (adr + SectorsIn(c) - 1)

(* Page p can take a block of class c at sector s.                         *)
Fits(p, s, c) ==
  /\ p \in Pages
  /\ s \in 0 .. (MM_NB_SECTOR_BY_PAGE - SectorsIn(c))
  /\ \A b \in held : Span(Adr(p, s), c) \cap Span(b.adr, b.cls) = {}

(* The class that serves a request of size bytes.                          *)
ClassFor(size) == IF size <= MM_SECTOR_SIZE THEN "512"
                  ELSE IF size <= SECTORS_2K * MM_SECTOR_SIZE THEN "2k"
                  ELSE "8k"

(* A request is answered with a block of its class that overlaps none in   *)
(* use.                                                                    *)
BSAlloc(size) ==
  \E p \in Pages, s \in 0 .. (MM_NB_SECTOR_BY_PAGE - 1) :
    /\ Fits(p, s, ClassFor(size))
    /\ held' = held \cup {[adr |-> Adr(p, s), cls |-> ClassFor(size)]}
    /\ ret' = [call |-> "alloc", size |-> size, adr |-> Adr(p, s)]

(* A page has room for class c when it is empty, or keeps blocks of that   *)
(* class only and they leave space.                                        *)
HasRoom(p, c) ==
  /\ \E s \in 0 .. (MM_NB_SECTOR_BY_PAGE - 1) : Fits(p, s, c)
  /\ \A b \in held :
       b.adr \in Adr(p, 0) .. Adr(p, MM_NB_SECTOR_BY_PAGE - 1) => b.cls = c

(* A request is refused only when no page has room for its class.          *)
BSRefuse(size) ==
  /\ \A p \in Pages : ~HasRoom(p, ClassFor(size))
  /\ ret' = [call |-> "alloc", size |-> size, adr |-> -1]
  /\ UNCHANGED held

(* A returned block is one that was given out.                             *)
BSFree ==
  \E b \in held :
    /\ held' = held \ {b}
    /\ ret' = [call |-> "free", size |-> 0, adr |-> b.adr]

BSInit ==
  /\ held = {}
  /\ ret = [call |-> "init", size |-> 0, adr |-> -1]

BSNext ==
  \/ \E size \in 1 .. (MM_NB_SECTOR_BY_PAGE * MM_SECTOR_SIZE) :
       BSAlloc(size) \/ BSRefuse(size)
  \/ BSFree

BSSpec == BSInit /\ [][BSNext]_storeVars
==============================================================================
