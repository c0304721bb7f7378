---------------------------- MODULE BuddyMMProofs ----------------------------
(***************************************************************************)
(* Proofs about the allocator of the UL shared memory, for any number of   *)
(* pages, any page size and any size of the middle class that divides it.  *)
(***************************************************************************)
EXTENDS BuddyMM, ModularProofs, TLAPS

(* The sectors a block covers in its page.                                 *)
Cover(b) == Mask(SectorOf(b.adr), b.cls)

(* A block of class c may start at sector s.                               *)
Placed(s, c) ==
  /\ s \in 0 .. (MM_NB_SECTOR_BY_PAGE - SectorsIn(c))
  /\ \E k \in Nat : s = k * SectorsIn(c)

(* Each block lies within a page of its class, on a multiple of its size,  *)
(* which is why the first free sector of a page starts a free block ...    *)
BlocksPlaced ==
  \A b \in held :
    /\ PageOf(b.adr) \in pages_partial[b.cls] \cup pages_full[b.cls]
    /\ Placed(SectorOf(b.adr), b.cls)

(* ... and the blocks of a page cover different sectors.                   *)
BlocksApart ==
  \A b, d \in held :
    b # d /\ PageOf(b.adr) = PageOf(d.adr) => Cover(b) \cap Cover(d) = {}

(* The inductive invariant.                                                *)
IInv ==
  /\ TypeOK
  /\ BitFieldsAgree
  /\ SectorsMatchHeld
  /\ BlocksPlaced
  /\ BlocksApart

----------------------------------------------------------------------------
(* The class of a block determines how many sectors it has.                *)
LEMMA SectorsInFacts ==
  /\ SectorsIn("8k") = MM_NB_SECTOR_BY_PAGE
  /\ SectorsIn("2k") = SECTORS_2K /\ SectorsIn("512") = 1
  /\ MM_NB_SECTOR_BY_PAGE \in Nat /\ SECTORS_2K \in Nat /\ SECTORS_2K > 1
  /\ SECTORS_2K < MM_NB_SECTOR_BY_PAGE
  /\ \A c \in Class : SectorsIn(c) \in 1 .. MM_NB_SECTOR_BY_PAGE
<1>1. /\ SectorsIn("8k") = MM_NB_SECTOR_BY_PAGE
      /\ SectorsIn("2k") = SECTORS_2K /\ SectorsIn("512") = 1
      BY DEF SectorsIn
<1>2. /\ MM_NB_SECTOR_BY_PAGE \in Nat /\ SECTORS_2K \in Nat /\ SECTORS_2K > 1
      /\ SECTORS_2K < MM_NB_SECTOR_BY_PAGE
      BY BuddyAssumption
<1> QED BY <1>1, <1>2 DEF Class

(* A multiple of n is determined by any number in the n numbers from it.   *)
LEMMA SameMultiple ==
  ASSUME NEW n \in Nat, NEW p \in Nat, NEW q \in Nat, NEW x \in Nat,
         p * n <= x, x < p * n + n, q * n <= x, x < q * n + n
  PROVE  p = q
<1>1. CASE p < q
  <2>1. p + 1 <= q
        BY <1>1
  <2>2. (p + 1) * n <= q * n
        BY <2>1
  <2>3. (p + 1) * n = p * n + n
        OBVIOUS
  <2>4. p * n \in Nat /\ q * n \in Nat
        OBVIOUS
  <2> QED BY <2>2, <2>3, <2>4
<1>2. CASE q < p
  <2>1. q + 1 <= p
        BY <1>2
  <2>2. (q + 1) * n <= p * n
        BY <2>1
  <2>3. (q + 1) * n = q * n + n
        OBVIOUS
  <2>4. p * n \in Nat /\ q * n \in Nat
        OBVIOUS
  <2> QED BY <2>2, <2>3, <2>4
<1> QED BY <1>1, <1>2

(* An address is a page and a sector of it.                                *)
LEMMA AdrFacts ==
  ASSUME NEW p \in Pages, NEW s \in Sectors
  PROVE  /\ PageOf(Adr(p, s)) = p /\ SectorOf(Adr(p, s)) = s
         /\ Adr(p, s) \in 0 .. (MM_NB_PAGE * MM_NB_SECTOR_BY_PAGE - 1)
         /\ Adr(p, s) \in Nat
<1> DEFINE n == MM_NB_SECTOR_BY_PAGE
<1>1. n \in Nat /\ p \in Nat /\ s \in Nat /\ s < n /\ p < MM_NB_PAGE /\ MM_NB_PAGE \in Nat
      BY BuddyAssumption DEF Pages, Sectors
<1> HIDE DEF n
<1>2. (n * p + s) % n = s /\ (n * p + s) \div n = p
      BY <1>1, Remainder, Zenon
<1>3. n * p + s = p * n + s
      BY <1>1
<1>4. Adr(p, s) = p * n + s
      BY DEF Adr, n
<1>5. p * n + s \in 0 .. (MM_NB_PAGE * n - 1)
  <2>1. p + 1 <= MM_NB_PAGE
        BY <1>1
  <2>2. (p + 1) * n <= MM_NB_PAGE * n
        BY <1>1, <2>1
  <2>3. (p + 1) * n = p * n + n /\ p * n \in Nat /\ MM_NB_PAGE * n \in Nat
        BY <1>1
  <2> QED BY <1>1, <2>2, <2>3
<1>6. p * n + s \in Nat
      BY <1>1
<1> QED BY <1>2, <1>3, <1>4, <1>5, <1>6 DEF PageOf, SectorOf, n

LEMMA AdrSplit ==
  ASSUME NEW a \in 0 .. (MM_NB_PAGE * MM_NB_SECTOR_BY_PAGE - 1)
  PROVE  PageOf(a) \in Pages /\ SectorOf(a) \in Sectors /\ a = Adr(PageOf(a), SectorOf(a))
<1> DEFINE n == MM_NB_SECTOR_BY_PAGE
           q == a \div n
           r == a % n
<1>1. n \in Nat /\ n > 0 /\ a \in Nat /\ MM_NB_PAGE \in Nat
      BY BuddyAssumption
<1>2. a < MM_NB_PAGE * n
  <2>1. MM_NB_PAGE * n \in Nat
        BY <1>1
  <2> QED BY <1>1, <2>1
<1> HIDE DEF n
<1>3. a = n * q + r /\ r \in 0 .. (n - 1) /\ q \in Nat
      BY <1>1, DivMod
<1> HIDE DEF q, r
<1>4. q < MM_NB_PAGE
  <2> SUFFICES ASSUME q >= MM_NB_PAGE PROVE FALSE
      BY <1>1, <1>3
  <2>1. n * q >= n * MM_NB_PAGE
        BY <1>1, <1>3
  <2>2. n * q \in Nat /\ n * MM_NB_PAGE \in Nat /\ n * MM_NB_PAGE = MM_NB_PAGE * n
        BY <1>1, <1>3
  <2> QED BY <1>1, <1>2, <1>3, <2>1, <2>2
<1>5. a = q * n + r
      BY <1>1, <1>3
<1>6. q \in Pages /\ r \in Sectors
      BY <1>1, <1>3, <1>4 DEF Pages, Sectors, n
<1> QED BY <1>5, <1>6 DEF PageOf, SectorOf, Adr, q, r, n

(* A block starts in one of its sectors and they are all in its page.      *)
LEMMA MaskFacts ==
  ASSUME NEW c \in Class, NEW s, Placed(s, c)
  PROVE  s \in Mask(s, c) /\ Mask(s, c) \subseteq Sectors /\ s \in Sectors
<1>1. SectorsIn(c) \in 1 .. MM_NB_SECTOR_BY_PAGE /\ MM_NB_SECTOR_BY_PAGE \in Nat
      BY SectorsInFacts
<1>2. s \in 0 .. (MM_NB_SECTOR_BY_PAGE - SectorsIn(c))
      BY DEF Placed
<1> QED BY <1>1, <1>2 DEF Mask, Sectors

(* Two blocks of one class that share a sector are the same.               *)
LEMMA PlacedEqual ==
  ASSUME NEW c \in Class, NEW s, NEW t, Placed(s, c), Placed(t, c),
         NEW x \in Mask(s, c), x \in Mask(t, c)
  PROVE  s = t
<1> DEFINE n == SectorsIn(c)
<1>1. n \in Nat /\ s \in Nat /\ t \in Nat
      BY SectorsInFacts DEF Placed
<1>2. /\ x \in Nat /\ s <= x /\ x < s + n /\ t <= x /\ x < t + n
      BY <1>1 DEF Mask
<1>3. PICK p \in Nat : s = p * n
      BY DEF Placed
<1>4. PICK q \in Nat : t = q * n
      BY DEF Placed
<1> HIDE DEF n
<1>5. p = q
      BY <1>1, <1>2, <1>3, <1>4, SameMultiple
<1> QED BY <1>3, <1>4, <1>5

(* The first sector of a page starts a block of any class, which fills the *)
(* page if the class is 8 KB and not otherwise.                            *)
LEMMA FirstBlock ==
  ASSUME NEW c \in Class
  PROVE  /\ Placed(0, c) /\ 0 \in Sectors /\ Mask(0, "8k") = Sectors
         /\ c # "8k" => Mask(0, c) # Sectors
<1>1. /\ SectorsIn(c) \in 1 .. MM_NB_SECTOR_BY_PAGE /\ MM_NB_SECTOR_BY_PAGE \in Nat
      BY SectorsInFacts
<1>2. 0 = 0 * SectorsIn(c)
      BY <1>1
<1>3. Placed(0, c) /\ 0 \in Sectors
      BY <1>1, <1>2 DEF Placed, Sectors
<1>4. Mask(0, "8k") = Sectors
      BY SectorsInFacts DEF Mask, Sectors
<1>5. ASSUME c # "8k" PROVE Mask(0, c) # Sectors
  <2>1. SectorsIn(c) < MM_NB_SECTOR_BY_PAGE
        BY <1>5, SectorsInFacts DEF Class
  <2>2. SectorsIn(c) \in Sectors /\ SectorsIn(c) \notin Mask(0, c)
        BY <1>1, <2>1 DEF Sectors, Mask
  <2> QED BY <2>2
<1> QED BY <1>3, <1>4, <1>5

----------------------------------------------------------------------------
(* A block in use: where it is, and that its page belongs to its class.    *)
LEMMA HeldFacts ==
  ASSUME IInv, NEW b \in held
  PROVE  /\ b.cls \in Class /\ PageOf(b.adr) \in Pages
         /\ SectorOf(b.adr) \in Sectors /\ SectorOf(b.adr) \in Cover(b)
         /\ Cover(b) \subseteq Sectors
         /\ Cover(b) \subseteq sectors_used[PageOf(b.adr)]
         /\ b = [adr |-> b.adr, cls |-> b.cls]
         /\ b.adr = Adr(PageOf(b.adr), SectorOf(b.adr))
         /\ Placed(SectorOf(b.adr), b.cls)
<1>1. b \in [adr : 0 .. (MM_NB_PAGE * MM_NB_SECTOR_BY_PAGE - 1), cls : Class]
      BY DEF IInv, TypeOK
<1>2. /\ b.adr \in 0 .. (MM_NB_PAGE * MM_NB_SECTOR_BY_PAGE - 1) /\ b.cls \in Class
      /\ b = [adr |-> b.adr, cls |-> b.cls]
      BY <1>1
<1>3. /\ PageOf(b.adr) \in Pages /\ SectorOf(b.adr) \in Sectors
      /\ b.adr = Adr(PageOf(b.adr), SectorOf(b.adr))
      BY <1>2, AdrSplit
<1>4. Placed(SectorOf(b.adr), b.cls)
      BY DEF IInv, BlocksPlaced
<1>5. SectorOf(b.adr) \in Cover(b) /\ Cover(b) \subseteq Sectors
      BY <1>2, <1>4, MaskFacts DEF Cover
<1>6. Cover(b) \subseteq sectors_used[PageOf(b.adr)]
      BY <1>3, <1>5 DEF IInv, SectorsMatchHeld, Cover
<1> QED BY <1>2, <1>3, <1>4, <1>5, <1>6

(* The block that covers a used sector has the class of its page.          *)
LEMMA UsedFacts ==
  ASSUME IInv, NEW p \in Pages, NEW s \in sectors_used[p]
  PROVE  \E b \in held : /\ PageOf(b.adr) = p /\ s \in Cover(b)
                         /\ p \in pages_partial[b.cls] \cup pages_full[b.cls]
                         /\ \A c \in Class : p \in pages_partial[c] \cup pages_full[c]
                                               => b.cls = c
<1>1. s \in Sectors
      BY DEF IInv, TypeOK
<1>2. PICK b \in held : PageOf(b.adr) = p /\ s \in Cover(b)
      BY <1>1 DEF IInv, SectorsMatchHeld, Cover
<1>3. p \in pages_partial[b.cls] \cup pages_full[b.cls] /\ b.cls \in Class
      BY <1>2, HeldFacts DEF IInv, BlocksPlaced
<1>4. \A c \in Class : p \in pages_partial[c] \cup pages_full[c] => b.cls = c
      BY <1>3 DEF IInv, BitFieldsAgree
<1> QED BY <1>2, <1>3, <1>4

(* buddy_free finds the class of a block from the page.                    *)
LEMMA FreedAsClass ==
  ASSUME IInv, NEW b \in held
  PROVE  FreedAs(PageOf(b.adr)) = b.cls
<1>1. b.cls \in Class /\ PageOf(b.adr) \in pages_partial[b.cls] \cup pages_full[b.cls]
      BY HeldFacts DEF IInv, BlocksPlaced
<1>2. \A c \in Class : PageOf(b.adr) \in pages_partial[c] \cup pages_full[c] => b.cls = c
      BY <1>1 DEF IInv, BitFieldsAgree
<1>3. pages_partial["8k"] = {}
      BY DEF IInv, BitFieldsAgree
<1> QED BY <1>1, <1>2, <1>3 DEF FreedAs, Class

(* A partial page: it has a free sector, and the first one starts a free   *)
(* block of the class of the page.                                         *)
LEMMA FreeSector ==
  ASSUME IInv, NEW c \in Class, c # "8k", NEW page \in pages_partial[c],
         NEW sector \in Sectors, IsFirst(sector, Sectors \ sectors_used[page])
  PROVE  Placed(sector, c) /\ Mask(sector, c) \cap sectors_used[page] = {}
<1>1. page \in Pages /\ sector \notin sectors_used[page] /\ sector \in Nat
      BY DEF IInv, TypeOK, IsFirst, Sectors
<1>2. \A x \in Sectors : x < sector => x \in sectors_used[page]
      BY DEF IsFirst, Sectors
<1>3. ASSUME NEW x \in sectors_used[page]
      PROVE  \E t \in Sectors : /\ Placed(t, c) /\ x \in Mask(t, c)
                                /\ Mask(t, c) \subseteq sectors_used[page]
  <2>1. PICK b \in held : PageOf(b.adr) = page /\ x \in Cover(b) /\ b.cls = c
        BY <1>1, <1>3, UsedFacts
  <2> QED BY <2>1, HeldFacts DEF Cover
<1>4. CASE c = "512"
  <2>1. SectorsIn(c) = 1 /\ MM_NB_SECTOR_BY_PAGE \in Nat
        BY <1>4, SectorsInFacts
  <2>2. sector = sector * 1 /\ sector \in 0 .. (MM_NB_SECTOR_BY_PAGE - 1)
        BY <1>1 DEF Sectors
  <2>3. Mask(sector, c) = {sector}
        BY <1>1, <2>1 DEF Mask
  <2> QED BY <1>1, <2>1, <2>2, <2>3 DEF Placed
<1>5. CASE c = "2k"
  <2> DEFINE n == SECTORS_2K
             total == MM_NB_SECTOR_BY_PAGE
             q == sector \div n
             m == total \div n
  <2>1. /\ n \in Nat /\ n > 0 /\ total \in Nat /\ SectorsIn(c) = n /\ sector < total
        /\ total % n = 0 /\ n <= total
        BY <1>5, SectorsInFacts, BuddyAssumption DEF Sectors
  <2>2. q \in Nat /\ q * n <= sector /\ sector < q * n + n
    <3> HIDE DEF n
    <3>1. sector = n * q + (sector % n) /\ sector % n \in 0 .. (n - 1) /\ q \in Nat
          BY <1>1, <2>1, DivMod
    <3> HIDE DEF q
    <3>2. n * q = q * n /\ q * n \in Nat
          BY <2>1, <3>1
    <3> DEFINE r == sector % n
    <3>3. sector = q * n + r /\ r \in 0 .. (n - 1)
          BY <3>1, <3>2
    <3> HIDE DEF r
    <3> QED BY <2>1, <3>1, <3>2, <3>3
  <2>3. m \in Nat /\ total = m * n
    <3> HIDE DEF n, total
    <3>1. total = n * m + (total % n) /\ m \in Nat
          BY <2>1, DivMod
    <3> HIDE DEF m
    <3> QED BY <2>1, <3>1
  <2> HIDE DEF n, total, q, m
  <2>4. q * n \in Nat /\ m * n \in Nat /\ q * n < m * n
        BY <1>1, <2>1, <2>2, <2>3
  <2>5. q + 1 <= m
    <3> SUFFICES ASSUME m <= q PROVE FALSE
        BY <2>2, <2>3
    <3>1. m * n <= q * n
          BY <2>1, <2>2, <2>3
    <3> QED BY <2>4, <3>1
  <2>6. q * n + n <= total
    <3>1. (q + 1) * n <= m * n
          BY <2>1, <2>2, <2>3, <2>5
    <3>2. (q + 1) * n = q * n + n
          BY <2>1, <2>2
    <3> QED BY <2>3, <3>1, <3>2
  <2>7. Placed(q * n, c)
    <3>1. q * n \in 0 .. (total - n)
          BY <2>1, <2>4, <2>6
    <3> QED BY <2>1, <2>2, <3>1 DEF Placed, total
  <2>8. q * n = sector
    <3> SUFFICES ASSUME q * n < sector PROVE FALSE
        BY <1>1, <2>2, <2>4
    <3>1. q * n \in Sectors
          BY <2>7, MaskFacts
    <3>2. PICK t \in Sectors : /\ Placed(t, c) /\ q * n \in Mask(t, c)
                               /\ Mask(t, c) \subseteq sectors_used[page]
          BY <1>2, <1>3, <3>1
    <3>3. q * n = t
          BY <2>7, <3>2, MaskFacts, PlacedEqual
    <3>4. sector \in Mask(q * n, c)
          BY <1>1, <2>1, <2>2, <2>4 DEF Mask
    <3> QED BY <1>1, <3>2, <3>3, <3>4
  <2>9. ASSUME NEW x \in Mask(sector, c), x \in sectors_used[page] PROVE FALSE
    <3>1. PICK t \in Sectors : /\ Placed(t, c) /\ x \in Mask(t, c)
                               /\ Mask(t, c) \subseteq sectors_used[page]
          BY <1>3, <2>9
    <3>2. Placed(sector, c)
          BY <2>7, <2>8
    <3>3. sector = t
          BY <2>9, <3>1, <3>2, PlacedEqual
    <3> QED BY <1>1, <3>1, <3>2, <3>3, MaskFacts
  <2> QED BY <2>7, <2>8, <2>9
<1> QED BY <1>4, <1>5 DEF Class

----------------------------------------------------------------------------
(* What a new block does to the sector words, ...                          *)
LEMMA AddBlock ==
  ASSUME IInv, NEW page \in Pages, NEW sector, NEW c \in Class, Placed(sector, c),
         Mask(sector, c) \cap sectors_used[page] = {},
         held' = held \cup {[adr |-> Adr(page, sector), cls |-> c]},
         sectors_used' = [sectors_used EXCEPT ![page] = @ \cup Mask(sector, c)]
  PROVE  /\ held' \subseteq [adr : 0 .. (MM_NB_PAGE * MM_NB_SECTOR_BY_PAGE - 1),
                             cls : Class]
         /\ sectors_used' \in [Pages -> SUBSET Sectors]
         /\ SectorsMatchHeld' /\ BlocksApart'
         /\ \A b \in held' : /\ Placed(SectorOf(b.adr), b.cls)
                             /\ b \in held \/ (PageOf(b.adr) = page /\ b.cls = c)
<1> DEFINE new == [adr |-> Adr(page, sector), cls |-> c]
<1>1. sector \in Sectors /\ Mask(sector, c) \subseteq Sectors
      BY MaskFacts
<1>2. /\ PageOf(new.adr) = page /\ SectorOf(new.adr) = sector /\ new.cls = c
      /\ new.adr \in 0 .. (MM_NB_PAGE * MM_NB_SECTOR_BY_PAGE - 1)
      /\ Cover(new) = Mask(sector, c)
      BY <1>1, AdrFacts DEF Cover
<1>3. new \in [adr : 0 .. (MM_NB_PAGE * MM_NB_SECTOR_BY_PAGE - 1), cls : Class]
      BY <1>2
<1> HIDE DEF new
<1>4. held' = held \cup {new}
      BY DEF new
<1>5. /\ sectors_used \in [Pages -> SUBSET Sectors]
      /\ sectors_used' \in [Pages -> SUBSET Sectors]
      /\ sectors_used'[page] = sectors_used[page] \cup Mask(sector, c)
      /\ \A p \in Pages : p # page => sectors_used'[p] = sectors_used[p]
      BY <1>1 DEF IInv, TypeOK
<1>6. SectorsMatchHeld'
  <2> SUFFICES ASSUME NEW p \in Pages, NEW s \in Sectors
               PROVE  s \in sectors_used'[p] <=>
                        \E b \in held' : PageOf(b.adr) = p /\ s \in Cover(b)
      BY DEF SectorsMatchHeld, Cover
  <2>1. s \in sectors_used[p] <=> \E b \in held : PageOf(b.adr) = p /\ s \in Cover(b)
        BY DEF IInv, SectorsMatchHeld, Cover
  <2>2. s \in sectors_used'[p] <=>
          s \in sectors_used[p] \/ (p = page /\ s \in Mask(sector, c))
        BY <1>5
  <2> QED BY <1>2, <1>4, <2>1, <2>2
<1>7. BlocksApart'
  <2> SUFFICES ASSUME NEW b \in held', NEW d \in held', b # d,
                      PageOf(b.adr) = PageOf(d.adr)
               PROVE  Cover(b) \cap Cover(d) = {}
      BY DEF BlocksApart, Cover
  <2>1. CASE b \in held /\ d \in held
        BY <2>1 DEF IInv, BlocksApart
  <2>2. CASE b = new /\ d \in held
        BY <1>2, <2>2, HeldFacts
  <2>3. CASE b \in held /\ d = new
        BY <1>2, <2>3, HeldFacts
  <2> QED BY <1>4, <2>1, <2>2, <2>3
<1>8. ASSUME NEW b \in held'
      PROVE  /\ Placed(SectorOf(b.adr), b.cls)
             /\ b \in held \/ (PageOf(b.adr) = page /\ b.cls = c)
      BY <1>2, <1>4, HeldFacts
<1>9. held' \subseteq [adr : 0 .. (MM_NB_PAGE * MM_NB_SECTOR_BY_PAGE - 1), cls : Class]
      BY <1>3, <1>4 DEF IInv, TypeOK
<1> QED BY <1>5, <1>6, <1>7, <1>8, <1>9

(* ... and what a returned one does.                                       *)
LEMMA DropBlock ==
  ASSUME IInv, NEW b \in held, held' = held \ {b},
         sectors_used' = [sectors_used EXCEPT ![PageOf(b.adr)] = @ \ Cover(b)]
  PROVE  /\ sectors_used' \in [Pages -> SUBSET Sectors]
         /\ SectorsMatchHeld' /\ BlocksApart'
         /\ \A d \in held' : /\ PageOf(d.adr) = PageOf(b.adr) => d.cls = b.cls
                             /\ sectors_used'[PageOf(d.adr)] # {}
<1> DEFINE page == PageOf(b.adr)
<1>1. /\ page \in Pages /\ Cover(b) \subseteq Sectors /\ b.cls \in Class
      BY HeldFacts
<1>2. /\ sectors_used \in [Pages -> SUBSET Sectors]
      /\ sectors_used' \in [Pages -> SUBSET Sectors]
      /\ sectors_used'[page] = sectors_used[page] \ Cover(b)
      /\ \A p \in Pages : p # page => sectors_used'[p] = sectors_used[p]
      BY <1>1 DEF IInv, TypeOK
<1>3. SectorsMatchHeld'
  <2> SUFFICES ASSUME NEW p \in Pages, NEW s \in Sectors
               PROVE  s \in sectors_used'[p] <=>
                        \E d \in held' : PageOf(d.adr) = p /\ s \in Cover(d)
      BY DEF SectorsMatchHeld, Cover
  <2>1. s \in sectors_used[p] <=> \E d \in held : PageOf(d.adr) = p /\ s \in Cover(d)
        BY DEF IInv, SectorsMatchHeld, Cover
  <2>2. s \in sectors_used'[p] <=>
          s \in sectors_used[p] /\ ~(p = page /\ s \in Cover(b))
        BY <1>2
  <2>3. \A d \in held : d # b /\ PageOf(d.adr) = page => Cover(d) \cap Cover(b) = {}
        BY DEF IInv, BlocksApart
  <2> QED BY <2>1, <2>2, <2>3
<1>4. BlocksApart'
      BY DEF IInv, BlocksApart, Cover
<1>5. ASSUME NEW d \in held'
      PROVE  /\ PageOf(d.adr) = page => d.cls = b.cls
             /\ sectors_used'[PageOf(d.adr)] # {}
  <2>1. d \in held
        OBVIOUS
  <2>2. /\ PageOf(d.adr) \in Pages /\ SectorOf(d.adr) \in Sectors
        /\ SectorOf(d.adr) \in Cover(d)
        BY <2>1, HeldFacts
  <2>3. SectorOf(d.adr) \in sectors_used'[PageOf(d.adr)]
        BY <1>3, <2>2 DEF SectorsMatchHeld, Cover
  <2>4. PageOf(d.adr) = page => d.cls = b.cls
        BY <2>1, FreedAsClass
  <2> QED BY <2>3, <2>4
<1> QED BY <1>2, <1>3, <1>4, <1>5

----------------------------------------------------------------------------
LEMMA InitIInv == IPC_4GHIF_data_ul_mm_buddy_init => IInv
<1> SUFFICES ASSUME IPC_4GHIF_data_ul_mm_buddy_init PROVE IInv
    OBVIOUS
<1>1. TypeOK
      BY DEF IPC_4GHIF_data_ul_mm_buddy_init, TypeOK
<1>2. Sectors # {}
      BY BuddyAssumption DEF Sectors
<1>3. BitFieldsAgree
      BY <1>2 DEF IPC_4GHIF_data_ul_mm_buddy_init, BitFieldsAgree, Class
<1>4. SectorsMatchHeld /\ BlocksPlaced /\ BlocksApart
      BY DEF IPC_4GHIF_data_ul_mm_buddy_init, SectorsMatchHeld, BlocksPlaced,
         BlocksApart
<1> QED BY <1>1, <1>3, <1>4 DEF IInv

(* The bits of a page do not change, ...                                   *)
SameBits(p) ==
  /\ p \in pool' <=> p \in pool
  /\ sectors_used'[p] = sectors_used[p]
  /\ \A d \in Class : /\ p \in pages_partial'[d] <=> p \in pages_partial[d]
                      /\ p \in pages_full'[d] <=> p \in pages_full[d]

(* ... or after a step they say that it is a page of class c, or empty.    *)
BitsOfClass(p, c) ==
  /\ \A d \in Class : d # c => p \notin pages_partial'[d] \cup pages_full'[d]
  /\ p \in pool' <=> sectors_used'[p] = {}
  /\ p \in pages_full'[c] <=> sectors_used'[p] = Sectors
  /\ p \in pages_partial'[c] <=> sectors_used'[p] \notin {{}, Sectors}
  /\ c = "8k" => p \notin pages_partial'[c]

(* Every step changes the bit fields of one page only: they still agree if *)
(* the page is where its sector word says.                                 *)
LEMMA OnePage ==
  ASSUME IInv, TypeOK', NEW page \in Pages, NEW c \in Class,
         \A p \in Pages : p # page => SameBits(p),
         BitsOfClass(page, c)
  PROVE  BitFieldsAgree'
<1>1. Sectors # {} /\ "8k" \in Class
      BY BuddyAssumption DEF Sectors, Class
<1>2. ASSUME NEW p \in Pages
      PROVE  /\ p \in pool' <=> sectors_used'[p] = {}
             /\ (\E d \in Class : p \in pages_full'[d]) <=> sectors_used'[p] = Sectors
             /\ p \in pool' <=> \A d \in Class : p \notin pages_partial'[d] \cup pages_full'[d]
             /\ \A d \in Class : ~(p \in pages_partial'[d] /\ p \in pages_full'[d])
             /\ \A d, e \in Class : d # e =>
                  ~(/\ p \in pages_partial'[d] \cup pages_full'[d]
                    /\ p \in pages_partial'[e] \cup pages_full'[e])
             /\ p \notin pages_partial'["8k"]
  <2>1. CASE p = page
        BY <1>1, <2>1 DEF BitsOfClass
  <2>2. CASE p # page
    <3>1. SameBits(p)
          BY <2>2
    <3>2. /\ p \in pool <=> sectors_used[p] = {}
          /\ (\E d \in Class : p \in pages_full[d]) <=> sectors_used[p] = Sectors
          /\ p \in pool <=> \A d \in Class : p \notin pages_partial[d] \cup pages_full[d]
          /\ \A d \in Class : ~(p \in pages_partial[d] /\ p \in pages_full[d])
          /\ \A d, e \in Class : d # e =>
               ~(/\ p \in pages_partial[d] \cup pages_full[d]
                 /\ p \in pages_partial[e] \cup pages_full[e])
          /\ p \notin pages_partial["8k"]
          BY DEF IInv, BitFieldsAgree
    <3> QED BY <1>1, <3>1, <3>2 DEF SameBits
  <2> QED BY <2>1, <2>2
<1>3. \A d \in Class : pages_partial'[d] \subseteq Pages /\ pages_full'[d] \subseteq Pages
      BY DEF TypeOK
<1>4. \A d \in Class : pages_partial'[d] \cap pages_full'[d] = {}
      BY <1>2, <1>3
<1>5. \A d, e \in Class : d # e =>
        (pages_partial'[d] \cup pages_full'[d])
          \cap (pages_partial'[e] \cup pages_full'[e]) = {}
      BY <1>2, <1>3
<1>6. pages_partial'["8k"] = {}
      BY <1>1, <1>2, <1>3
<1> QED BY <1>2, <1>4, <1>5, <1>6 DEF BitFieldsAgree

(* A page of the pool is given away whole, ...                             *)
LEMMA Alloc8kStep ==
  ASSUME IInv, NEW size, allocate_8k(size)
  PROVE  IInv'
<1>1. CASE NoSpace(size)
  <2>1. UNCHANGED <<pool, pages_partial, pages_full, sectors_used, held>>
        BY <1>1 DEF NoSpace
  <2> QED BY <2>1 DEF IInv, TypeOK, BitFieldsAgree, SectorsMatchHeld, BlocksPlaced,
             BlocksApart, Cover
<1>2. CASE \E page \in pool :
             /\ pool' = pool \ {page}
             /\ pages_full' = [pages_full EXCEPT !["8k"] = @ \cup {page}]
             /\ sectors_used' = [sectors_used EXCEPT ![page] = Sectors]
             /\ Gives(size, "8k", page, 0)
             /\ UNCHANGED pages_partial
  <2>1. PICK page \in pool :
             /\ pool' = pool \ {page}
             /\ pages_full' = [pages_full EXCEPT !["8k"] = @ \cup {page}]
             /\ sectors_used' = [sectors_used EXCEPT ![page] = Sectors]
             /\ held' = held \cup {[adr |-> Adr(page, 0), cls |-> "8k"]}
             /\ UNCHANGED pages_partial
        BY <1>2 DEF Gives
  <2>2. page \in Pages /\ sectors_used[page] = {} /\ "8k" \in Class
        BY DEF IInv, TypeOK, BitFieldsAgree, Class
  <2>3. Placed(0, "8k") /\ Mask(0, "8k") = Sectors /\ Sectors # {}
        BY <2>2, FirstBlock
  <2>4. sectors_used' = [sectors_used EXCEPT ![page] = @ \cup Mask(0, "8k")]
        BY <2>1, <2>2, <2>3 DEF IInv, TypeOK
  <2>5. /\ held' \subseteq [adr : 0 .. (MM_NB_PAGE * MM_NB_SECTOR_BY_PAGE - 1), cls : Class]
        /\ sectors_used' \in [Pages -> SUBSET Sectors]
        /\ SectorsMatchHeld' /\ BlocksApart'
        /\ \A b \in held' : /\ Placed(SectorOf(b.adr), b.cls)
                            /\ b \in held \/ (PageOf(b.adr) = page /\ b.cls = "8k")
        BY <2>1, <2>2, <2>3, <2>4, AddBlock
  <2>6. TypeOK'
        BY <2>1, <2>2, <2>5 DEF IInv, TypeOK
  <2>8. BitFieldsAgree'
    <3>1. \A d \in Class : page \notin pages_partial[d] \cup pages_full[d]
          BY <2>2 DEF IInv, BitFieldsAgree
    <3>2. /\ pages_full'["8k"] = pages_full["8k"] \cup {page}
          /\ \A d \in Class : d # "8k" => pages_full'[d] = pages_full[d]
          /\ sectors_used'[page] = Sectors
          /\ \A p \in Pages : p # page => sectors_used'[p] = sectors_used[p]
          BY <2>1, <2>2 DEF IInv, TypeOK
    <3>3. \A p \in Pages : p # page => SameBits(p)
          BY <2>1, <3>2 DEF SameBits
    <3>4. BitsOfClass(page, "8k")
          BY <2>1, <2>2, <2>3, <3>1, <3>2 DEF BitsOfClass
    <3> QED BY <2>2, <2>6, <3>3, <3>4, OnePage
  <2>9. BlocksPlaced'
        BY <2>1, <2>2, <2>5 DEF IInv, TypeOK, BlocksPlaced
  <2> QED BY <2>5, <2>6, <2>8, <2>9 DEF IInv
<1> QED BY <1>1, <1>2 DEF allocate_8k

(* ... becomes a page of small blocks, ...                                 *)
LEMMA NewPageStep ==
  ASSUME IInv, NEW size, NEW c \in Class, c # "8k", AllocInNewPage(size, c)
  PROVE  IInv'
<1>1. PICK page \in pool :
        /\ pool' = pool \ {page}
        /\ pages_partial' = [pages_partial EXCEPT ![c] = @ \cup {page}]
        /\ sectors_used' = [sectors_used EXCEPT ![page] = Mask(0, c)]
        /\ held' = held \cup {[adr |-> Adr(page, 0), cls |-> c]}
        /\ UNCHANGED pages_full
      BY DEF AllocInNewPage, Gives
<1>2. page \in Pages /\ sectors_used[page] = {}
      BY DEF IInv, TypeOK, BitFieldsAgree
<1>3. Placed(0, c) /\ Mask(0, c) # Sectors /\ Mask(0, c) # {}
      BY FirstBlock, MaskFacts
<1>4. sectors_used' = [sectors_used EXCEPT ![page] = @ \cup Mask(0, c)]
      BY <1>1, <1>2 DEF IInv, TypeOK
<1>5. /\ held' \subseteq [adr : 0 .. (MM_NB_PAGE * MM_NB_SECTOR_BY_PAGE - 1), cls : Class]
      /\ sectors_used' \in [Pages -> SUBSET Sectors]
      /\ SectorsMatchHeld' /\ BlocksApart'
      /\ \A b \in held' : /\ Placed(SectorOf(b.adr), b.cls)
                          /\ b \in held \/ (PageOf(b.adr) = page /\ b.cls = c)
      BY <1>1, <1>2, <1>3, <1>4, AddBlock
<1>6. TypeOK'
      BY <1>1, <1>2, <1>5 DEF IInv, TypeOK
<1>7. BitFieldsAgree'
  <2>1. \A d \in Class : page \notin pages_partial[d] \cup pages_full[d]
        BY <1>2 DEF IInv, BitFieldsAgree
  <2>2. /\ pages_partial'[c] = pages_partial[c] \cup {page}
        /\ \A d \in Class : d # c => pages_partial'[d] = pages_partial[d]
        /\ sectors_used'[page] = Mask(0, c)
        /\ \A p \in Pages : p # page => sectors_used'[p] = sectors_used[p]
        BY <1>1, <1>2 DEF IInv, TypeOK
  <2>3. \A p \in Pages : p # page => SameBits(p)
        BY <1>1, <2>2 DEF SameBits
  <2>4. BitsOfClass(page, c)
        BY <1>1, <1>3, <2>1, <2>2 DEF BitsOfClass
  <2> QED BY <1>2, <1>6, <2>3, <2>4, OnePage
<1>8. BlocksPlaced'
  <2> SUFFICES ASSUME NEW b \in held'
               PROVE  PageOf(b.adr) \in pages_partial'[b.cls] \cup pages_full'[b.cls]
      BY <1>5 DEF BlocksPlaced
  <2>1. \A d \in Class : pages_partial[d] \subseteq pages_partial'[d]
        BY <1>1 DEF IInv, TypeOK
  <2>2. CASE b \in held
        BY <1>1, <2>1, <2>2, HeldFacts DEF IInv, BlocksPlaced
  <2>3. CASE PageOf(b.adr) = page /\ b.cls = c
        BY <1>1, <2>3 DEF IInv, TypeOK
  <2> QED BY <1>5, <2>2, <2>3
<1> QED BY <1>5, <1>6, <1>7, <1>8 DEF IInv

(* ... or a partial page takes one more block and may become full.         *)
LEMMA PartialPageStep ==
  ASSUME IInv, NEW size, NEW c \in Class, c # "8k", AllocInPartialPage(size, c)
  PROVE  IInv'
<1>1. PICK page \in pages_partial[c], sector \in Sectors :
        /\ IsFirst(sector, Sectors \ sectors_used[page])
        /\ sectors_used' = [sectors_used EXCEPT ![page] =
                              sectors_used[page] \cup Mask(sector, c)]
        /\ MoveIfFull(page, c, sectors_used[page] \cup Mask(sector, c))
        /\ held' = held \cup {[adr |-> Adr(page, sector), cls |-> c]}
        /\ UNCHANGED pool
      BY DEF AllocInPartialPage, Gives
<1> DEFINE used == sectors_used[page] \cup Mask(sector, c)
<1>2. Placed(sector, c) /\ Mask(sector, c) \cap sectors_used[page] = {}
      BY <1>1, FreeSector
<1>3. page \in Pages /\ sector \in used /\ used \subseteq Sectors
      BY <1>1, <1>2, MaskFacts DEF IInv, TypeOK
<1>4. sectors_used' = [sectors_used EXCEPT ![page] = @ \cup Mask(sector, c)]
      BY <1>1 DEF IInv, TypeOK
<1>5. /\ held' \subseteq [adr : 0 .. (MM_NB_PAGE * MM_NB_SECTOR_BY_PAGE - 1), cls : Class]
      /\ sectors_used' \in [Pages -> SUBSET Sectors]
      /\ SectorsMatchHeld' /\ BlocksApart'
      /\ \A b \in held' : /\ Placed(SectorOf(b.adr), b.cls)
                          /\ b \in held \/ (PageOf(b.adr) = page /\ b.cls = c)
      BY <1>1, <1>2, <1>3, <1>4, AddBlock
<1>6. /\ sectors_used'[page] = used
      /\ \A p \in Pages : p # page => sectors_used'[p] = sectors_used[p]
      BY <1>1, <1>3 DEF IInv, TypeOK
<1> HIDE DEF used
<1>7. /\ pages_partial' \in [Class -> SUBSET Pages]
      /\ pages_full' \in [Class -> SUBSET Pages]
      /\ \A d \in Class : d # c => /\ pages_partial'[d] = pages_partial[d]
                                   /\ pages_full'[d] = pages_full[d]
      /\ used = Sectors => /\ pages_partial'[c] = pages_partial[c] \ {page}
                           /\ pages_full'[c] = pages_full[c] \cup {page}
      /\ used # Sectors => /\ pages_partial'[c] = pages_partial[c]
                           /\ pages_full'[c] = pages_full[c]
      BY <1>1, <1>3 DEF MoveIfFull, IInv, TypeOK, used
<1>8. TypeOK'
      BY <1>1, <1>5, <1>7 DEF IInv, TypeOK
<1>9. BitFieldsAgree'
  <2>1. page \notin pool /\ page \notin pages_full[c]
        BY <1>3 DEF IInv, BitFieldsAgree
  <2>2. \A d \in Class : d # c => page \notin pages_partial[d] \cup pages_full[d]
        BY <1>3 DEF IInv, BitFieldsAgree
  <2>3. \A p \in Pages : p # page => SameBits(p)
        BY <1>1, <1>6, <1>7 DEF SameBits
  <2>4. BitsOfClass(page, c)
        BY <1>1, <1>3, <1>6, <1>7, <2>1, <2>2 DEF BitsOfClass
  <2> QED BY <1>3, <1>8, <2>3, <2>4, OnePage
<1>10. BlocksPlaced'
  <2> SUFFICES ASSUME NEW b \in held'
               PROVE  PageOf(b.adr) \in pages_partial'[b.cls] \cup pages_full'[b.cls]
      BY <1>5 DEF BlocksPlaced
  <2>1. \A d \in Class : pages_partial[d] \cup pages_full[d]
                           \subseteq pages_partial'[d] \cup pages_full'[d]
        BY <1>7
  <2>2. CASE b \in held
        BY <2>1, <2>2, HeldFacts DEF IInv, BlocksPlaced
  <2>3. CASE PageOf(b.adr) = page /\ b.cls = c
        BY <1>1, <2>1, <2>3
  <2> QED BY <1>5, <2>2, <2>3
<1> QED BY <1>5, <1>8, <1>9, <1>10 DEF IInv

(* A returned block leaves its page partial, or empty and in the pool.     *)
LEMMA FreeStep ==
  ASSUME IInv, NEW adr, IPC_4GHIF_data_ul_mm_buddy_free(adr)
  PROVE  IInv'
<1>1. PICK b \in held : b.adr = adr /\ held' = held \ {b}
      BY DEF IPC_4GHIF_data_ul_mm_buddy_free, Takes
<1> DEFINE page == PageOf(adr)
           c == b.cls
           left == sectors_used[page] \ Cover(b)
<1>2. /\ page \in Pages /\ c \in Class /\ Cover(b) \subseteq sectors_used[page]
      /\ SectorOf(adr) \in Cover(b) /\ Cover(b) \subseteq Sectors
      /\ Placed(SectorOf(adr), c)
      BY <1>1, HeldFacts
<1>3. /\ page \in pages_partial[c] \cup pages_full[c]
      /\ \A d \in Class : d # c => page \notin pages_partial[d] \cup pages_full[d]
      /\ page \notin pool
      BY <1>1, <1>2 DEF IInv, BlocksPlaced, BitFieldsAgree
<1>4. FreedAs(page) = c
      BY <1>1, FreedAsClass
<1>5. left # Sectors /\ left \subseteq Sectors
      BY <1>2 DEF IInv, TypeOK
<1> HIDE DEF page, c, left
<1>6. /\ sectors_used' = [sectors_used EXCEPT ![page] = left]
      /\ pages_partial' \in [Class -> SUBSET Pages]
      /\ pages_full' \in [Class -> SUBSET Pages]
      /\ pool' = IF left = {} THEN pool \cup {page} ELSE pool
      /\ \A d \in Class : d # c => /\ pages_partial'[d] = pages_partial[d]
                                   /\ pages_full'[d] = pages_full[d]
      /\ pages_full'[c] = pages_full[c] \ {page}
      /\ pages_partial'[c] = IF left = {} THEN pages_partial[c] \ {page}
                                          ELSE pages_partial[c] \cup {page}
      /\ c = "8k" => left = {}
  <2>1. CASE c = "8k"
    <3>1. free_8k(page)
          BY <1>4, <2>1 DEF IPC_4GHIF_data_ul_mm_buddy_free, page
    <3>2. left = {}
      <4>1. SectorOf(adr) = 0
            BY <1>2, <2>1, SectorsInFacts DEF Placed
      <4>2. Cover(b) = Sectors
            BY <1>1, <1>2, <2>1, <4>1, FirstBlock DEF Cover, c
      <4> QED BY <1>2, <4>2 DEF left, IInv, TypeOK
    <3>3. pages_partial["8k"] = {}
          BY DEF IInv, BitFieldsAgree
    <3> QED BY <1>2, <2>1, <3>1, <3>2, <3>3 DEF free_8k, IInv, TypeOK
  <2>2. CASE c # "8k"
    <3>1. free_small(page, SectorOf(adr), c)
          BY <1>4, <2>2 DEF IPC_4GHIF_data_ul_mm_buddy_free, page
    <3>2. Left(page, SectorOf(adr), c) = left
          BY <1>1 DEF Left, left, Cover, c
    <3>3. /\ sectors_used' = [sectors_used EXCEPT ![page] = left]
          /\ pool' = IF left = {} THEN pool \cup {page} ELSE pool
          BY <3>1, <3>2 DEF free_small
    <3>4. CASE sectors_used[page] = Sectors
      <4>1. /\ pages_full' = [pages_full EXCEPT ![c] = @ \ {page}]
            /\ pages_partial' = [pages_partial EXCEPT ![c] =
                 IF left = {} THEN (pages_partial[c] \cup {page}) \ {page}
                              ELSE pages_partial[c] \cup {page}]
            BY <3>1, <3>2, <3>4 DEF free_small
      <4> QED BY <1>2, <2>2, <3>3, <4>1 DEF IInv, TypeOK
    <3>5. CASE sectors_used[page] # Sectors
      <4>1. /\ pages_full' = pages_full
            /\ pages_partial' = [pages_partial EXCEPT ![c] =
                 IF left = {} THEN pages_partial[c] \ {page} ELSE pages_partial[c]]
            BY <3>1, <3>2, <3>5 DEF free_small
      <4>2. page \notin pages_full[c] /\ page \in pages_partial[c]
            BY <1>2, <1>3, <3>5 DEF IInv, BitFieldsAgree
      <4> QED BY <1>2, <2>2, <3>3, <4>1, <4>2 DEF IInv, TypeOK
    <3> QED BY <3>4, <3>5
  <2> QED BY <2>1, <2>2
<1>7. sectors_used' = [sectors_used EXCEPT ![PageOf(b.adr)] = @ \ Cover(b)]
      BY <1>1, <1>2, <1>6 DEF IInv, TypeOK, page, left
<1>8. /\ sectors_used' \in [Pages -> SUBSET Sectors]
      /\ SectorsMatchHeld' /\ BlocksApart'
      /\ \A d \in held' : /\ PageOf(d.adr) = page => d.cls = c
                          /\ sectors_used'[PageOf(d.adr)] # {}
      BY <1>1, <1>7, DropBlock DEF page, c
<1>9. /\ sectors_used'[page] = left
      /\ \A p \in Pages : p # page => sectors_used'[p] = sectors_used[p]
      BY <1>2, <1>6 DEF IInv, TypeOK
<1>10. TypeOK'
  <2>1. pool' \subseteq Pages
        BY <1>2, <1>6 DEF IInv, TypeOK
  <2> QED BY <1>1, <1>6, <1>8, <2>1 DEF IInv, TypeOK
<1>11. BitFieldsAgree'
  <2>1. \A p \in Pages : p # page => SameBits(p)
        BY <1>2, <1>6, <1>9 DEF SameBits
  <2>2. BitsOfClass(page, c)
        BY <1>2, <1>3, <1>5, <1>6, <1>9 DEF BitsOfClass
  <2> QED BY <1>2, <1>10, <2>1, <2>2, OnePage
<1>12. BlocksPlaced'
  <2> SUFFICES ASSUME NEW d \in held'
               PROVE  /\ PageOf(d.adr) \in pages_partial'[d.cls] \cup pages_full'[d.cls]
                      /\ Placed(SectorOf(d.adr), d.cls)
      BY DEF BlocksPlaced
  <2>1. /\ d \in held /\ d.cls \in Class /\ PageOf(d.adr) \in Pages
        /\ Placed(SectorOf(d.adr), d.cls)
        /\ PageOf(d.adr) \in pages_partial[d.cls] \cup pages_full[d.cls]
        BY <1>1, HeldFacts DEF IInv, BlocksPlaced
  <2>2. CASE PageOf(d.adr) = page
        BY <1>6, <1>8, <1>9, <2>1, <2>2
  <2>3. CASE PageOf(d.adr) # page
        BY <1>6, <2>1, <2>3
  <2> QED BY <2>1, <2>2, <2>3
<1> QED BY <1>8, <1>10, <1>11, <1>12 DEF IInv

LEMMA NextIInv == IInv /\ [Next]_vars => IInv'
<1> SUFFICES ASSUME IInv, [Next]_vars PROVE IInv'
    OBVIOUS
<1>1. CASE UNCHANGED <<pool, pages_partial, pages_full, sectors_used, held>>
      BY <1>1 DEF IInv, TypeOK, BitFieldsAgree, SectorsMatchHeld, BlocksPlaced,
         BlocksApart, Cover
<1>2. ASSUME NEW size, IPC_4GHIF_data_ul_mm_buddy_alloc(size)
      PROVE  IInv'
  <2>1. CASE allocate_8k(size)
        BY <2>1, Alloc8kStep
  <2>2. CASE BlockFor(size) # "8k" /\ allocate_small(size, BlockFor(size))
    <3> DEFINE c == BlockFor(size)
    <3>1. c \in Class /\ c # "8k"
          BY <2>2 DEF BlockFor, Class
    <3> HIDE DEF c
    <3>2. CASE NoSpace(size)
          BY <1>1, <3>2 DEF NoSpace
    <3> QED BY <2>2, <3>1, <3>2, NewPageStep, PartialPageStep DEF allocate_small, c
  <2> QED BY <1>2, <2>1, <2>2 DEF IPC_4GHIF_data_ul_mm_buddy_alloc
<1> QED BY <1>1, <1>2, FreeStep DEF Next, vars

(* The inductive invariant holds in every reachable state.                 *)
THEOREM BuddyInvariant == Spec => []IInv
BY InitIInv, NextIInv, PTL DEF Spec

(* The type invariant: no bit field has a bit beyond the pages, no sector  *)
(* word one beyond the sectors, and every block given to submit_ul lies in *)
(* the shared memory.                                                      *)
THEOREM BuddyTypeCorrect == Spec => []TypeOK
<1>1. IInv => TypeOK
      BY DEF IInv
<1> QED BY <1>1, BuddyInvariant, PTL

(* allocate_* and free_* leave the six bit fields a partition of the pages *)
(* that agrees with the sector words.                                      *)
THEOREM BitFieldsConsistent == Spec => []BitFieldsAgree
<1>1. IInv => BitFieldsAgree
      BY DEF IInv
<1> QED BY <1>1, BuddyInvariant, PTL

(* The sectors marked used are the sectors of the blocks in use.           *)
THEOREM NoSectorLost == Spec => []SectorsMatchHeld
<1>1. IInv => SectorsMatchHeld
      BY DEF IInv
<1> QED BY <1>1, BuddyInvariant, PTL

(* No panic of the allocator is reachable, and buddy_free finds the class  *)
(* of every block from its page.                                           *)
THEOREM BuddyNeverPanics == Spec => []NoPanic
<1>1. IInv => NoPanic
  <2> SUFFICES ASSUME IInv PROVE NoPanic
      OBVIOUS
  <2>1. ASSUME NEW c \in Class PROVE ~AllocPanics(c)
        BY DEF AllocPanics, IInv, TypeOK, BitFieldsAgree
  <2>2. ASSUME NEW b \in held
        PROVE  ~FreePanics(b.adr) /\ FreedAs(PageOf(b.adr)) = b.cls
    <3>1. /\ PageOf(b.adr) \in Pages /\ FreedAs(PageOf(b.adr)) = b.cls
          /\ SectorOf(b.adr) \in sectors_used[PageOf(b.adr)]
          /\ Placed(SectorOf(b.adr), b.cls)
          BY HeldFacts, FreedAsClass
    <3>2. ASSUME b.cls = "2k" PROVE SectorOf(b.adr) % SECTORS_2K = 0
      <4> DEFINE n == SECTORS_2K
      <4>1. n \in Nat /\ 0 < n /\ SectorsIn(b.cls) = n
            BY <3>2, SectorsInFacts
      <4>2. PICK k \in Nat : SectorOf(b.adr) = k * n
            BY <3>1, <4>1 DEF Placed
      <4> HIDE DEF n
      <4>3. (n * k + 0) % n = 0
            BY <4>1, <4>2, Remainder, Zenon
      <4>4. n * k + 0 = k * n
            BY <4>1, <4>2
      <4> QED BY <4>2, <4>3, <4>4 DEF n
    <3> QED BY <3>1, <3>2 DEF FreePanics
  <2> QED BY <2>1, <2>2 DEF NoPanic
<1> QED BY <1>1, BuddyInvariant, PTL

----------------------------------------------------------------------------
(* The addresses a block covers are those of its sectors in its page, ...  *)
LEMMA SpanFacts ==
  ASSUME NEW p \in Pages, NEW c \in Class, NEW s, Placed(s, c)
  PROVE  \A x : x \in Abs!Span(Adr(p, s), c) <=> \E t \in Mask(s, c) : x = Adr(p, t)
<1> DEFINE base == p * MM_NB_SECTOR_BY_PAGE
           n == SectorsIn(c)
<1>1. base \in Nat /\ s \in Nat /\ n \in Nat
      BY BuddyAssumption, SectorsInFacts DEF Pages, Placed
<1>2. Abs!Span(Adr(p, s), c) = (base + s) .. (base + s + n - 1)
      BY DEF Abs!Span, Abs!SectorsIn, SectorsIn, Adr
<1>3. Mask(s, c) = s .. (s + n - 1) /\ \A t : Adr(p, t) = base + t
      BY DEF Mask, Adr
<1> HIDE DEF base, n
<1>4. ASSUME NEW x \in (base + s) .. (base + s + n - 1)
      PROVE  x - base \in s .. (s + n - 1) /\ x = base + (x - base)
      BY <1>1
<1>5. ASSUME NEW t \in s .. (s + n - 1)
      PROVE  base + t \in (base + s) .. (base + s + n - 1)
      BY <1>1
<1> QED BY <1>2, <1>3, <1>4, <1>5

(* ... so a new block in free sectors overlaps none in use, ...            *)
LEMMA FreeFits ==
  ASSUME IInv, NEW p \in Pages, NEW c \in Class, NEW s, Placed(s, c),
         Mask(s, c) \cap sectors_used[p] = {}
  PROVE  Abs!Fits(p, s, c) /\ s \in 0 .. (MM_NB_SECTOR_BY_PAGE - 1)
<1>1. ASSUME NEW b \in held, NEW x \in Abs!Span(Adr(p, s), c),
             x \in Abs!Span(b.adr, b.cls)
      PROVE  FALSE
  <2>1. PICK t \in Mask(s, c) : x = Adr(p, t)
        BY <1>1, SpanFacts
  <2>2. /\ b.cls \in Class /\ PageOf(b.adr) \in Pages /\ Placed(SectorOf(b.adr), b.cls)
        /\ b.adr = Adr(PageOf(b.adr), SectorOf(b.adr))
        /\ Cover(b) \subseteq Sectors /\ Cover(b) \subseteq sectors_used[PageOf(b.adr)]
        BY HeldFacts
  <2>3. PICK u \in Cover(b) : x = Adr(PageOf(b.adr), u)
        BY <1>1, <2>2, SpanFacts DEF Cover
  <2>4. t \in Sectors /\ u \in Sectors
        BY <2>1, <2>2, <2>3, MaskFacts
  <2>5. p = PageOf(b.adr) /\ t = u
    <3> DEFINE q == PageOf(b.adr)
    <3>1. q \in Pages /\ x = Adr(q, u)
          BY <2>2, <2>3
    <3> HIDE DEF q
    <3>2. PageOf(x) = p /\ SectorOf(x) = t
          BY <2>1, <2>4, AdrFacts
    <3>3. PageOf(x) = q /\ SectorOf(x) = u
          BY <2>4, <3>1, AdrFacts
    <3> QED BY <3>2, <3>3 DEF q
  <2> QED BY <2>1, <2>2, <2>3, <2>5
<1>2. s \in 0 .. (MM_NB_SECTOR_BY_PAGE - SectorsIn(c))
      BY DEF Placed
<1>3. s \in 0 .. (MM_NB_SECTOR_BY_PAGE - 1)
      BY MaskFacts DEF Sectors
<1> QED BY <1>1, <1>2, <1>3 DEF Abs!Fits, Abs!Pages, Abs!SectorsIn, SectorsIn, Pages,
           Abs!Adr, Adr

(* ... and a block that starts in a used sector overlaps one.              *)
LEMMA UsedNotFits ==
  ASSUME IInv, NEW p \in Pages, NEW c \in Class, NEW s, Abs!Fits(p, s, c),
         NEW t \in sectors_used[p], t \in Mask(s, c)
  PROVE  FALSE
<1>1. PICK b \in held : PageOf(b.adr) = p /\ t \in Cover(b)
      BY UsedFacts
<1>2. Adr(p, t) \in Abs!Span(b.adr, b.cls)
      BY <1>1, HeldFacts, SpanFacts DEF Cover
<1>3. Adr(p, t) \in Abs!Span(Adr(p, s), c)
  <2> DEFINE base == p * MM_NB_SECTOR_BY_PAGE
             n == SectorsIn(c)
  <2>1. base \in Nat /\ n \in Nat /\ s \in Int /\ t \in Nat
        BY BuddyAssumption, SectorsInFacts
           DEF Pages, Abs!Fits, IInv, TypeOK, Sectors
  <2>2. t \in s .. (s + n - 1)
        BY DEF Mask
  <2> HIDE DEF base, n
  <2>3. base + t \in (base + s) .. (base + s + n - 1)
        BY <2>1, <2>2
  <2> QED BY <2>3 DEF Abs!Span, Abs!SectorsIn, SectorsIn, Adr, base, n
<1>4. Abs!Span(Adr(p, s), c) \cap Abs!Span(b.adr, b.cls) = {}
      BY <1>1 DEF Abs!Fits, Abs!Adr, Adr
<1> QED BY <1>2, <1>3, <1>4

(* The allocator chooses the class the store promises.                     *)
LEMMA ClassChosen ==
  ASSUME NEW size \in Nat
  PROVE  BlockFor(size) = Abs!ClassFor(size) /\ BlockFor(size) \in Class
<1>1. MM_SECTOR_SIZE \in Nat /\ SECTORS_2K \in Nat /\ SECTORS_2K >= 1
      BY BuddyAssumption
<1>2. SECTORS_2K * MM_SECTOR_SIZE \in Nat /\ MM_SECTOR_SIZE <= SECTORS_2K * MM_SECTOR_SIZE
      BY <1>1
<1> DEFINE limit == SECTORS_2K * MM_SECTOR_SIZE
<1> HIDE DEF limit
<1>3. limit \in Nat /\ MM_SECTOR_SIZE <= limit
      BY <1>2 DEF limit
<1>4. /\ BlockFor(size) = IF size > limit THEN "8k"
                          ELSE IF size > MM_SECTOR_SIZE THEN "2k" ELSE "512"
      /\ Abs!ClassFor(size) = IF size <= MM_SECTOR_SIZE THEN "512"
                              ELSE IF size <= limit THEN "2k" ELSE "8k"
      BY DEF BlockFor, Abs!ClassFor, limit
<1> QED BY <1>1, <1>3, <1>4 DEF Class

(* A block given out is one of the store's choices.                        *)
LEMMA GivesRefines ==
  ASSUME IInv, NEW size \in Nat, NEW p \in Pages, NEW s, Placed(s, BlockFor(size)),
         Mask(s, BlockFor(size)) \cap sectors_used[p] = {},
         Gives(size, BlockFor(size), p, s)
  PROVE  Abs!BSAlloc(size)
<1> DEFINE c == BlockFor(size)
<1>1. c \in Class /\ c = Abs!ClassFor(size)
      BY ClassChosen
<1> HIDE DEF c
<1>2. Abs!Fits(p, s, c) /\ s \in 0 .. (MM_NB_SECTOR_BY_PAGE - 1)
      BY <1>1, FreeFits DEF c
<1>3. /\ held' = held \cup {[adr |-> Adr(p, s), cls |-> c]}
      /\ ret' = [call |-> "alloc", size |-> size, adr |-> Adr(p, s)]
      BY DEF Gives, c
<1>4. p \in Abs!Pages /\ Abs!Adr(p, s) = Adr(p, s)
      BY DEF Abs!Pages, Pages, Abs!Adr, Adr
<1> QED BY <1>1, <1>2, <1>3, <1>4 DEF Abs!BSAlloc

(* A request is refused only when no page has room for its class.          *)
LEMMA RefusalRefines ==
  ASSUME IInv, NEW size \in Nat, NoSpace(size), pool = {},
         pages_partial[BlockFor(size)] = {}
  PROVE  Abs!BSRefuse(size)
<1> DEFINE c == BlockFor(size)
<1>1. c \in Class /\ c = Abs!ClassFor(size)
      BY ClassChosen
<1> HIDE DEF c
<1>2. ASSUME NEW p \in Pages, Abs!HasRoom(p, c) PROVE FALSE
  <2>1. PICK s \in 0 .. (MM_NB_SECTOR_BY_PAGE - 1) : Abs!Fits(p, s, c)
        BY <1>2 DEF Abs!HasRoom
  <2>2. /\ s \in Sectors /\ s \in 0 .. (MM_NB_SECTOR_BY_PAGE - SectorsIn(c))
        BY <2>1 DEF Abs!Fits, Abs!SectorsIn, SectorsIn, Sectors
  <2>3. s \in Mask(s, c)
        BY <1>1, <2>2, SectorsInFacts DEF Mask
  <2>4. PICK t \in sectors_used[p] : TRUE
        BY DEF IInv, BitFieldsAgree
  <2>5. PICK b \in held : /\ PageOf(b.adr) = p /\ t \in Cover(b)
                          /\ p \in pages_partial[b.cls] \cup pages_full[b.cls]
        BY <2>4, UsedFacts
  <2>6. b.cls = c
    <3>1. b.adr = Adr(p, SectorOf(b.adr)) /\ SectorOf(b.adr) \in Sectors
          BY <2>5, HeldFacts
    <3>2. b.adr \in Abs!Adr(p, 0) .. Abs!Adr(p, MM_NB_SECTOR_BY_PAGE - 1)
      <4> DEFINE base == p * MM_NB_SECTOR_BY_PAGE
                 u == SectorOf(b.adr)
      <4>1. base \in Nat /\ u \in 0 .. (MM_NB_SECTOR_BY_PAGE - 1)
            BY <3>1, BuddyAssumption DEF Pages, Sectors
      <4>2. b.adr = base + u
            BY <3>1 DEF Adr
      <4> HIDE DEF base, u
      <4>3. base + u \in (base + 0) .. (base + (MM_NB_SECTOR_BY_PAGE - 1))
            BY <4>1, BuddyAssumption
      <4> QED BY <4>2, <4>3 DEF Abs!Adr, base
    <3> QED BY <1>2, <3>2 DEF Abs!HasRoom
  <2>7. p \in pages_full[c]
        BY <2>5, <2>6 DEF c
  <2>8. sectors_used[p] = Sectors
        BY <1>1, <2>7 DEF IInv, BitFieldsAgree
  <2> QED BY <1>1, <2>1, <2>2, <2>3, <2>8, UsedNotFits
<1>3. ret' = [call |-> "alloc", size |-> size, adr |-> -1] /\ UNCHANGED held
      BY DEF NoSpace
<1> QED BY <1>1, <1>2, <1>3 DEF Abs!BSRefuse, Abs!Pages, Pages

LEMMA StepRefines == IInv /\ [Next]_vars => [Abs!BSNext]_(Abs!storeVars)
<1> SUFFICES ASSUME IInv, [Next]_vars PROVE [Abs!BSNext]_(Abs!storeVars)
    OBVIOUS
<1>1. ASSUME NEW size \in 1 .. (MM_NB_SECTOR_BY_PAGE * MM_SECTOR_SIZE),
             IPC_4GHIF_data_ul_mm_buddy_alloc(size)
      PROVE  Abs!BSAlloc(size) \/ Abs!BSRefuse(size)
  <2> DEFINE c == BlockFor(size)
  <2>1. size \in Nat
        OBVIOUS
  <2>2. c \in Class
        BY <2>1, ClassChosen
  <2>3. CASE c = "8k" /\ allocate_8k(size)
    <3>1. CASE pool = {} /\ NoSpace(size)
      <4>1. pages_partial[c] = {}
            BY <2>3 DEF IInv, BitFieldsAgree
      <4> QED BY <2>1, <3>1, <4>1, RefusalRefines
    <3>2. CASE \E page \in pool : Gives(size, "8k", page, 0)
      <4>1. PICK page \in pool : Gives(size, c, page, 0)
            BY <2>3, <3>2
      <4>2. page \in Pages /\ sectors_used[page] = {}
            BY DEF IInv, TypeOK, BitFieldsAgree
      <4>3. Placed(0, c)
            BY <2>2, FirstBlock
      <4> QED BY <2>1, <4>1, <4>2, <4>3, GivesRefines
    <3> QED BY <2>3, <3>1, <3>2 DEF allocate_8k
  <2>4. CASE c # "8k" /\ allocate_small(size, c)
    <3>1. CASE AllocInPartialPage(size, c)
      <4>1. PICK page \in pages_partial[c], sector \in Sectors :
              /\ IsFirst(sector, Sectors \ sectors_used[page])
              /\ Gives(size, c, page, sector)
            BY <3>1 DEF AllocInPartialPage
      <4>2. page \in Pages
            BY <2>2 DEF IInv, TypeOK
      <4>3. Placed(sector, c) /\ Mask(sector, c) \cap sectors_used[page] = {}
            BY <2>2, <2>4, <4>1, FreeSector
      <4> QED BY <2>1, <4>1, <4>2, <4>3, GivesRefines
    <3>2. CASE AllocInNewPage(size, c)
      <4>1. PICK page \in pool : Gives(size, c, page, 0)
            BY <3>2 DEF AllocInNewPage
      <4>2. page \in Pages /\ sectors_used[page] = {}
            BY DEF IInv, TypeOK, BitFieldsAgree
      <4>3. Placed(0, c)
            BY <2>2, FirstBlock
      <4> QED BY <2>1, <4>1, <4>2, <4>3, GivesRefines
    <3>3. CASE pages_partial[c] = {} /\ pool = {} /\ NoSpace(size)
          BY <2>1, <3>3, RefusalRefines
    <3> QED BY <2>4, <3>1, <3>2, <3>3 DEF allocate_small
  <2> QED BY <1>1, <2>3, <2>4 DEF IPC_4GHIF_data_ul_mm_buddy_alloc
<1>2. ASSUME NEW adr, IPC_4GHIF_data_ul_mm_buddy_free(adr)
      PROVE  Abs!BSFree
      BY <1>2 DEF IPC_4GHIF_data_ul_mm_buddy_free, Takes, Abs!BSFree
<1>3. CASE UNCHANGED vars
      BY <1>3 DEF vars, Abs!storeVars
<1> QED BY <1>1, <1>2, <1>3 DEF Next, Abs!BSNext

(* The allocator implements the block store: blocks of the right class     *)
(* that never overlap, refused only when no page has room.                 *)
THEOREM ImplementsBlockStore == Spec => RefinesBlockStore
<1>1. IPC_4GHIF_data_ul_mm_buddy_init => Abs!BSInit
      BY DEF IPC_4GHIF_data_ul_mm_buddy_init, Abs!BSInit
<1> QED BY <1>1, StepRefines, BuddyInvariant, PTL
           DEF Spec, RefinesBlockStore, Abs!BSSpec
==============================================================================
