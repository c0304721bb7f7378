---------------------------- MODULE PtrFifoProofs ----------------------------
(***************************************************************************)
(* Proofs about ptr_fifo.c for rings of every size and any set of pointers *)
(***************************************************************************)
EXTENDS PtrFifo, SequenceTheorems, TLAPS

(* Index arithmetic of the ring: an index is less than twice the size.     *)
LEMMA WrapOnce ==
  ASSUME NEW n \in Nat \ {0}, NEW x \in 0 .. (2 * n - 1)
  PROVE  Wrap(x, n) = IF x < n THEN x ELSE x - n
BY DEF Wrap

(* The inductive invariant: the typing of the ring and the agreement of    *)
(* the element count with the indices, which need each other.              *)
IInv == TypeOK /\ CountMatchesIndices

LEMMA InitIInv == Init => IInv
BY PtrFifoAssumption DEF Init, Slots, alive, IInv, TypeOK, CountMatchesIndices

(* Every call of the API keeps the invariant.                              *)
LEMMA StepIInv == IInv /\ [Next]_vars => IInv'
<1> USE PtrFifoAssumption DEF IInv
<1> SUFFICES ASSUME IInv, [Next]_vars PROVE IInv'
    OBVIOUS
<1>a. CASE UNCHANGED vars
      BY <1>a DEF vars, TypeOK, CountMatchesIndices, alive, Slots
<1>b. CASE UNCHANGED ring
      BY <1>b DEF ring, TypeOK, CountMatchesIndices, alive, Slots
<1>1. ASSUME NEW sz \in 0 .. MaxSize, ptr_fifo_alloc(sz), ~UNCHANGED ring
      PROVE  IInv'
  <2>0. Wrap(0 + 0, sz + 1) = 0
        BY WrapOnce
  <2>1. /\ sz >= 2 /\ fifo_size' = sz + 1
        /\ pfifo_data' = [i \in 0 .. sz |-> NoPtr]
        /\ tail' = 0 /\ head' = 0 /\ num_elements' = 0
        BY <1>1 DEF ptr_fifo_alloc
  <2>2. TypeOK'
        BY <2>1 DEF TypeOK, alive, Slots
  <2>3. CountMatchesIndices'
        BY <2>1, <2>0 DEF CountMatchesIndices, alive
  <2> QED BY <2>2, <2>3
<1>2. CASE ptr_fifo_free
      BY <1>2 DEF ptr_fifo_free, TypeOK, CountMatchesIndices, alive, Slots
<1>3. ASSUME NEW p \in Ptr, ptr_fifo_insert(p), ~UNCHANGED ring
      PROVE  IInv'
  <2> DEFINE t == Wrap(tail + 1, fifo_size)
  <2>1. /\ alive /\ t # head /\ tail' = t
        /\ pfifo_data' = [pfifo_data EXCEPT ![t] = p]
        /\ num_elements' = num_elements + 1
        /\ fifo_size' = fifo_size /\ head' = head
        BY <1>3 DEF Full, ptr_fifo_insert, ring
  <2>2. /\ fifo_size \in 3 .. (MaxSize + 1) /\ num_elements \in 0 .. MaxSize
        /\ tail \in 0 .. (fifo_size - 1) /\ head \in 0 .. (fifo_size - 1)
        /\ num_elements <= fifo_size - 1
        /\ tail = Wrap(head + num_elements, fifo_size)
        BY <2>1 DEF TypeOK, CountMatchesIndices, alive, Slots
  <2>3. /\ tail = IF head + num_elements < fifo_size
                  THEN head + num_elements ELSE head + num_elements - fifo_size
        /\ t = IF tail + 1 < fifo_size THEN tail + 1 ELSE tail + 1 - fifo_size
    <3>1. /\ fifo_size \in Nat \ {0}
          /\ tail + 1 \in 0 .. (2 * fifo_size - 1)
          /\ head + num_elements \in 0 .. (2 * fifo_size - 1)
          BY <2>2
    <3> QED BY <3>1, <2>2, WrapOnce
  <2>4. num_elements + 1 <= fifo_size - 1
        BY <2>1, <2>2, <2>3
  <2>5. t = Wrap(head + (num_elements + 1), fifo_size)
    <3>1. /\ fifo_size \in Nat \ {0}
          /\ head + (num_elements + 1) \in 0 .. (2 * fifo_size - 1)
          BY <2>2, <2>4
    <3>2. Wrap(head + (num_elements + 1), fifo_size)
            = IF head + (num_elements + 1) < fifo_size
              THEN head + (num_elements + 1)
              ELSE head + (num_elements + 1) - fifo_size
          BY <3>1, <2>2, WrapOnce
    <3> QED BY <3>2, <2>2, <2>3, <2>4
  <2>6. TypeOK'
    <3>1. t \in 0 .. (fifo_size - 1)
          BY <2>2, <2>3
    <3> HIDE DEF t
    <3>2. pfifo_data' \in [Slots' -> Ptr \cup {NoPtr}]
          BY <2>1, <3>1 DEF TypeOK, Slots
    <3> QED BY <3>1, <3>2, <2>1, <2>2, <2>4 DEF TypeOK, alive, Slots
  <2>7. CountMatchesIndices'
        BY <2>1, <2>4, <2>5 DEF CountMatchesIndices, alive
  <2> QED BY <2>6, <2>7
<1>4. ASSUME ptr_fifo_remove, ~UNCHANGED ring
      PROVE  IInv'
  <2> DEFINE h == Wrap(head + 1, fifo_size)
  <2>1. /\ alive /\ head # tail /\ head' = h
        /\ num_elements' = num_elements - 1
        /\ fifo_size' = fifo_size /\ tail' = tail /\ pfifo_data' = pfifo_data
        BY <1>4 DEF ptr_fifo_remove, ring, IsEmpty
  <2>2. /\ fifo_size \in 3 .. (MaxSize + 1) /\ num_elements \in 0 .. MaxSize
        /\ tail \in 0 .. (fifo_size - 1) /\ head \in 0 .. (fifo_size - 1)
        /\ num_elements <= fifo_size - 1
        /\ tail = Wrap(head + num_elements, fifo_size)
        BY <2>1 DEF TypeOK, CountMatchesIndices, alive, Slots
  <2>3. /\ tail = IF head + num_elements < fifo_size
                  THEN head + num_elements ELSE head + num_elements - fifo_size
        /\ h = IF head + 1 < fifo_size THEN head + 1 ELSE head + 1 - fifo_size
    <3>1. /\ fifo_size \in Nat \ {0}
          /\ head + 1 \in 0 .. (2 * fifo_size - 1)
          /\ head + num_elements \in 0 .. (2 * fifo_size - 1)
          BY <2>2
    <3> QED BY <3>1, <2>2, WrapOnce
  <2>4. num_elements >= 1 /\ h \in 0 .. (fifo_size - 1)
        BY <2>1, <2>2, <2>3
  <2>5. Wrap(h + (num_elements - 1), fifo_size)
           = IF h + (num_elements - 1) < fifo_size
             THEN h + (num_elements - 1)
             ELSE h + (num_elements - 1) - fifo_size
    <3> HIDE DEF h
    <3>1. /\ fifo_size \in Nat \ {0}
          /\ h + (num_elements - 1) \in 0 .. (2 * fifo_size - 1)
          BY <2>2, <2>4
    <3> QED BY <3>1, <2>2, <2>4, WrapOnce
  <2>6. tail = Wrap(h + (num_elements - 1), fifo_size)
    <3> HIDE DEF h
    <3> QED BY <2>2, <2>3, <2>4, <2>5
  <2> HIDE DEF h
  <2>7. TypeOK'
        BY <2>1, <2>2, <2>4 DEF TypeOK, alive, Slots
  <2>8. CountMatchesIndices'
        BY <2>1, <2>2, <2>6 DEF CountMatchesIndices, alive
  <2> QED BY <2>7, <2>8
<1>5. ASSUME \/ ptr_fifo_object_invalid \/ ptr_fifo_is_empty
             \/ ptr_fifo_num_elements \/ ptr_fifo_free_avail \/ ptr_fifo_peek
             \/ \E k \in 0 .. MaxSize : ptr_fifo_peek_offset(k)
      PROVE  UNCHANGED ring
      BY <1>5 DEF ptr_fifo_object_invalid, ptr_fifo_is_empty, ptr_fifo_peek,
         ptr_fifo_num_elements, ptr_fifo_free_avail, ptr_fifo_peek_offset
<1> QED BY <1>a, <1>b, <1>1, <1>2, <1>3, <1>4, <1>5 DEF Next

(* No call of ptr_fifo.c ever indexes outside the slots it allocated, for  *)
(* rings of every size.                                                    *)
THEOREM TypeCorrect == Spec => []TypeOK
<1>1. IInv => TypeOK
      BY DEF IInv
<1> QED BY <1>1, InitIInv, StepIInv, PTL DEF Spec

(* The count that peek_offset and free_avail trust never drifts from the   *)
(* indices that insert and remove trust.                                   *)
THEOREM CountCorrect == Spec => []CountMatchesIndices
<1>1. IInv => CountMatchesIndices
      BY DEF IInv
<1> QED BY <1>1, InitIInv, StepIInv, PTL DEF Spec

----------------------------------------------------------------------------
(* The refinement.  Slot(i) is where the i-th queued pointer is kept.      *)
Slot(i) == Wrap(head + i, fifo_size)

Cell == Ptr \cup {NoPtr}

(* What the invariant says of a live ring, in plain arithmetic.            *)
LEMMA LiveRing ==
  ASSUME IInv, alive
  PROVE  /\ fifo_size \in Nat /\ fifo_size >= 3 /\ num_elements \in Nat
         /\ tail \in 0 .. (fifo_size - 1) /\ head \in 0 .. (fifo_size - 1)
         /\ num_elements <= fifo_size - 1
         /\ tail = Slot(num_elements)
         /\ pfifo_data \in [0 .. (fifo_size - 1) -> Cell]
         /\ \A i \in 0 .. (fifo_size - 1) :
              Slot(i) = IF head + i < fifo_size THEN head + i
                                                ELSE head + i - fifo_size
<1> USE PtrFifoAssumption
<1>1. /\ fifo_size \in Nat /\ fifo_size >= 3 /\ num_elements \in Nat
      /\ tail \in 0 .. (fifo_size - 1) /\ head \in 0 .. (fifo_size - 1)
      /\ num_elements <= fifo_size - 1
      /\ tail = Slot(num_elements)
      /\ pfifo_data \in [0 .. (fifo_size - 1) -> Cell]
      BY DEF IInv, TypeOK, CountMatchesIndices, alive, Slots, Slot, Cell
<1>2. ASSUME NEW i \in 0 .. (fifo_size - 1)
      PROVE  Slot(i) = IF head + i < fifo_size THEN head + i
                                               ELSE head + i - fifo_size
  <2>1. fifo_size \in Nat \ {0} /\ head + i \in 0 .. (2 * fifo_size - 1)
        BY <1>1
  <2> QED BY <2>1, <1>1, WrapOnce DEF Slot
<1> QED BY <1>1, <1>2

(* The queue that a ring stands for, as a sequence.                        *)
LEMMA ContentsSeq ==
  ASSUME IInv
  PROVE  /\ Contents \in Seq(Cell)
         /\ Len(Contents) = num_elements
         /\ num_elements \in Nat
         /\ \A i \in 1 .. num_elements : Contents[i] = pfifo_data[Slot(i)]
<1>0. num_elements \in Nat
      BY PtrFifoAssumption DEF IInv, TypeOK
<1>1. \A i \in 1 .. num_elements : pfifo_data[Slot(i)] \in Cell
  <2>1. CASE alive
    <3> SUFFICES ASSUME NEW i \in 1 .. num_elements
                 PROVE  pfifo_data[Slot(i)] \in Cell
        OBVIOUS
    <3>1. i \in 0 .. (fifo_size - 1)
          BY <2>1, <1>0, LiveRing
    <3>a. /\ fifo_size \in Nat /\ head \in 0 .. (fifo_size - 1)
          /\ \A j \in 0 .. (fifo_size - 1) :
               Slot(j) = IF head + j < fifo_size THEN head + j
                                                 ELSE head + j - fifo_size
          BY <2>1, LiveRing
    <3>2. Slot(i) \in 0 .. (fifo_size - 1)
          BY <3>1, <3>a
    <3> QED BY <3>2, <2>1, LiveRing
  <2>2. CASE ~alive
        BY <2>2 DEF IInv, CountMatchesIndices
  <2> QED BY <2>1, <2>2
<1>2. Contents = [i \in 1 .. num_elements |-> pfifo_data[Slot(i)]]
      BY DEF Contents, Slot
<1>3. Contents \in [1 .. num_elements -> Cell]
      BY <1>1, <1>2
<1>4. Contents \in Seq(Cell)
      BY <1>3, <1>0, SeqDef
<1>5. Len(Contents) = num_elements
      BY <1>3, <1>4, <1>0, LenProperties
<1> QED BY <1>0, <1>2, <1>4, <1>5

(* Inserting below the user's size appends to the queue; the slot written  *)
(* is none of the slots in use.                                            *)
LEMMA InsertAppends ==
  ASSUME IInv, NEW p \in Ptr, ptr_fifo_insert(p),
         Wrap(tail + 1, fifo_size) # head
  PROVE  num_elements < fifo_size - 1 /\ Contents' = Append(Contents, p)
<1>1. /\ alive /\ alive' /\ tail' = Wrap(tail + 1, fifo_size) /\ tail' # head
      /\ pfifo_data' = [pfifo_data EXCEPT ![tail'] = p]
      /\ num_elements' = num_elements + 1
      /\ fifo_size' = fifo_size /\ head' = head
      BY DEF Full, ptr_fifo_insert, alive
<1> DEFINE n == num_elements
<1>2. /\ fifo_size \in Nat /\ fifo_size >= 3 /\ n \in Nat
      /\ tail \in 0 .. (fifo_size - 1) /\ head \in 0 .. (fifo_size - 1)
      /\ n <= fifo_size - 1 /\ tail = Slot(n)
      /\ pfifo_data \in [0 .. (fifo_size - 1) -> Cell]
      BY <1>1, LiveRing
<1>3. \A i \in 0 .. (fifo_size - 1) :
        Slot(i) = IF head + i < fifo_size THEN head + i
                                          ELSE head + i - fifo_size
      BY <1>1, LiveRing
<1>4. tail' = IF tail + 1 < fifo_size THEN tail + 1 ELSE tail + 1 - fifo_size
  <2>1. fifo_size \in Nat \ {0} /\ tail + 1 \in 0 .. (2 * fifo_size - 1)
        BY <1>2
  <2> QED BY <1>1, <1>2, <2>1, WrapOnce
<1>5. tail = IF head + n < fifo_size THEN head + n ELSE head + n - fifo_size
      BY <1>2, <1>3
<1>6. n < fifo_size - 1
      BY <1>1, <1>2, <1>4, <1>5
<1>7. tail' = Slot(n + 1)
      BY <1>2, <1>3, <1>4, <1>5, <1>6
<1>8. Contents' = [i \in 1 .. (n + 1) |-> pfifo_data'[Slot(i)]]
      BY <1>1 DEF Contents, Slot
<1>9. ASSUME NEW i \in 1 .. (n + 1)
      PROVE  pfifo_data'[Slot(i)] = Append(Contents, p)[i]
  <2>0. Contents \in Seq(Cell) /\ Len(Contents) = n /\ p \in Cell
        BY ContentsSeq DEF Cell
  <2>1. CASE i = n + 1
    <3>1. Append(Contents, p)[n + 1] = p
          BY <2>0, AppendProperties
    <3>2. tail' \in DOMAIN pfifo_data
          BY <1>2, <1>4
    <3> QED BY <2>1, <3>1, <3>2, <1>1, <1>2, <1>7
  <2>2. CASE i # n + 1
    <3>1. i \in 1 .. n /\ i \in 0 .. (fifo_size - 1)
          BY <2>2, <1>2
    <3>2. Slot(i) # tail' /\ Slot(i) \in DOMAIN pfifo_data
          BY <3>1, <1>2, <1>3, <1>4, <1>5, <1>6
    <3>3. pfifo_data'[Slot(i)] = pfifo_data[Slot(i)]
          BY <3>2, <1>1, <1>2
    <3>4. Append(Contents, p)[i] = Contents[i]
          BY <2>0, <3>1, AppendProperties
    <3> QED BY <3>1, <3>3, <3>4, ContentsSeq
  <2> QED BY <2>1, <2>2
<1>10. Append(Contents, p) = [i \in 1 .. (n + 1) |-> Append(Contents, p)[i]]
  <2>0. Contents \in Seq(Cell) /\ Len(Contents) = n /\ p \in Cell
        BY ContentsSeq DEF Cell
  <2>1. Append(Contents, p) \in Seq(Cell) /\ Len(Append(Contents, p)) = n + 1
        BY <2>0, AppendProperties
  <2> HIDE DEF n
  <2> QED BY <2>1, LenProperties
<1> QED BY <1>6, <1>8, <1>9, <1>10

(* Removing from a non-empty ring yields the head of the queue and leaves  *)
(* its tail.                                                               *)
LEMMA RemoveTakesHead ==
  ASSUME IInv, ptr_fifo_remove, ~IsEmpty
  PROVE  /\ Contents # << >>
         /\ pfifo_data[Wrap(head + 1, fifo_size)] = Head(Contents)
         /\ Contents' = Tail(Contents)
<1> DEFINE n == num_elements
           m == fifo_size
<1>1. /\ alive /\ head # tail /\ head' = Slot(1)
      /\ num_elements' = n - 1
      /\ fifo_size' = m /\ pfifo_data' = pfifo_data
      BY DEF ptr_fifo_remove, IsEmpty, Slot
<1>2. /\ m \in Nat /\ m >= 3 /\ n \in Nat
      /\ tail \in 0 .. (m - 1) /\ head \in 0 .. (m - 1)
      /\ n <= m - 1 /\ tail = Slot(n)
      BY <1>1, LiveRing
<1>3. \A i \in 0 .. (m - 1) :
        Slot(i) = IF head + i < m THEN head + i ELSE head + i - m
      BY <1>1, LiveRing
<1>4. n >= 1
      BY <1>1, <1>2, <1>3
<1>5. ASSUME NEW i \in 1 .. (n - 1)
      PROVE  Wrap(head' + i, m) = Slot(i + 1)
  <2>1. Slot(1) = IF head + 1 < m THEN head + 1 ELSE head + 1 - m
        BY <1>2, <1>3
  <2>2. i + 1 \in 0 .. (m - 1)
        BY <1>2
  <2>3. Slot(i + 1) = IF head + (i + 1) < m THEN head + (i + 1)
                                            ELSE head + (i + 1) - m
        BY <2>2, <1>3
  <2>4. head' = IF head + 1 < m THEN head + 1 ELSE head + 1 - m
        BY <2>1, <1>1
  <2>5. m \in Nat \ {0} /\ head' + i \in 0 .. (2 * m - 1)
        BY <2>4, <1>2
  <2>6. Wrap(head' + i, m) = IF head' + i < m THEN head' + i ELSE head' + i - m
        BY <2>4, <2>5, <1>2, WrapOnce
  <2> HIDE DEF n, m
  <2> QED BY <2>3, <2>4, <2>6, <1>2
<1>6. /\ Contents \in Seq(Cell) /\ Len(Contents) = n
      /\ \A i \in 1 .. n : Contents[i] = pfifo_data[Slot(i)]
      BY ContentsSeq
<1>7. Contents # << >>
      BY <1>6, <1>4, EmptySeq
<1>8. Head(Contents) = Contents[1] /\ Contents[1] = pfifo_data[Slot(1)]
      BY <1>6, <1>4, <1>2
<1>9. /\ Tail(Contents) \in Seq(Cell) /\ Len(Tail(Contents)) = n - 1
      /\ \A i \in 1 .. (n - 1) : Tail(Contents)[i] = Contents[i + 1]
      BY <1>6, <1>7, HeadTailProperties
<1>10. Contents' = [i \in 1 .. (n - 1) |-> pfifo_data[Wrap(head' + i, m)]]
      BY <1>1 DEF Contents
<1>11. ASSUME NEW i \in 1 .. (n - 1)
       PROVE  pfifo_data[Wrap(head' + i, m)] = Tail(Contents)[i]
  <2>1. i + 1 \in 1 .. n
        BY <1>2
  <2> QED BY <2>1, <1>5, <1>6, <1>9
<1>12. Tail(Contents) = [i \in 1 .. (n - 1) |-> Tail(Contents)[i]]
      BY <1>9, LenProperties
<1> QED BY <1>7, <1>8, <1>10, <1>11, <1>12 DEF Slot

(* Each call of ptr_fifo.c is a step of the abstract queue.                *)
LEMMA StepRefines ==
  ASSUME IInv, IInv', [Next]_vars
  PROVE  [Abs!ABNext]_<<Capacity, Contents, ret>>
<1> USE PtrFifoAssumption
<1>a. UNCHANGED ring => Contents' = Contents /\ Capacity' = Capacity
      BY DEF ring, Contents, Capacity, alive
<1>b. Len(Contents) = num_elements /\ num_elements \in Nat
      BY ContentsSeq
<1>c. Abs!live <=> alive
      BY DEF Abs!live, Capacity, alive, IInv, TypeOK
<1>d. alive => /\ fifo_size >= 3 /\ Capacity = fifo_size - 1
               /\ num_elements <= Capacity /\ fifo_size \in Nat
      BY LiveRing DEF Capacity
<1>e. IsEmpty /\ alive => num_elements = 0
  <2> SUFFICES ASSUME IsEmpty, alive PROVE num_elements = 0
      OBVIOUS
  <2>1. /\ fifo_size \in Nat /\ num_elements \in Nat
        /\ head \in 0 .. (fifo_size - 1)
        /\ num_elements \in 0 .. (fifo_size - 1) /\ tail = Slot(num_elements)
        BY LiveRing
  <2>2. tail = IF head + num_elements < fifo_size THEN head + num_elements
                                   ELSE head + num_elements - fifo_size
        BY <2>1, LiveRing
  <2> QED BY <2>1, <2>2 DEF IsEmpty
<1>f. Wrap(tail + 1, fifo_size) = head /\ alive => num_elements = Capacity
  <2> SUFFICES ASSUME Wrap(tail + 1, fifo_size) = head, alive
               PROVE  num_elements = Capacity
      OBVIOUS
  <2>1. /\ fifo_size \in Nat \ {0} /\ num_elements \in Nat
        /\ head \in 0 .. (fifo_size - 1) /\ tail \in 0 .. (fifo_size - 1)
        /\ num_elements \in 0 .. (fifo_size - 1) /\ tail = Slot(num_elements)
        BY LiveRing
  <2>2. tail = IF head + num_elements < fifo_size THEN head + num_elements
                                   ELSE head + num_elements - fifo_size
        BY <2>1, LiveRing
  <2>3. tail + 1 \in 0 .. (2 * fifo_size - 1)
        BY <2>1
  <2>4. head = IF tail + 1 < fifo_size THEN tail + 1 ELSE tail + 1 - fifo_size
        BY <2>1, <2>3, WrapOnce
  <2> QED BY <2>1, <2>2, <2>4, <1>d
<1>g. alive => Queued(0) = pfifo_data[Wrap(head + 1, fifo_size)]
  <2>1. alive => head + 1 + 0 = head + 1
        BY LiveRing
  <2> QED BY <2>1 DEF Queued
<1>1. ASSUME NEW sz \in 0 .. MaxSize, ptr_fifo_alloc(sz)
      PROVE  Abs!ABAlloc(sz)
  <2>1. CASE UNCHANGED ring
        BY <1>1, <2>1, <1>a, <1>c
           DEF ptr_fifo_alloc, ring, Abs!ABAlloc, Returns, Abs!Returns
  <2>2. CASE ~UNCHANGED ring
    <3>1. /\ ~alive /\ sz >= 2 /\ fifo_size' = sz + 1 /\ num_elements' = 0
          /\ Returns("NONE", NoPtr)
          BY <1>1, <2>2 DEF ptr_fifo_alloc
    <3>2. Capacity' = sz
          BY <3>1 DEF Capacity, alive
    <3>3. Contents' = << >>
          BY <3>1 DEF Contents
    <3> QED BY <3>1, <3>2, <3>3, <1>c DEF Abs!ABAlloc, Returns, Abs!Returns
  <2> QED BY <2>1, <2>2
<1>2. ASSUME ptr_fifo_free PROVE Abs!ABFree
  <2>1. alive /\ fifo_size' = 0 /\ num_elements' = 0 /\ Returns("NONE", NoPtr)
        BY <1>2 DEF ptr_fifo_free
  <2>2. Capacity' = 0 /\ Contents' = << >>
        BY <2>1 DEF Capacity, Contents, alive
  <2> QED BY <2>1, <2>2, <1>c DEF Abs!ABFree, Returns, Abs!Returns
<1>3. ASSUME ptr_fifo_object_invalid PROVE Abs!ABInvalid
      BY <1>3, <1>a, <1>c
         DEF ptr_fifo_object_invalid, Abs!ABInvalid, Returns, Abs!Returns
<1>4. ASSUME ptr_fifo_is_empty \/ ptr_fifo_num_elements \/ ptr_fifo_free_avail
      PROVE  Abs!ABQuery
  <2>1. alive /\ UNCHANGED ring
        BY <1>4 DEF ptr_fifo_is_empty, ptr_fifo_num_elements, ptr_fifo_free_avail
  <2>2. CASE ptr_fifo_is_empty
    <3>1. Contents = << >> <=> IsEmpty
      <4>1. Contents = << >> <=> num_elements = 0
            BY <1>b, ContentsSeq, EmptySeq
      <4>2. num_elements = 0 /\ alive => IsEmpty
            BY LiveRing DEF IsEmpty
      <4> QED BY <4>1, <4>2, <1>e, <2>1
    <3> QED BY <2>1, <2>2, <3>1, <1>a, <1>c
            DEF ptr_fifo_is_empty, Abs!ABQuery, Returns, Abs!Returns
  <2>3. CASE ptr_fifo_num_elements
        BY <2>1, <2>3, <1>a, <1>b, <1>c
           DEF ptr_fifo_num_elements, Abs!ABQuery, Returns, Abs!Returns
  <2>4. CASE ptr_fifo_free_avail
        BY <2>1, <2>4, <1>a, <1>b, <1>c, <1>d
           DEF ptr_fifo_free_avail, Abs!ABQuery, Returns, Abs!Returns
  <2> QED BY <1>4, <2>2, <2>3, <2>4
<1>5. ASSUME NEW p \in Ptr, ptr_fifo_insert(p)
      PROVE  Abs!ABInsert(p)
  <2>0. alive /\ fifo_size' = fifo_size /\ Capacity' = Capacity
        BY <1>5 DEF Full, ptr_fifo_insert, Capacity, alive
  <2>1. CASE Wrap(tail + 1, fifo_size) = head
    <3>1. UNCHANGED ring /\ Returns("FIFO_OVERFLOW", NoPtr)
          BY <1>5, <2>1 DEF Full, ptr_fifo_insert, ring
    <3> QED BY <2>0, <2>1, <3>1, <1>a, <1>b, <1>c, <1>f
            DEF Abs!ABInsert, Returns, Abs!Returns
  <2>2. CASE Wrap(tail + 1, fifo_size) # head
    <3>1. Returns("NONE", NoPtr)
          BY <1>5, <2>2 DEF Full, ptr_fifo_insert
    <3>2. num_elements < Capacity /\ Contents' = Append(Contents, p)
          BY <1>5, <2>0, <2>2, <1>d, InsertAppends
    <3> QED BY <2>0, <3>1, <3>2, <1>b, <1>c
            DEF Abs!ABInsert, Returns, Abs!Returns
  <2> QED BY <2>1, <2>2
<1>6. ASSUME ptr_fifo_remove PROVE Abs!ABRemove
  <2>0. alive /\ Capacity' = Capacity
        BY <1>6 DEF ptr_fifo_remove, Capacity, alive
  <2>1. CASE IsEmpty
    <3>1. UNCHANGED ring /\ Returns("FIFO_UNDERFLOW", NoPtr)
          BY <1>6, <2>1 DEF ptr_fifo_remove, ring
    <3>2. Contents = << >>
          BY <1>b, <1>e, <2>0, <2>1, ContentsSeq, EmptySeq
    <3> QED BY <2>0, <3>1, <3>2, <1>a, <1>c
            DEF Abs!ABRemove, Returns, Abs!Returns
  <2>2. CASE ~IsEmpty
    <3>1. Returns("NONE", pfifo_data[Wrap(head + 1, fifo_size)])
          BY <1>6, <2>0, <2>2, <1>g DEF ptr_fifo_remove
    <3> QED BY <2>0, <2>2, <3>1, <1>6, <1>c, RemoveTakesHead
            DEF Abs!ABRemove, Returns, Abs!Returns
  <2> QED BY <2>1, <2>2
<1>7. ASSUME NEW k \in 0 .. MaxSize, ptr_fifo_peek_offset(k)
      PROVE  Abs!ABPeek(k)
  <2>0. alive /\ UNCHANGED ring /\ k \in Nat
        BY <1>7 DEF ptr_fifo_peek_offset
  <2>1. CASE IsEmpty \/ k + 1 > num_elements
    <3>1. Returns("FIFO_UNDERFLOW", NoPtr) /\ k >= num_elements
          BY <1>7, <1>b, <1>e, <2>0, <2>1 DEF ptr_fifo_peek_offset
    <3> QED BY <2>0, <3>1, <1>a, <1>b, <1>c DEF Abs!ABPeek, Returns, Abs!Returns
  <2>2. CASE ~(IsEmpty \/ k + 1 > num_elements)
    <3>1. Returns("NONE", pfifo_data[Wrap(head + 1 + k, fifo_size)])
          BY <1>7, <2>2 DEF ptr_fifo_peek_offset, Queued
    <3>2. k < num_elements /\ k + 1 \in 1 .. num_elements
          BY <2>2, <2>0, <1>b
    <3>3. Contents[k + 1] = pfifo_data[Wrap(head + (k + 1), fifo_size)]
          BY <3>2, ContentsSeq DEF Slot
    <3>4. head + 1 + k = head + (k + 1)
          BY <2>0, LiveRing
    <3> QED BY <2>0, <3>1, <3>2, <3>3, <3>4, <1>a, <1>b, <1>c
            DEF Abs!ABPeek, Returns, Abs!Returns
  <2> QED BY <2>1, <2>2
<1>8. ASSUME ptr_fifo_peek PROVE Abs!ABPeek(0) /\ 0 \in 0 .. MaxSize
  <2>0. alive /\ UNCHANGED ring
        BY <1>8 DEF ptr_fifo_peek
  <2>1. CASE IsEmpty
    <3>1. Returns("FIFO_UNDERFLOW", NoPtr) /\ 0 >= num_elements
          BY <1>8, <1>b, <1>e, <2>0, <2>1 DEF ptr_fifo_peek
    <3> QED BY <2>0, <3>1, <1>a, <1>b, <1>c DEF Abs!ABPeek, Returns, Abs!Returns
  <2>2. CASE ~IsEmpty
    <3>1. Returns("NONE", pfifo_data[Wrap(head + 1, fifo_size)])
          BY <1>8, <2>0, <2>2, <1>g DEF ptr_fifo_peek
    <3>2. 0 < num_elements
      <4>1. num_elements = 0 => IsEmpty
        <5>1. num_elements = 0 => tail = Slot(0)
              BY <2>0, LiveRing
        <5>2. Slot(0) = head
          <6>1. /\ fifo_size \in Nat /\ fifo_size >= 3
                /\ head \in 0 .. (fifo_size - 1)
                BY <2>0, LiveRing
          <6>2. Slot(0) = IF head + 0 < fifo_size THEN head + 0
                                                  ELSE head + 0 - fifo_size
                BY <6>1, <2>0, LiveRing
          <6> QED BY <6>1, <6>2
        <5> QED BY <5>1, <5>2 DEF IsEmpty
      <4> QED BY <4>1, <2>2, <1>b
    <3>3. Contents[0 + 1] = pfifo_data[Wrap(head + 1, fifo_size)]
          BY <3>2, <1>b, ContentsSeq DEF Slot
    <3> QED BY <2>0, <3>1, <3>2, <3>3, <1>a, <1>b, <1>c
            DEF Abs!ABPeek, Returns, Abs!Returns
  <2> QED BY <2>1, <2>2
<1>9. ASSUME UNCHANGED vars PROVE UNCHANGED <<Capacity, Contents, ret>>
      BY <1>9, <1>a DEF vars, ring
<1> QED BY <1>1, <1>2, <1>3, <1>4, <1>5, <1>6, <1>7, <1>8, <1>9
        DEF Next, Abs!ABNext

(* The ring of ptr_fifo.c implements the bounded queue of BoundedFifo, for *)
(* every size and every set of pointers: order, no loss, no duplication,   *)
(* overflow and underflow reported exactly at the limits.                  *)
THEOREM ImplementsBoundedFifo == Spec => RefinesBoundedFifo
<1>1. Init => Abs!ABInit
      BY DEF Init, Abs!ABInit, Contents, Capacity, alive
<1>2. IInv /\ IInv' /\ [Next]_vars => [Abs!ABNext]_(Abs!absVars)
      BY StepRefines DEF Abs!absVars
<1> QED BY <1>1, <1>2, InitIInv, StepIInv, PTL
        DEF Spec, RefinesBoundedFifo, Abs!ABSpec
==============================================================================
