------------------------------- MODULE PtrFifo -------------------------------
(***************************************************************************)
(* drivers/lte/common/ptr_fifo.c: the ring of pointers between a network   *)
(* interface and the UL path of the data driver, also used by the QoS      *)
(* agent.  Every call runs under the spinlock of its object, so each call  *)
(* is one action.  The ring has fifo_size = requested + 1 slots; head is   *)
(* the slot last read, tail the slot last written, and num_elements        *)
(* repeats what the two indices already say.                               *)
(***************************************************************************)
EXTENDS Integers, Sequences

CONSTANTS
  Ptr,      \* pointers that users store
  NoPtr,    \* an output parameter the call did not write
  MaxSize   \* bound: the largest size a user asks for

ASSUME PtrFifoAssumption ==
  /\ MaxSize \in Nat
  /\ NoPtr \notin Ptr

VARIABLES
  fifo_size,    \* slots of the ring, the user's size plus one; 0: no object
  pfifo_data,   \* the slots
  tail, head, num_elements,
  ret           \* error code and output parameter of the last call

vars == <<fifo_size, pfifo_data, tail, head, num_elements, ret>>

ring == <<fifo_size, pfifo_data, tail, head, num_elements>>

(* ptr_fifo_object_valid: the handle is not NULL and carries our signature. *)
alive == fifo_size # 0

(* Mutant: an index runs past the last slot.                               *)
NoWrap(i, n) == i

(* The index arithmetic of a ring of n slots.                              *)
Wrap(i, n) == i % n

Returns(err, out) == ret' = [err |-> err, out |-> out]

Init ==
  /\ fifo_size = 0
  /\ pfifo_data = << >>
  /\ tail = 0
  /\ head = 0
  /\ num_elements = 0
  /\ ret = [err |-> "NONE", out |-> NoPtr]

----------------------------------------------------------------------------
(* Allocation: too small a size and a failed kmalloc are refused.  The     *)
(* slots come uninitialised from kmalloc: NoPtr is never a user's pointer. *)
ptr_fifo_alloc(sz) ==
  /\ ~alive
  /\ \/ /\ sz < 2
        /\ Returns("INVALID_FIFO_SIZE", NoPtr)
        /\ UNCHANGED ring
     \/ /\ sz >= 2
        /\ Returns("RESOURCE_ALLOC", NoPtr)
        /\ UNCHANGED ring
     \/ /\ sz >= 2
        /\ fifo_size' = sz + 1
        /\ pfifo_data' = [i \in 0 .. sz |-> NoPtr]
        /\ tail' = 0
        /\ head' = 0
        /\ num_elements' = 0
        /\ Returns("NONE", NoPtr)

(* Freeing does not look at what is still queued: the pointers are the     *)
(* caller's to drain first.                                                *)
ptr_fifo_free ==
  /\ alive
  /\ fifo_size' = 0
  /\ pfifo_data' = << >>
  /\ tail' = 0
  /\ head' = 0
  /\ num_elements' = 0
  /\ Returns("NONE", NoPtr)

ptr_fifo_object_invalid ==
  /\ ~alive
  /\ Returns("INVALID_HANDLE", NoPtr)
  /\ UNCHANGED ring

IsEmpty == head = tail

ptr_fifo_is_empty ==
  /\ alive
  /\ Returns("NONE", IF IsEmpty THEN 1 ELSE 0)
  /\ UNCHANGED ring

ptr_fifo_num_elements ==
  /\ alive
  /\ Returns("NONE", num_elements)
  /\ UNCHANGED ring

ptr_fifo_free_avail ==
  /\ alive
  /\ Returns("NONE", (fifo_size - 1) - num_elements)
  /\ UNCHANGED ring

(* Mutant: the ring is taken for full one insertion late.                  *)
FullOneLate(t) == t = head /\ num_elements = fifo_size

Full(t) == t = head

ptr_fifo_insert(p) ==
  LET t == Wrap(tail + 1, fifo_size)
  IN  /\ alive
      /\ \/ /\ Full(t)
            /\ Returns("FIFO_OVERFLOW", NoPtr)
            /\ UNCHANGED <<tail, pfifo_data, num_elements>>
         \/ /\ ~Full(t)
            /\ tail' = t
            /\ pfifo_data' = [pfifo_data EXCEPT ![t] = p]
            /\ num_elements' = num_elements + 1
            /\ Returns("NONE", NoPtr)
      /\ UNCHANGED <<fifo_size, head>>

(* Mutant: the slot is read before the head index is advanced.             *)
ReadsOldHead(k) == pfifo_data[Wrap(head + k, fifo_size)]

(* The pointer k places behind the oldest one.                             *)
Queued(k) == pfifo_data[Wrap(head + 1 + k, fifo_size)]

ptr_fifo_remove ==
  LET h == Wrap(head + 1, fifo_size)
  IN  /\ alive
      /\ \/ /\ IsEmpty
            /\ Returns("FIFO_UNDERFLOW", NoPtr)
            /\ UNCHANGED <<head, num_elements>>
         \/ /\ ~IsEmpty
            /\ head' = h
            /\ num_elements' = num_elements - 1
            /\ Returns("NONE", Queued(0))
      /\ UNCHANGED <<fifo_size, tail, pfifo_data>>

ptr_fifo_peek ==
  /\ alive
  /\ \/ /\ IsEmpty
        /\ Returns("FIFO_UNDERFLOW", NoPtr)
     \/ /\ ~IsEmpty
        /\ Returns("NONE", Queued(0))
  /\ UNCHANGED ring

ptr_fifo_peek_offset(offset) ==
  /\ alive
  /\ \/ /\ IsEmpty \/ offset + 1 > num_elements
        /\ Returns("FIFO_UNDERFLOW", NoPtr)
     \/ /\ ~IsEmpty
        /\ offset + 1 <= num_elements
        /\ Returns("NONE", Queued(offset))
  /\ UNCHANGED ring

Next ==
  \/ \E sz \in 0 .. MaxSize : ptr_fifo_alloc(sz)
  \/ ptr_fifo_free
  \/ ptr_fifo_object_invalid
  \/ ptr_fifo_is_empty
  \/ ptr_fifo_num_elements
  \/ ptr_fifo_free_avail
  \/ \E p \in Ptr : ptr_fifo_insert(p)
  \/ ptr_fifo_remove
  \/ ptr_fifo_peek
  \/ \E k \in 0 .. MaxSize : ptr_fifo_peek_offset(k)

Spec == Init /\ [][Next]_vars

----------------------------------------------------------------------------
(* The slots of a live ring are 0 .. fifo_size - 1.                        *)
Slots == 0 .. (fifo_size - 1)

(* The type invariant: both indices stay inside the ring that ptr_fifo.c   *)
(* allocated, so no call reads or writes outside pfifo_data.               *)
TypeOK ==
  /\ fifo_size \in {0} \cup 3 .. (MaxSize + 1)
  /\ num_elements \in 0 .. MaxSize
  /\ pfifo_data \in [Slots -> Ptr \cup {NoPtr}]
  /\ alive => tail \in Slots /\ head \in Slots

(* The redundant element count agrees with the two indices, whatever       *)
(* wrap-arounds they have been through: ptr_fifo_peek_offset and           *)
(* ptr_fifo_free_avail trust the count, insert and remove the indices, and *)
(* the two must never drift apart.                                         *)
CountMatchesIndices ==
  IF alive
    THEN /\ num_elements <= fifo_size - 1
         /\ tail = Wrap(head + num_elements, fifo_size)
    ELSE num_elements = 0

(* What is queued, oldest first.                                           *)
Contents == [i \in 1 .. num_elements |-> pfifo_data[Wrap(head + i, fifo_size)]]

Capacity == IF alive THEN fifo_size - 1 ELSE 0

Abs == INSTANCE BoundedFifo WITH q <- Contents, cap <- Capacity

(* The ring implements the bounded queue: pointers come out in the order   *)
(* they went in, none is lost, duplicated or read before it was written,   *)
(* and overflow and underflow are reported exactly at the user's size.     *)
RefinesBoundedFifo == Abs!ABSpec
==============================================================================
