----------------------------- MODULE BoundedFifo -----------------------------
(***************************************************************************)
(* What a ptr_fifo object promises its users (net driver, data driver, QoS *)
(* agent): a bounded first-in first-out queue of pointers.  There are no   *)
(* indices and no array here; PtrFifo.tla implements this specification.   *)
(***************************************************************************)
EXTENDS Naturals, Sequences

CONSTANTS
  Ptr,      \* the pointers that users store
  NoPtr,    \* an output parameter the call did not write
  MaxSize   \* largest size a user asks for

VARIABLES
  cap,      \* the capacity the user asked for; 0: there is no object
  q,        \* the queued pointers, oldest first
  ret       \* error code and output parameter of the last call

live == cap # 0

absVars == <<cap, q, ret>>

Returns(err, out) == ret' = [err |-> err, out |-> out]

ABInit ==
  /\ cap = 0
  /\ q = << >>
  /\ ret = [err |-> "NONE", out |-> NoPtr]

(* An allocation yields an empty queue of the requested capacity, or an    *)
(* error and no object.                                                    *)
ABAlloc(sz) ==
  /\ ~live
  /\ \/ /\ sz < 2
        /\ Returns("INVALID_FIFO_SIZE", NoPtr)
        /\ UNCHANGED <<cap, q>>
     \/ /\ sz >= 2
        /\ Returns("RESOURCE_ALLOC", NoPtr)
        /\ UNCHANGED <<cap, q>>
     \/ /\ sz >= 2
        /\ cap' = sz
        /\ q' = << >>
        /\ Returns("NONE", NoPtr)

ABFree ==
  /\ live
  /\ cap' = 0
  /\ q' = << >>
  /\ Returns("NONE", NoPtr)

(* Every call on a handle that is not a live object is refused.            *)
ABInvalid ==
  /\ ~live
  /\ Returns("INVALID_HANDLE", NoPtr)
  /\ UNCHANGED <<cap, q>>

ABInsert(p) ==
  /\ live
  /\ \/ /\ Len(q) = cap
        /\ Returns("FIFO_OVERFLOW", NoPtr)
        /\ UNCHANGED q
     \/ /\ Len(q) < cap
        /\ q' = Append(q, p)
        /\ Returns("NONE", NoPtr)
  /\ UNCHANGED cap

ABRemove ==
  /\ live
  /\ \/ /\ q = << >>
        /\ Returns("FIFO_UNDERFLOW", NoPtr)
        /\ UNCHANGED q
     \/ /\ q # << >>
        /\ q' = Tail(q)
        /\ Returns("NONE", Head(q))
  /\ UNCHANGED cap

(* Read the k-th queued pointer without removing it (k = 0 is the oldest). *)
ABPeek(k) ==
  /\ live
  /\ \/ /\ k >= Len(q)
        /\ Returns("FIFO_UNDERFLOW", NoPtr)
     \/ /\ k < Len(q)
        /\ Returns("NONE", q[k + 1])
  /\ UNCHANGED <<cap, q>>

(* The three queries: emptiness, fill level, room left.                    *)
ABQuery ==
  /\ live
  /\ \/ Returns("NONE", IF q = << >> THEN 1 ELSE 0)
     \/ Returns("NONE", Len(q))
     \/ Returns("NONE", cap - Len(q))
  /\ UNCHANGED <<cap, q>>

ABNext ==
  \/ \E sz \in 0 .. MaxSize : ABAlloc(sz)
  \/ ABFree
  \/ ABInvalid
  \/ \E p \in Ptr : ABInsert(p)
  \/ ABRemove
  \/ \E k \in 0 .. MaxSize : ABPeek(k)
  \/ ABQuery

ABSpec == ABInit /\ [][ABNext]_absVars
==============================================================================
