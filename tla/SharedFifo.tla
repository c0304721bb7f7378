----------------------------- MODULE SharedFifo -----------------------------
(***************************************************************************)
(* The message FIFOs in shared memory of ipc_4ghif.c: a ring of cells and  *)
(* two published indices, one end run by the application processor and the *)
(* other by the baseband, with no lock between them.  The writer is        *)
(* fifo_4ghif_add_msg (AP side of the UL FIFO), the reader                 *)
(* fifo_4ghif_get_msg and the increment of the read index that follows it  *)
(* (AP side of the DL FIFO); the peer of each works alike.  The FIFOs of   *)
(* ACKs have the same code.  Stores become visible in program order        *)
(* (shared memory is uncached).                                            *)
(***************************************************************************)
EXTENDS Integers, Sequences

CONSTANTS
  Msg,        \* messages
  NoMsg,      \* what a cell holds before it is first written
  MSG_NB,     \* cells; 256 in the code, so that a u8 holds an index
  MAX_FRAMES  \* messages a reader looks at before it takes any (31)

ASSUME SharedFifoAssumption ==
  /\ MSG_NB \in Nat \ {0, 1}
  /\ MAX_FRAMES \in 1 .. (MSG_NB - 1)
  /\ NoMsg \notin Msg

VARIABLES
  cell,        \* the ring
  shared_wr,   \* FIFO_xL_WRITE_IND in shared memory
  shared_rd,   \* FIFO_xL_READ_IND in shared memory
  wr_pc,       \* where the writer is: idle, write, publish
  wr_msg,      \* the message it is posting
  write_ind,   \* its private write index
  read_ind,    \* the reader's private read index
  seen         \* messages the reader has copied since its last increment

vars == <<cell, shared_wr, shared_rd, wr_pc, wr_msg, write_ind, read_ind, seen>>

writer == <<wr_pc, wr_msg, write_ind>>

Init ==
  /\ cell = [i \in 0 .. (MSG_NB - 1) |-> NoMsg]
  /\ shared_wr = 0
  /\ shared_rd = 0
  /\ wr_pc = "idle"
  /\ wr_msg = NoMsg
  /\ write_ind = 0
  /\ read_ind = 0
  /\ seen = << >>

----------------------------------------------------------------------------
(* Mutant: no cell is kept empty.                                          *)
SpaceAllCells(rd) == MSG_NB - ((write_ind - rd) % MSG_NB)

(* One cell stays empty to tell a full FIFO from an empty one.             *)
space_left(rd) == MSG_NB - 1 - ((write_ind - rd) % MSG_NB)

(* add_msg, with the read index just loaded from shared memory.  FULL is   *)
(* returned to the caller with nothing changed.                            *)
add_msg_check(m) ==
  /\ wr_pc = "idle"
  /\ space_left(shared_rd) # 0
  /\ wr_pc' = "write"
  /\ wr_msg' = m
  /\ UNCHANGED <<cell, shared_wr, shared_rd, write_ind, read_ind, seen>>

add_msg_write ==
  /\ wr_pc = "write"
  /\ cell' = [cell EXCEPT ![write_ind] = wr_msg]
  /\ wr_pc' = "publish"
  /\ UNCHANGED <<shared_wr, shared_rd, wr_msg, write_ind, read_ind, seen>>

(* Mutant: the index runs over the last cell.                              *)
PublishOneLate ==
  /\ wr_pc = "publish"
  /\ write_ind' = IF write_ind + 1 > MSG_NB THEN 0 ELSE write_ind + 1
  /\ shared_wr' = write_ind'
  /\ wr_pc' = "idle"
  /\ wr_msg' = NoMsg
  /\ UNCHANGED <<cell, shared_rd, read_ind, seen>>

add_msg_publish ==
  /\ wr_pc = "publish"
  /\ write_ind' = IF write_ind + 1 >= MSG_NB THEN 0 ELSE write_ind + 1
  /\ shared_wr' = write_ind'
  /\ wr_pc' = "idle"
  /\ wr_msg' = NoMsg
  /\ UNCHANGED <<cell, shared_rd, read_ind, seen>>

----------------------------------------------------------------------------
(* An index below 2 * MSG_NB, brought back into the ring.                  *)
Wrapped(i) == IF i >= MSG_NB THEN i - MSG_NB ELSE i

(* get_msg at offset Len(seen): EMPTY when that is the write index.        *)
get_msg ==
  LET i == Wrapped(read_ind + Len(seen))
  IN  /\ Len(seen) < MAX_FRAMES
      /\ i # shared_wr
      /\ seen' = Append(seen, cell[i])
      /\ UNCHANGED <<cell, shared_wr, shared_rd, writer, read_ind>>

increment_read_ind_after_get_msg(offset) ==
  /\ offset <= Len(seen)
  /\ read_ind' = Wrapped(read_ind + offset)
  /\ shared_rd' = read_ind'
  /\ seen' = << >>
  /\ UNCHANGED <<cell, shared_wr, writer>>

Next ==
  \/ \E m \in Msg : add_msg_check(m)
  \/ add_msg_write
  \/ add_msg_publish
  \/ get_msg
  \/ \E k \in 0 .. MAX_FRAMES : increment_read_ind_after_get_msg(k)

Spec == Init /\ [][Next]_vars

----------------------------------------------------------------------------
Cells == 0 .. (MSG_NB - 1)

(* The type invariant: no index ever leaves the ring.                      *)
TypeOK ==
  /\ cell \in [Cells -> Msg \cup {NoMsg}]
  /\ shared_wr \in Cells /\ shared_rd \in Cells
  /\ write_ind \in Cells /\ read_ind \in Cells
  /\ wr_pc \in {"idle", "write", "publish"}
  /\ wr_msg \in Msg \cup {NoMsg}
  /\ seen \in Seq(Msg) /\ Len(seen) <= MAX_FRAMES

Used == (shared_wr - shared_rd) % MSG_NB

Contents == [i \in 1 .. Used |-> cell[(shared_rd + i - 1) % MSG_NB]]

Queue == INSTANCE MsgQueue WITH q <- Contents

(* The ring is a queue for two processors that never synchronise: what the *)
(* reader copies is what was posted, in order, never a cell being written, *)
(* and a post never touches a cell the reader has not released.            *)
RefinesMsgQueue == Queue!MQSpec
==============================================================================
