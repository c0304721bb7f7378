--------------------------- MODULE SharedFifoProofs ---------------------------
(***************************************************************************)
(* Proofs about the message FIFOs of ipc_4ghif.c, for rings of every size  *)
(* and any set of messages.                                                *)
(***************************************************************************)
EXTENDS SharedFifo, SequenceTheorems, TLAPS

(* A sum of an index and an offset wraps at most once, ...                 *)
LEMMA SumWraps ==
  ASSUME NEW n \in Nat \ {0}, NEW a \in 0 .. (n - 1), NEW x \in 0 .. (n - 1)
  PROVE  (a + x) % n = IF a + x < n THEN a + x ELSE a + x - n
OBVIOUS

(* ... and so does a difference of indices.                                *)
LEMMA DifferenceWraps ==
  ASSUME NEW n \in Nat \ {0}, NEW a \in 0 .. (n - 1), NEW b \in 0 .. (n - 1)
  PROVE  (a - b) % n = IF a >= b THEN a - b ELSE a - b + n
OBVIOUS

(* The cell of the i-th message that is posted and not taken.              *)
Pos(i) == (shared_rd + i - 1) % MSG_NB

(* Each end publishes its private index as soon as it changes it.          *)
IndicesPublished == write_ind = shared_wr /\ read_ind = shared_rd

(* While a message is being posted there is room for it, ...               *)
RoomWhilePosting ==
  wr_pc # "idle" => wr_msg \in Msg /\ Used < MSG_NB - 1

(* ... and its cell is complete before the index moves.                    *)
WrittenBeforePublished == wr_pc = "publish" => cell[write_ind] = wr_msg

(* The cells between the indices hold messages, ...                        *)
PostedAreMessages == \A i \in 1 .. Used : cell[Pos(i)] \in Msg

(* ... and the reader has copied the first of them.                        *)
SeenArePosted ==
  /\ Len(seen) <= Used
  /\ \A i \in 1 .. Len(seen) : seen[i] = cell[Pos(i)]

(* The inductive invariant.                                                *)
IInv ==
  /\ TypeOK
  /\ IndicesPublished
  /\ RoomWhilePosting
  /\ WrittenBeforePublished
  /\ PostedAreMessages
  /\ SeenArePosted

(* The number of used cells and the place of each, without remainders, for *)
(* any two indices of the ring.                                            *)
LEMMA RingArithmetic ==
  ASSUME NEW wr \in Cells, NEW rd \in Cells
  PROVE  /\ (wr - rd) % MSG_NB = IF wr >= rd THEN wr - rd ELSE wr - rd + MSG_NB
         /\ (wr - rd) % MSG_NB \in 0 .. (MSG_NB - 1)
         /\ \A i \in 1 .. MSG_NB :
              /\ (rd + i - 1) % MSG_NB = IF rd + i - 1 < MSG_NB
                                         THEN rd + i - 1
                                         ELSE rd + i - 1 - MSG_NB
              /\ (rd + i - 1) % MSG_NB \in Cells
<1>1. /\ MSG_NB \in Nat \ {0} /\ rd \in 0 .. (MSG_NB - 1)
      /\ wr \in 0 .. (MSG_NB - 1)
      BY SharedFifoAssumption DEF Cells
<1>2. (wr - rd) % MSG_NB = IF wr >= rd THEN wr - rd ELSE wr - rd + MSG_NB
      BY <1>1, DifferenceWraps
<1>3. ASSUME NEW i \in 1 .. MSG_NB
      PROVE  (rd + i - 1) % MSG_NB = IF rd + i - 1 < MSG_NB
                                     THEN rd + i - 1
                                     ELSE rd + i - 1 - MSG_NB
  <2>1. i - 1 \in 0 .. (MSG_NB - 1) /\ rd + i - 1 = rd + (i - 1)
        BY <1>1
  <2> QED BY <1>1, <2>1, SumWraps
<1> QED BY <1>1, <1>2, <1>3 DEF Cells

(* The same of the indices in shared memory.                               *)
LEMMA RingNow ==
  ASSUME shared_wr \in Cells, shared_rd \in Cells
  PROVE  /\ Used = IF shared_wr >= shared_rd THEN shared_wr - shared_rd
                                             ELSE shared_wr - shared_rd + MSG_NB
         /\ Used \in 0 .. (MSG_NB - 1)
         /\ \A i \in 1 .. MSG_NB :
              /\ Pos(i) = IF shared_rd + i - 1 < MSG_NB
                          THEN shared_rd + i - 1
                          ELSE shared_rd + i - 1 - MSG_NB
              /\ Pos(i) \in Cells
BY RingArithmetic DEF Used, Pos

(* What a reader finds between the indices.                                *)
LEMMA ContentsFacts ==
  ASSUME IInv
  PROVE  /\ Contents \in Seq(Msg)
         /\ Len(Contents) = Used /\ Used \in 0 .. (MSG_NB - 1)
         /\ \A i \in 1 .. Used : Contents[i] = cell[Pos(i)]
<1>1. Used \in 0 .. (MSG_NB - 1)
      BY RingArithmetic DEF IInv, TypeOK, Used
<1>2. Contents = [i \in 1 .. Used |-> cell[Pos(i)]]
      BY DEF Contents, Pos
<1>3. Contents \in [1 .. Used -> Msg]
      BY <1>2 DEF IInv, PostedAreMessages
<1> QED BY <1>1, <1>2, <1>3, IsASeq

LEMMA InitIInv == Init => IInv
<1> SUFFICES ASSUME Init PROVE IInv
    OBVIOUS
<1>1. TypeOK
      BY SharedFifoAssumption DEF Init, TypeOK, Cells
<1>2. Used = 0
      BY <1>1, RingArithmetic DEF Init, TypeOK, Used
<1> QED BY <1>1, <1>2 DEF Init, IInv, IndicesPublished, RoomWhilePosting,
           WrittenBeforePublished, PostedAreMessages, SeenArePosted

(* Filling the cell behind the last message changes no message.            *)
LEMMA WriteStep ==
  ASSUME IInv, add_msg_write
  PROVE  IInv' /\ UNCHANGED <<Contents, seen>>
<1>1. /\ write_ind \in Cells /\ shared_rd \in Cells /\ write_ind = shared_wr
      /\ wr_msg \in Msg /\ Used < MSG_NB - 1
      BY DEF IInv, TypeOK, IndicesPublished, RoomWhilePosting, add_msg_write
<1>2. cell' \in [Cells -> Msg \cup {NoMsg}] /\ cell'[write_ind] = wr_msg
      BY <1>1 DEF IInv, TypeOK, add_msg_write
<1>3. Used' = Used /\ seen' = seen /\ shared_rd' = shared_rd
      BY DEF Used, add_msg_write
<1>4. ASSUME NEW i \in 1 .. Used
      PROVE  Pos(i) # write_ind /\ cell'[Pos(i)] = cell[Pos(i)]
  <2>1. /\ i \in 1 .. MSG_NB /\ Pos(i) \in Cells /\ Pos(i) # write_ind
        BY <1>1, RingNow, SharedFifoAssumption DEF Cells
  <2> QED BY <2>1 DEF IInv, TypeOK, add_msg_write
<1>5. \A i : Pos(i)' = Pos(i)
      BY <1>3 DEF Pos
<1>6. Contents' = Contents
      BY <1>3, <1>4, <1>5 DEF Contents, Pos
<1>7. TypeOK' /\ IndicesPublished' /\ RoomWhilePosting' /\ WrittenBeforePublished'
      BY <1>1, <1>2, <1>3 DEF IInv, TypeOK, IndicesPublished, RoomWhilePosting,
         WrittenBeforePublished, add_msg_write
<1>8. PostedAreMessages' /\ SeenArePosted'
  <2>1. Used \in Nat /\ Len(seen) \in Nat
        BY <1>1, RingNow DEF IInv, TypeOK
  <2> QED BY <1>3, <1>4, <1>5, <2>1 DEF IInv, PostedAreMessages, SeenArePosted
<1> QED BY <1>3, <1>6, <1>7, <1>8 DEF IInv

(* Moving the write index posts the message.                               *)
LEMMA PublishStep ==
  ASSUME IInv, add_msg_publish
  PROVE  IInv' /\ Queue!MQPost(wr_msg) /\ wr_msg \in Msg
<1>1. /\ write_ind \in Cells /\ shared_rd \in Cells /\ shared_wr = write_ind
      /\ wr_msg \in Msg /\ Used < MSG_NB - 1 /\ cell[write_ind] = wr_msg
      BY DEF IInv, TypeOK, IndicesPublished, RoomWhilePosting,
         WrittenBeforePublished, add_msg_publish
<1>2. /\ shared_wr' \in Cells /\ write_ind' = shared_wr'
      /\ shared_wr' = IF write_ind + 1 = MSG_NB THEN 0 ELSE write_ind + 1
      BY <1>1, SharedFifoAssumption DEF add_msg_publish, Cells
<1>3. /\ cell' = cell /\ seen' = seen /\ shared_rd' = shared_rd
      /\ \A i : Pos(i)' = Pos(i)
      BY DEF add_msg_publish, Pos
<1>4. Used' = Used + 1 /\ Used \in Nat
      BY <1>1, <1>2, <1>3, RingArithmetic, SharedFifoAssumption DEF Used, Cells
<1>5. Pos(Used + 1) = write_ind
      BY <1>1, <1>4, RingNow, SharedFifoAssumption DEF Cells
<1>6. TypeOK' /\ IndicesPublished' /\ RoomWhilePosting' /\ WrittenBeforePublished'
      BY <1>2, <1>3 DEF IInv, TypeOK, IndicesPublished, RoomWhilePosting,
         WrittenBeforePublished, add_msg_publish
<1>7. PostedAreMessages'
      BY <1>1, <1>3, <1>4, <1>5 DEF IInv, PostedAreMessages
<1>8. SeenArePosted'
      BY <1>3, <1>4 DEF IInv, SeenArePosted, TypeOK
<1>9. Contents' = Append(Contents, wr_msg)
  <2>1. Contents' = [i \in 1 .. (Used + 1) |-> cell[Pos(i)]]
        BY <1>3, <1>4 DEF Contents, Pos
  <2>2. /\ Contents \in Seq(Msg) /\ Len(Contents) = Used
        /\ \A i \in 1 .. Used : Contents[i] = cell[Pos(i)]
        BY ContentsFacts
  <2>3. /\ Append(Contents, wr_msg) \in Seq(Msg)
        /\ Len(Append(Contents, wr_msg)) = Used + 1
        /\ \A i \in 1 .. (Used + 1) : Append(Contents, wr_msg)[i] = cell[Pos(i)]
        BY <1>1, <1>4, <1>5, <2>2, AppendProperties
  <2>4. Append(Contents, wr_msg) = [i \in 1 .. (Used + 1) |-> cell[Pos(i)]]
    <3>1. Append(Contents, wr_msg) \in [1 .. (Used + 1) -> Msg]
          BY <2>3, LenProperties
    <3> QED BY <2>3, <3>1
  <2> QED BY <2>1, <2>4
<1>10. Queue!MQPost(wr_msg)
      BY <1>1, <1>3, <1>9, ContentsFacts DEF Queue!MQPost
<1> QED BY <1>1, <1>6, <1>7, <1>8, <1>10 DEF IInv

(* A copy made by the reader is the next message it has not looked at.     *)
LEMMA LookStep ==
  ASSUME IInv, get_msg
  PROVE  IInv' /\ Queue!MQLook
<1>1. /\ shared_wr \in Cells /\ shared_rd \in Cells /\ read_ind = shared_rd
      /\ seen \in Seq(Msg) /\ Len(seen) \in Nat /\ Len(seen) <= Used
      /\ Len(seen) < MAX_FRAMES
      BY DEF IInv, TypeOK, IndicesPublished, SeenArePosted, get_msg
<1>2. /\ Used \in 0 .. (MSG_NB - 1)
      /\ Wrapped(read_ind + Len(seen)) = Pos(Len(seen) + 1)
  <2>1. Used \in 0 .. (MSG_NB - 1) /\ MSG_NB \in Nat \ {0, 1}
        BY <1>1, RingNow, SharedFifoAssumption
  <2>2. Len(seen) + 1 \in 1 .. MSG_NB
        BY <1>1, <2>1
  <2>3. Pos(Len(seen) + 1) = IF shared_rd + Len(seen) + 1 - 1 < MSG_NB
                             THEN shared_rd + Len(seen) + 1 - 1
                             ELSE shared_rd + Len(seen) + 1 - 1 - MSG_NB
    <3>1. Pos(Len(seen) + 1) = IF shared_rd + (Len(seen) + 1) - 1 < MSG_NB
                               THEN shared_rd + (Len(seen) + 1) - 1
                               ELSE shared_rd + (Len(seen) + 1) - 1 - MSG_NB
          BY <1>1, <2>2, RingNow
    <3>2. shared_rd \in Nat
          BY <1>1 DEF Cells
    <3> QED BY <1>1, <2>1, <3>1, <3>2
  <2>4. shared_rd \in Nat
        BY <1>1 DEF Cells
  <2> QED BY <1>1, <2>1, <2>3, <2>4 DEF Wrapped
<1>3. Len(seen) < Used
  <2>1. Pos(Len(seen) + 1) # shared_wr
        BY <1>2 DEF get_msg
  <2>2. Pos(Used + 1) = shared_wr
    <3>1. Used + 1 \in 1 .. MSG_NB
          BY <1>2, SharedFifoAssumption
    <3>2. Pos(Used + 1) = IF shared_rd + (Used + 1) - 1 < MSG_NB
                          THEN shared_rd + (Used + 1) - 1
                          ELSE shared_rd + (Used + 1) - 1 - MSG_NB
          BY <1>1, <3>1, RingNow
    <3>3. Used = IF shared_wr >= shared_rd THEN shared_wr - shared_rd
                                           ELSE shared_wr - shared_rd + MSG_NB
          BY <1>1, RingNow
    <3>4. /\ MSG_NB \in Nat /\ shared_rd \in 0 .. (MSG_NB - 1)
          /\ shared_wr \in 0 .. (MSG_NB - 1)
          BY <1>1, SharedFifoAssumption DEF Cells
    <3> QED BY <3>2, <3>3, <3>4
  <2> QED BY <1>1, <1>2, <2>1, <2>2
<1>4. /\ seen' = Append(seen, cell[Pos(Len(seen) + 1)])
      /\ cell[Pos(Len(seen) + 1)] \in Msg
      BY <1>1, <1>2, <1>3 DEF get_msg, IInv, PostedAreMessages
<1>5. UNCHANGED <<cell, shared_wr, shared_rd, wr_pc, wr_msg, write_ind, read_ind>>
      BY DEF get_msg, writer
<1>6. Used' = Used /\ Contents' = Contents /\ \A i : Pos(i)' = Pos(i)
      BY <1>5 DEF Used, Contents, Pos
<1>7. TypeOK'
      BY <1>1, <1>4, <1>5, SharedFifoAssumption DEF IInv, TypeOK
<1>8. /\ IndicesPublished' /\ RoomWhilePosting' /\ WrittenBeforePublished'
      /\ PostedAreMessages'
      BY <1>5, <1>6 DEF IInv, IndicesPublished, RoomWhilePosting,
         WrittenBeforePublished, PostedAreMessages
<1>9. SeenArePosted'
      BY <1>1, <1>2, <1>3, <1>4, <1>5, <1>6 DEF IInv, SeenArePosted
<1>10. Queue!MQLook
      BY <1>1, <1>2, <1>3, <1>4, <1>6, ContentsFacts DEF Queue!MQLook
<1> QED BY <1>7, <1>8, <1>9, <1>10 DEF IInv

(* Moving the read index takes messages that have been copied.             *)
LEMMA TakeStep ==
  ASSUME IInv, NEW k \in 0 .. MAX_FRAMES, increment_read_ind_after_get_msg(k)
  PROVE  IInv' /\ Queue!MQTake(k) /\ k \in 0 .. Len(seen)
<1>1. /\ shared_wr \in Cells /\ shared_rd \in Cells /\ read_ind = shared_rd
      /\ seen \in Seq(Msg) /\ Len(seen) \in Nat
      /\ k <= Len(seen) /\ Len(seen) <= Used /\ k \in Nat
      BY SharedFifoAssumption DEF IInv, TypeOK, IndicesPublished, SeenArePosted,
         increment_read_ind_after_get_msg
<1>2. /\ Used \in 0 .. (MSG_NB - 1)
      /\ shared_rd' = Wrapped(shared_rd + k) /\ read_ind' = shared_rd'
      /\ shared_rd' \in Cells
      BY <1>1, RingArithmetic, SharedFifoAssumption
         DEF increment_read_ind_after_get_msg, Wrapped, Used, Cells
<1>3. UNCHANGED <<cell, shared_wr, wr_pc, wr_msg, write_ind>> /\ seen' = << >>
      BY DEF increment_read_ind_after_get_msg, writer
<1>4. Used' = Used - k
  <2>1. Used' = IF shared_wr >= shared_rd' THEN shared_wr - shared_rd'
                                           ELSE shared_wr - shared_rd' + MSG_NB
        BY <1>1, <1>2, <1>3, RingArithmetic DEF Used
  <2> QED BY <1>1, <1>2, <2>1, RingNow, SharedFifoAssumption DEF Cells, Wrapped
<1>5. ASSUME NEW i \in 1 .. Used'
      PROVE  Pos(i)' = Pos(i + k) /\ i + k \in 1 .. Used
  <2>1. i \in 1 .. MSG_NB /\ i + k \in 1 .. MSG_NB /\ i + k \in 1 .. Used
        BY <1>1, <1>2, <1>4, SharedFifoAssumption
  <2>2. Pos(i)' = IF shared_rd' + i - 1 < MSG_NB THEN shared_rd' + i - 1
                                                 ELSE shared_rd' + i - 1 - MSG_NB
        BY <1>1, <1>2, <2>1, RingArithmetic DEF Pos
  <2>3. Pos(i + k) = IF shared_rd + i + k - 1 < MSG_NB
                     THEN shared_rd + i + k - 1
                     ELSE shared_rd + i + k - 1 - MSG_NB
        BY <1>1, <2>1, RingNow, SharedFifoAssumption DEF Cells
  <2> QED BY <1>1, <1>2, <2>1, <2>2, <2>3, SharedFifoAssumption DEF Wrapped, Cells
<1>6. TypeOK' /\ IndicesPublished' /\ WrittenBeforePublished'
      BY <1>2, <1>3, SharedFifoAssumption DEF IInv, TypeOK, IndicesPublished,
         WrittenBeforePublished
<1>7. RoomWhilePosting'
      BY <1>1, <1>2, <1>3, <1>4, SharedFifoAssumption DEF IInv, RoomWhilePosting
<1>8. PostedAreMessages'
      BY <1>3, <1>5 DEF IInv, PostedAreMessages
<1>9. SeenArePosted'
      BY <1>1, <1>2, <1>3, <1>4 DEF SeenArePosted
<1>10. Contents' = SubSeq(Contents, k + 1, Len(Contents))
  <2>1. Contents' = [i \in 1 .. (Used - k) |-> cell[Pos(i + k)]]
        BY <1>3, <1>4, <1>5 DEF Contents, Pos
  <2>2. /\ Contents \in Seq(Msg) /\ Len(Contents) = Used
        /\ \A i \in 1 .. Used : Contents[i] = cell[Pos(i)]
        BY ContentsFacts
  <2> QED BY <1>1, <1>2, <2>1, <2>2
<1>11. Queue!MQTake(k)
      BY <1>1, <1>3, <1>10 DEF Queue!MQTake
<1> QED BY <1>1, <1>6, <1>7, <1>8, <1>9, <1>11 DEF IInv

(* Every step keeps the invariant, and is a step of the queue or invisible *)
(* to it.                                                                  *)
LEMMA StepRefines ==
  ASSUME IInv, [Next]_vars
  PROVE  IInv' /\ [Queue!MQNext]_(Queue!queueVars)
<1> USE DEF Queue!queueVars
<1>1. ASSUME NEW m \in Msg, add_msg_check(m)
      PROVE  IInv' /\ UNCHANGED <<Contents, seen>>
  <2>1. /\ UNCHANGED <<cell, shared_wr, shared_rd, write_ind, read_ind, seen>>
        /\ wr_msg' = m /\ wr_pc' = "write"
        BY <1>1 DEF add_msg_check
  <2>2. Used' = Used /\ Contents' = Contents /\ \A i : Pos(i)' = Pos(i)
        BY <2>1 DEF Used, Contents, Pos
  <2>3. Used < MSG_NB - 1
        BY <1>1, RingArithmetic, SharedFifoAssumption
           DEF add_msg_check, space_left, Used, IInv, TypeOK, IndicesPublished
  <2>4. TypeOK' /\ RoomWhilePosting'
        BY <2>1, <2>2, <2>3 DEF IInv, TypeOK, RoomWhilePosting
  <2>5. /\ IndicesPublished' /\ WrittenBeforePublished'
        /\ PostedAreMessages' /\ SeenArePosted'
        BY <2>1, <2>2 DEF IInv, IndicesPublished, WrittenBeforePublished,
           PostedAreMessages, SeenArePosted
  <2> QED BY <2>1, <2>2, <2>4, <2>5 DEF IInv
<1>2. CASE UNCHANGED vars
      BY <1>2 DEF vars, IInv, TypeOK, IndicesPublished, RoomWhilePosting,
         WrittenBeforePublished, PostedAreMessages, SeenArePosted, Used, Pos,
         Contents
<1>3. CASE add_msg_write
      BY <1>3, WriteStep
<1>4. CASE add_msg_publish
      BY <1>4, PublishStep DEF Queue!MQNext
<1>5. CASE get_msg
      BY <1>5, LookStep DEF Queue!MQNext
<1>6. ASSUME NEW k \in 0 .. MAX_FRAMES, increment_read_ind_after_get_msg(k)
      PROVE  IInv' /\ Queue!MQNext
      BY <1>6, TakeStep DEF Queue!MQNext
<1> QED BY <1>1, <1>2, <1>3, <1>4, <1>5, <1>6 DEF Next

(* No index of either processor ever leaves the ring, for every ring size: *)
(* add_msg wraps by comparison, get_msg by subtraction, and the two agree. *)
THEOREM FifoTypeCorrect == Spec => []TypeOK
<1>1. IInv /\ [Next]_vars => IInv'
      BY StepRefines
<1>2. IInv => TypeOK
      BY DEF IInv
<1> QED BY <1>1, <1>2, InitIInv, PTL DEF Spec

(* The ring is a bounded queue for two processors without a lock: every    *)
(* message read is one posted, in order, none is read while it is written, *)
(* and no post touches a cell that has not been taken.                     *)
THEOREM ImplementsMsgQueue == Spec => RefinesMsgQueue
<1>1. Init => Queue!MQInit
  <2>1. Init => Contents = << >>
        BY InitIInv, ContentsFacts, RingArithmetic
           DEF Init, Contents, Used, IInv, TypeOK
  <2> QED BY <2>1 DEF Init, Queue!MQInit
<1>2. IInv /\ [Next]_vars => IInv' /\ [Queue!MQNext]_(Queue!queueVars)
      BY StepRefines
<1> QED BY <1>1, <1>2, InitIInv, PTL DEF Spec, RefinesMsgQueue, Queue!MQSpec
==============================================================================
