----------------------------- MODULE HifUlProofs -----------------------------
(***************************************************************************)
(* Proofs about the uplink of ipc_4ghif.c, for every number of blocks,     *)
(* cells and frames per call, and for callers with interrupts on or off.   *)
(***************************************************************************)
EXTENDS HifUl, ModularProofs, SequenceTheorems, FunctionTheorems,
        FiniteSetTheorems, TLAPS

(* The phases of a transfer, which no single flag of the code records:     *)
(* nothing happens before the AP is ready; from the start of the sDMA to   *)
(* the ul_complete tasklet the on-going flag is set, so that submit_ul is  *)
(* never at work while a transfer or its completion is outstanding.        *)
Phases ==
  /\ "b_ap_ready" \notin hif => fifo_ul = << >>
  /\ "b_sdma_ul_transfer_on_going" \in hif => "b_ap_ready" \in hif
  /\ dma # << >> => /\ "b_sdma_ul_transfer_on_going" \in hif
                    /\ "ul_complete" \notin tasklets
  /\ "ul_complete" \in tasklets => "b_sdma_ul_transfer_on_going" \in hif
  /\ pc # "idle" => /\ "b_ap_ready" \in hif
                    /\ "b_sdma_ul_transfer_on_going" \notin hif

(* The frames reserved so far fit in the UL FIFO whatever the ISRs and the *)
(* BP have done since their room was tested.                               *)
RoomForReserved == pc # "idle" => Len(adr) <= fifo_4ghif_ul_space_left

(* A submit_ul that is going to answer RESOURCES_FULL has put the pause on *)
(* record, unless an ACK has turned it into a resume since.                *)
PauseOnRecord ==
  /\ pc # "idle" => want > 0
  /\ pc = "start_full" => "b_ul_pause" \in hif \/ "ul_resume" \in tasklets

(* The inductive invariant.  The room of a transfer follows from the room  *)
(* of the reservation, which lasts only because Phases lets nobody else    *)
(* post to the FIFO meanwhile.                                             *)
IInv == /\ TypeOK
        /\ Phases
        /\ RoomForReserved
        /\ RoomReserved
        /\ PauseOnRecord
        /\ ThrottleOnRecord

----------------------------------------------------------------------------
LEMMA InitIInv == Init => IInv
BY HifUlAssumption
   DEF Init, IInv, TypeOK, Phases, RoomForReserved, RoomReserved,
       PauseOnRecord, ThrottleOnRecord, fifo_4ghif_ul_space_left

(* Appending keeps a message sequence one and adds up the lengths.         *)
LEMMA ConcatLen ==
  ASSUME NEW S, NEW s \in Seq(S), NEW t \in Seq(S)
  PROVE  s \o t \in Seq(S) /\ Len(s \o t) = Len(s) + Len(t)
BY ConcatProperties

(* The message table is a sequence of messages, one for each block.        *)
LEMMA MsgTable ==
  ASSUME TypeOK
  PROVE  /\ fifo_data_ul_msg_table \in Seq(Message)
         /\ Len(fifo_data_ul_msg_table) = Len(adr)
<1> DEFINE m(i) == [type |-> "UL_DATA", pkt |-> Nth(pkt_next + i - 1),
                    blk |-> adr[i]]
<1>1. Len(adr) \in Nat /\ \A i \in 1 .. Len(adr) : adr[i] \in Blocks
      BY LenProperties, ElementOfSeq DEF TypeOK
<1>2. \A i \in 1 .. Len(adr) : Nth(pkt_next + i - 1) \in 0 .. (PktMod - 1)
      BY HifUlAssumption, <1>1 DEF Nth, TypeOK
<1>3. \A i \in 1 .. Len(adr) : m(i) \in Message
      BY <1>1, <1>2 DEF Message
<1>4. fifo_data_ul_msg_table = [i \in 1 .. Len(adr) |-> m(i)]
      BY DEF fifo_data_ul_msg_table
<1> HIDE DEF m
<1>5. [i \in 1 .. Len(adr) |-> m(i)] \in Seq(Message)
      BY <1>1, <1>3, IsASeq
<1>6. Len([i \in 1 .. Len(adr) |-> m(i)]) = Len(adr)
      BY <1>1, <1>5, LenProperties
<1> QED BY <1>4, <1>5, <1>6

(* Steps that end in the ACK processing of the mailbox ISR or a tasklet.   *)
LEMMA AcksIInv ==
  ASSUME IInv, fifo_ack_4ghif_process_dl_msg,
         UNCHANGED <<call, dma, fifo_ul, bp, dd, pkts>>,
         mbox' \in {"irq", "none"}
  PROVE  IInv'
<1>1. /\ held' \subseteq Blocks
      /\ ack_dl' = << >>
      /\ hif' \subseteq hif /\ tasklets' \subseteq tasklets \cup {"ul_resume"}
      /\ hif \subseteq hif' \cup {"b_ul_pause"} /\ tasklets \subseteq tasklets'
      /\ "b_ul_pause" \in hif => "b_ul_pause" \in hif' \/ "ul_resume" \in tasklets'
      BY DEF fifo_ack_4ghif_process_dl_msg, IInv, TypeOK
<1>2. TypeOK'
      BY <1>1, EmptySeq DEF IInv, TypeOK, call, pkts
<1>3. Phases'
      BY <1>1 DEF IInv, Phases, call
<1>4. RoomForReserved' /\ RoomReserved'
      BY DEF IInv, RoomForReserved, RoomReserved, fifo_4ghif_ul_space_left, call
<1>5. PauseOnRecord' /\ ThrottleOnRecord'
      BY <1>1 DEF IInv, PauseOnRecord, ThrottleOnRecord, call
<1> QED BY <1>2, <1>3, <1>4, <1>5 DEF IInv

(* One step for each action of the driver, the ISRs, tasklets and the BP.  *)
LEMMA StepIInv == IInv /\ [Next]_vars => IInv'
<1> SUFFICES ASSUME IInv, [Next]_vars PROVE IInv'
    OBVIOUS
<1> USE HifUlAssumption
<1>0. /\ Len(fifo_ul) \in Nat /\ Len(dma) \in Nat /\ Len(adr) \in Nat
      /\ fifo_4ghif_ul_space_left = FIFO_UL_MSG_NB - 1 - Len(fifo_ul)
      BY LenProperties DEF IInv, TypeOK, fifo_4ghif_ul_space_left
<1>a. CASE UNCHANGED vars
      BY <1>a DEF vars, IInv, TypeOK, Phases, RoomForReserved, RoomReserved,
         PauseOnRecord, ThrottleOnRecord, fifo_4ghif_ul_space_left
<1>1. CASE IPC_4GHIF_ready
  <2>1. /\ pc = "idle" /\ "b_ap_ready" \notin hif
        /\ hif' = hif \cup {"b_ap_ready"}
        /\ UNCHANGED <<held, call, dma, bp, ack_dl, mbox, tasklets, dd, pkts>>
        BY <1>1 DEF IPC_4GHIF_ready
  <2>2. fifo_ul' \in Seq(Message) /\ Len(fifo_ul') = 1
    <3> DEFINE c == [type |-> "INIT_CNF", pkt |-> -1, blk |-> -1]
    <3>1. c \in Message /\ fifo_ul = << >> /\ fifo_ul' = Append(fifo_ul, c)
          BY <1>1 DEF IPC_4GHIF_ready, IInv, Phases, Message
    <3> QED BY <3>1, AppendProperties, EmptySeq
  <2>3. TypeOK'
        BY <2>1, <2>2 DEF IInv, TypeOK, call, pkts
  <2>4. Phases' /\ dma = << >>
        BY <2>1 DEF IInv, Phases, call
  <2>5. RoomForReserved' /\ RoomReserved'
        BY <2>1, <2>2, <2>4, EmptySeq
        DEF RoomForReserved, RoomReserved, fifo_4ghif_ul_space_left, call
  <2>6. PauseOnRecord' /\ ThrottleOnRecord'
        BY <2>1 DEF IInv, PauseOnRecord, ThrottleOnRecord, call
  <2> QED BY <2>3, <2>4, <2>5, <2>6 DEF IInv
<1>2. ASSUME NEW n \in 1 .. MaxBatch, submit_ul_call(n) PROVE IInv'
  <2>1. /\ "b_ap_ready" \in hif /\ "b_sdma_ul_transfer_on_going" \notin hif
        /\ pc' = "reserve" /\ want' = n /\ adr' = << >> /\ irqs' \in {"on", "off"}
        /\ UNCHANGED <<hif, held, dma, link, tasklets, dd, pkts>>
        BY <1>2 DEF submit_ul_call
  <2>2. TypeOK'
        BY <2>1, EmptySeq DEF IInv, TypeOK, link, pkts
  <2>3. Phases'
        BY <2>1 DEF IInv, Phases, link
  <2>4. fifo_4ghif_ul_space_left \in Nat
        BY <1>0 DEF IInv, RoomReserved
  <2>5. RoomForReserved' /\ RoomReserved'
        BY <2>1, <2>4, EmptySeq
        DEF IInv, RoomForReserved, RoomReserved, fifo_4ghif_ul_space_left, link
  <2>6. PauseOnRecord' /\ ThrottleOnRecord'
        BY <2>1 DEF PauseOnRecord, IInv, ThrottleOnRecord
  <2> QED BY <2>2, <2>3, <2>5, <2>6 DEF IInv
<1>3. CASE submit_ul_reserve
  <2>0. /\ pc = "reserve" /\ Len(adr) < want
        /\ UNCHANGED <<irqs, want, dma, link, tasklets, dd, pkts>>
        BY <1>3 DEF submit_ul_reserve, MoreToReserve
  <2>1. CASE /\ hif' = hif \cup {"b_ul_pause"} /\ pc' = "start_full"
             /\ UNCHANGED <<held, adr>>
    <3>1. TypeOK'
          BY <2>0, <2>1 DEF IInv, TypeOK, link, pkts
    <3>2. Phases' /\ PauseOnRecord' /\ ThrottleOnRecord'
          BY <2>0, <2>1 DEF IInv, Phases, PauseOnRecord, ThrottleOnRecord, link
    <3>3. RoomForReserved' /\ RoomReserved'
          BY <2>0, <2>1 DEF IInv, RoomForReserved, RoomReserved,
             fifo_4ghif_ul_space_left, link
    <3> QED BY <3>1, <3>2, <3>3 DEF IInv
  <2>2. ASSUME NEW b \in Blocks, RoomFor(Len(adr)),
               held' = held \cup {b}, adr' = Append(adr, b),
               UNCHANGED <<hif, pc>>
        PROVE  IInv'
    <3>1. adr' \in Seq(Blocks) /\ Len(adr') = Len(adr) + 1
          BY <2>2, AppendProperties DEF IInv, TypeOK
    <3>2. TypeOK'
          BY <2>0, <2>2, <3>1, <1>0 DEF IInv, TypeOK, link, pkts
    <3>3. Phases' /\ PauseOnRecord' /\ ThrottleOnRecord'
          BY <2>0, <2>2 DEF IInv, Phases, PauseOnRecord, ThrottleOnRecord, link
    <3>4. RoomForReserved' /\ RoomReserved'
          BY <1>0, <2>0, <2>2, <3>1 DEF IInv, RoomFor, RoomForReserved,
             RoomReserved, fifo_4ghif_ul_space_left, link
    <3> QED BY <3>2, <3>3, <3>4 DEF IInv
  <2>3. CASE pc' = "mem_full" /\ UNCHANGED <<hif, held, adr>>
    <3>1. TypeOK'
          BY <2>0, <2>3 DEF IInv, TypeOK, link, pkts
    <3>2. Phases' /\ PauseOnRecord' /\ ThrottleOnRecord'
          BY <2>0, <2>3 DEF IInv, Phases, PauseOnRecord, ThrottleOnRecord, link
    <3>3. RoomForReserved' /\ RoomReserved'
          BY <2>0, <2>3 DEF IInv, RoomForReserved, RoomReserved,
             fifo_4ghif_ul_space_left, link
    <3> QED BY <3>1, <3>2, <3>3 DEF IInv
  <2> QED BY <1>3, <2>1, <2>2, <2>3 DEF submit_ul_reserve
<1>4. CASE submit_ul_mem_full
  <2>1. /\ pc = "mem_full" /\ hif' = hif \cup {"b_ul_pause"} /\ pc' = "start_full"
        /\ UNCHANGED <<held, irqs, want, adr, dma, link, tasklets, dd, pkts>>
        BY <1>4 DEF submit_ul_mem_full
  <2>2. TypeOK'
        BY <2>1 DEF IInv, TypeOK, link, pkts
  <2>3. Phases' /\ PauseOnRecord' /\ ThrottleOnRecord'
        BY <2>1 DEF IInv, Phases, PauseOnRecord, ThrottleOnRecord, link
  <2>4. RoomForReserved' /\ RoomReserved'
        BY <2>1 DEF IInv, RoomForReserved, RoomReserved,
           fifo_4ghif_ul_space_left, link
  <2> QED BY <2>2, <2>3, <2>4 DEF IInv
<1>5. CASE submit_ul_start
  <2>1. /\ pc # "idle" /\ dma' = fifo_data_ul_msg_table
        /\ pc' = "idle" /\ irqs' = "on" /\ want' = 0 /\ adr' = << >>
        /\ pkt_next' = Nth(pkt_next + processing_packet_nb)
        /\ UNCHANGED <<held, link, tasklets, pkt_bp>>
        BY <1>5 DEF submit_ul_start
  <2>2. dma' \in Seq(Message) /\ Len(dma') = Len(adr)
        BY <2>1, MsgTable DEF IInv
  <2>3. /\ dd' \subseteq {"TX_BUSY", "TX_THROTTLE"}
        /\ \/ adr = << >> /\ hif' = hif
           \/ hif' = hif \cup {"b_sdma_ul_transfer_on_going"}
        BY <1>5 DEF submit_ul_start
  <2>4. "TX_THROTTLE" \in dd' => pc = "start_full"
    <3>1. CASE adr = << >>
      <4>1. Len(adr) = 0 /\ want > 0
            BY <2>1, <3>1, EmptySeq DEF IInv, PauseOnRecord
      <4> QED BY <4>1, <1>5 DEF submit_ul_start, MoreToReserve
    <3>2. CASE adr # << >>
          BY <1>5, <3>2 DEF submit_ul_start
    <3> QED BY <3>1, <3>2
  <2>5. pkt_next' \in 0 .. (PktMod - 1)
        BY <1>0, <2>1 DEF IInv, TypeOK, Nth, processing_packet_nb
  <2>6. TypeOK'
    <3>1. /\ dma' \in Seq(Message) /\ Len(dma') <= MaxBatch
          /\ adr' \in Seq(Blocks) /\ Len(adr') <= want' /\ want' \in 0 .. MaxBatch
          BY <1>0, <2>1, <2>2, EmptySeq DEF IInv, TypeOK
    <3>2. /\ hif' \subseteq {"b_ap_ready", "b_ul_pause",
                            "b_sdma_ul_transfer_on_going"}
          /\ held' \subseteq Blocks
          /\ tasklets' \subseteq {"ul_complete", "ul_resume"}
          BY <2>1, <2>3 DEF IInv, TypeOK
    <3>3. /\ pc' \in {"idle", "reserve", "mem_full", "start_full"}
          /\ irqs' \in {"on", "off"} /\ pkt_bp' \in 0 .. (PktMod - 1)
          BY <2>1 DEF IInv, TypeOK
    <3>4. /\ fifo_ul' \in Seq(Message) /\ bp' \subseteq Blocks
          /\ ack_dl' \in Seq(Blocks) /\ mbox' \in {"irq", "none"}
          BY <2>1 DEF IInv, TypeOK, link
    <3> QED BY <2>3, <2>5, <3>1, <3>2, <3>3, <3>4 DEF TypeOK
  <2>7. adr = << >> => dma' = << >>
        BY <2>2, EmptySeq
  <2>8. Phases'
        BY <2>1, <2>3, <2>7 DEF IInv, Phases, link
  <2>9. RoomForReserved' /\ RoomReserved'
        BY <2>1, <2>2 DEF IInv, RoomForReserved, RoomReserved,
           fifo_4ghif_ul_space_left, link
  <2>10. PauseOnRecord' /\ ThrottleOnRecord'
        BY <2>1, <2>3, <2>4 DEF IInv, PauseOnRecord, ThrottleOnRecord
  <2> QED BY <2>6, <2>8, <2>9, <2>10 DEF IInv
<1>6. CASE sdma_4ghif_ul_callback
  <2>1. /\ dma # << >> /\ fifo_ul' = fifo_ul \o dma /\ dma' = << >>
        /\ tasklets' = tasklets \cup {"ul_complete"}
        /\ UNCHANGED <<hif, held, call, bp, ack_dl, mbox, dd, pkts>>
        BY <1>6 DEF sdma_4ghif_ul_callback
  <2>2. fifo_ul' \in Seq(Message) /\ Len(fifo_ul') = Len(fifo_ul) + Len(dma)
        BY <2>1, ConcatLen DEF IInv, TypeOK
  <2>3. TypeOK'
        BY <2>1, <2>2, EmptySeq DEF IInv, TypeOK, call, pkts
  <2>4. pc = "idle" /\ Phases'
        BY <2>1 DEF IInv, Phases, call
  <2>5. RoomForReserved' /\ RoomReserved'
        BY <1>0, <2>1, <2>2, <2>4, EmptySeq DEF IInv, RoomForReserved,
           RoomReserved, fifo_4ghif_ul_space_left, call
  <2>6. PauseOnRecord' /\ ThrottleOnRecord'
        BY <2>1 DEF IInv, PauseOnRecord, ThrottleOnRecord, call
  <2> QED BY <2>3, <2>4, <2>5, <2>6 DEF IInv
<1>7. CASE mailbox_ISR_4GHIF
      BY <1>7, AcksIInv DEF mailbox_ISR_4GHIF
<1>8. CASE dl_complete_tasklet_acks
      BY <1>8, AcksIInv DEF dl_complete_tasklet_acks, IInv, TypeOK
<1>9. CASE ul_complete_tasklet_function \/ ul_resume_tasklet_function
  <2>1. /\ pc = "idle"
        /\ UNCHANGED <<held, call, dma, link, pkts>>
        BY <1>9 DEF ul_complete_tasklet_function, ul_resume_tasklet_function
  <2>2. TypeOK'
        BY <1>9, <2>1 DEF ul_complete_tasklet_function,
           ul_resume_tasklet_function, IInv, TypeOK, call, link, pkts
  <2>3. Phases'
        BY <1>9, <2>1 DEF ul_complete_tasklet_function,
           ul_resume_tasklet_function, IInv, Phases, call, link
  <2>4. RoomForReserved' /\ RoomReserved'
        BY <2>1 DEF IInv, RoomForReserved, RoomReserved,
           fifo_4ghif_ul_space_left, call, link
  <2>5. PauseOnRecord' /\ ThrottleOnRecord'
        BY <1>9, <2>1 DEF ul_complete_tasklet_function,
           ul_resume_tasklet_function, IInv, PauseOnRecord, ThrottleOnRecord, call
  <2> QED BY <2>2, <2>3, <2>4, <2>5 DEF IInv
<1>10. CASE bp_read
  <2>1. /\ fifo_ul # << >> /\ fifo_ul' = Tail(fifo_ul)
        /\ UNCHANGED <<hif, held, call, dma, ack_dl, mbox, tasklets, dd, pkt_next>>
        BY <1>10 DEF bp_read
  <2>2. /\ Head(fifo_ul) \in Message /\ fifo_ul' \in Seq(Message)
        /\ Len(fifo_ul') = Len(fifo_ul) - 1
        BY <2>1, HeadTailProperties DEF IInv, TypeOK
  <2>3. bp' \subseteq Blocks /\ pkt_bp' \in 0 .. (PktMod - 1)
    <3>1. CASE Head(fifo_ul).type = "UL_DATA"
      <4>1. Head(fifo_ul).blk \in Blocks
            BY <2>2, <3>1 DEF Message
      <4> QED BY <1>10, <3>1, <4>1 DEF bp_read, Nth, IInv, TypeOK
    <3>2. CASE Head(fifo_ul).type # "UL_DATA"
          BY <1>10, <3>2 DEF bp_read, IInv, TypeOK
    <3> QED BY <3>1, <3>2
  <2>4. TypeOK'
        BY <2>1, <2>2, <2>3 DEF IInv, TypeOK, call
  <2>5. Phases' /\ PauseOnRecord' /\ ThrottleOnRecord'
        BY <2>1 DEF IInv, Phases, PauseOnRecord, ThrottleOnRecord, call
  <2>6. RoomForReserved' /\ RoomReserved'
        BY <1>0, <2>1, <2>2 DEF IInv, RoomForReserved, RoomReserved,
           fifo_4ghif_ul_space_left, call
  <2> QED BY <2>4, <2>5, <2>6 DEF IInv
<1>11. CASE bp_ack
  <2>1. /\ bp' \subseteq bp /\ mbox' = "irq"
        /\ \E b \in Blocks : ack_dl' = Append(ack_dl, b)
        /\ UNCHANGED <<hif, held, call, dma, fifo_ul, tasklets, dd, pkts>>
        BY <1>11 DEF bp_ack, IInv, TypeOK
  <2>2. ack_dl' \in Seq(Blocks)
        BY <2>1, AppendProperties DEF IInv, TypeOK
  <2>3. TypeOK'
        BY <2>1, <2>2 DEF IInv, TypeOK, call, pkts
  <2>4. Phases' /\ PauseOnRecord' /\ ThrottleOnRecord'
        BY <2>1 DEF IInv, Phases, PauseOnRecord, ThrottleOnRecord, call
  <2>5. RoomForReserved' /\ RoomReserved'
        BY <2>1 DEF IInv, RoomForReserved, RoomReserved,
           fifo_4ghif_ul_space_left, call
  <2> QED BY <2>3, <2>4, <2>5 DEF IInv
<1>12. CASE submit_ul_refused
      BY <1>12, <1>a DEF submit_ul_refused
<1> QED BY <1>a, <1>1, <1>2, <1>3, <1>4, <1>5, <1>6, <1>7, <1>8, <1>9, <1>10,
           <1>11, <1>12 DEF Next

----------------------------------------------------------------------------
(* The uplink never leaves its types: no call fills more of its message    *)
(* table than it was asked for, whatever the FIFO size and batch.          *)
THEOREM UlTypeCorrect == Spec => []TypeOK
<1>1. IInv => TypeOK
      BY DEF IInv
<1> QED BY <1>1, InitIInv, StepIInv, PTL DEF Spec

(* submit_ul tests the room once and the sDMA ISR uses it much later: the  *)
(* ISR's panic for a full FIFO is unreachable for every FIFO size, batch   *)
(* size and number of blocks, with interrupts on or off in the caller.     *)
THEOREM RoomAlwaysReserved == Spec => []RoomReserved
<1>1. IInv => RoomReserved
      BY DEF IInv
<1> QED BY <1>1, InitIInv, StepIInv, PTL DEF Spec

(* A data driver told RESOURCES_FULL waits on a pause the HIF has on       *)
(* record or on a resume that is scheduled, for all constants.             *)
THEOREM ThrottleAlwaysOnRecord == Spec => []ThrottleOnRecord
<1>1. IInv => ThrottleOnRecord
      BY DEF IInv
<1> QED BY <1>1, InitIInv, StepIInv, PTL DEF Spec

----------------------------------------------------------------------------
(* Phases makes BusyWhileTransfer inductive: while a submit_ul is at work  *)
(* no completion can come to end somebody else's transfer.                 *)
LEMMA StepBusy ==
  IInv /\ BusyWhileTransfer /\ [Next]_vars => BusyWhileTransfer'
<1> SUFFICES ASSUME IInv, BusyWhileTransfer, [Next]_vars
             PROVE  BusyWhileTransfer'
    OBVIOUS
<1>1. CASE submit_ul_start
  <2>1. Len(fifo_data_ul_msg_table) = Len(adr) /\ adr \in Seq(Blocks)
        /\ fifo_data_ul_msg_table \in Seq(Message)
        BY MsgTable DEF IInv, TypeOK
  <2>2. dma' = << >> <=> adr = << >>
        BY <1>1, <2>1, EmptySeq DEF submit_ul_start
  <2>3. /\ "b_sdma_ul_transfer_on_going" \notin hif
        /\ "ul_complete" \notin tasklets
        /\ tasklets' = tasklets
        BY <1>1 DEF submit_ul_start, IInv, Phases
  <2>4. CASE adr = << >>
    <3>1. dd' = {"TX_THROTTLE"} /\ hif' = hif
          BY <1>1, <2>4 DEF submit_ul_start
    <3> QED BY <2>2, <2>3, <2>4, <3>1 DEF BusyWhileTransfer
  <2>5. CASE adr # << >>
    <3>1. "TX_BUSY" \in dd' /\ "b_sdma_ul_transfer_on_going" \in hif'
          BY <1>1, <2>5 DEF submit_ul_start
    <3> QED BY <2>2, <2>5, <3>1 DEF BusyWhileTransfer
  <2> QED BY <2>4, <2>5
<1>2. CASE sdma_4ghif_ul_callback
      BY <1>2 DEF sdma_4ghif_ul_callback, BusyWhileTransfer
<1>3. CASE ul_complete_tasklet_function
      BY <1>3 DEF ul_complete_tasklet_function, BusyWhileTransfer, IInv, Phases
<1>4. CASE ul_resume_tasklet_function
      BY <1>4 DEF ul_resume_tasklet_function, BusyWhileTransfer
<1>5. CASE mailbox_ISR_4GHIF \/ dl_complete_tasklet_acks
      BY <1>5 DEF mailbox_ISR_4GHIF, dl_complete_tasklet_acks,
         fifo_ack_4ghif_process_dl_msg, BusyWhileTransfer
<1>6. CASE submit_ul_reserve \/ submit_ul_mem_full \/ IPC_4GHIF_ready
      BY <1>6 DEF submit_ul_reserve, submit_ul_mem_full, IPC_4GHIF_ready,
         BusyWhileTransfer
<1>7. CASE \E n \in 1 .. MaxBatch : submit_ul_call(n)
      BY <1>7 DEF submit_ul_call, BusyWhileTransfer
<1>8. CASE bp_read \/ bp_ack
      BY <1>8 DEF bp_read, bp_ack, BusyWhileTransfer
<1>9. CASE submit_ul_refused \/ UNCHANGED vars
      BY <1>9 DEF submit_ul_refused, vars, BusyWhileTransfer
<1> QED BY <1>1, <1>2, <1>3, <1>4, <1>5, <1>6, <1>7, <1>8, <1>9 DEF Next

(* The watchdog's UL recovery finds a TX_BUSY only while the HIF has the   *)
(* transfer, for every FIFO size, batch and number of blocks: cancel_ul    *)
(* never answers NO_TRANS_ON_GOING to it.                                  *)
THEOREM BusyOnlyWhileTransfer == Spec => []BusyWhileTransfer
<1>1. Init => BusyWhileTransfer
      BY DEF Init, BusyWhileTransfer
<1>2. (IInv /\ BusyWhileTransfer) /\ [Next]_vars => (IInv /\ BusyWhileTransfer)'
      BY StepIInv, StepBusy
<1> QED BY <1>1, <1>2, InitIInv, PTL DEF Spec

----------------------------------------------------------------------------
(* A resume is owed if and only if the driver waits for it.  Until a call  *)
(* declares its pause there is none, since the driver does not call while  *)
(* it waits; a pause becomes a resume, so the two are never there at once. *)
ResumeExact ==
  /\ pc = "idle" =>
       ("TX_THROTTLE" \in dd <=> "b_ul_pause" \in hif \/ "ul_resume" \in tasklets)
  /\ pc # "idle" => dd = {}
  /\ pc \in {"reserve", "mem_full"} =>
       "b_ul_pause" \notin hif /\ "ul_resume" \notin tasklets
  /\ ~("b_ul_pause" \in hif /\ "ul_resume" \in tasklets)

(* What the refinement needs of a state.                                   *)
ServiceInv == IInv /\ BusyWhileTransfer /\ ResumeExact

(* The ACK processing turns a pause into a resume: what is owed stays.     *)
LEMMA AcksOwe ==
  ASSUME ServiceInv, fifo_ack_4ghif_process_dl_msg, UNCHANGED <<call, dma, dd>>
  PROVE  ResumeExact' /\ UNCHANGED <<"b_ap_ready" \in hif, Waits, Owed>>
<1>1. /\ "b_ul_pause" \in hif \/ "ul_resume" \in tasklets
           <=> "b_ul_pause" \in hif' \/ "ul_resume" \in tasklets'
      /\ "b_sdma_ul_transfer_on_going" \in hif
           <=> "b_sdma_ul_transfer_on_going" \in hif'
      /\ "b_ap_ready" \in hif <=> "b_ap_ready" \in hif'
      /\ "ul_resume" \in tasklets' => "b_ul_pause" \notin hif' \/ "ul_resume" \in tasklets
      /\ "b_ul_pause" \in hif' => "b_ul_pause" \in hif
      /\ pc' = pc /\ dd' = dd
      BY DEF fifo_ack_4ghif_process_dl_msg, call
<1>2. ResumeExact'
      BY <1>1 DEF ServiceInv, ResumeExact
<1>3. Waits' = Waits
      BY <1>1 DEF Waits
<1>4. Owed' = Owed
      BY <1>1 DEF Owed
<1> QED BY <1>1, <1>2, <1>3, <1>4

(* Every step keeps the two layers in agreement and is a step of the       *)
(* service or leaves it alone.                                             *)
LEMMA StepService ==
  ServiceInv /\ [Next]_vars
    => ResumeExact' /\ [Service!USNext]_(Service!serviceVars)
<1> SUFFICES ASSUME ServiceInv, [Next]_vars
             PROVE  ResumeExact' /\ [Service!USNext]_(Service!serviceVars)
    OBVIOUS
<1> USE DEF Service!serviceVars
<1>a. TypeOK /\ Phases /\ PauseOnRecord
      BY DEF ServiceInv, IInv
<1>1. CASE IPC_4GHIF_ready
  <2>1. ResumeExact' /\ Waits' = Waits /\ Owed' = Owed
        BY <1>1 DEF IPC_4GHIF_ready, ServiceInv, ResumeExact, Waits, Owed, call
  <2>2. Service!USReady
        BY <1>1, <2>1 DEF IPC_4GHIF_ready, Service!USReady
  <2> QED BY <2>1, <2>2 DEF Service!USNext
<1>2. CASE \E n \in 1 .. MaxBatch : submit_ul_call(n)
  <2>1. ResumeExact' /\ Waits' = Waits /\ Owed' = Owed /\ hif' = hif
        BY <1>2 DEF submit_ul_call, ServiceInv, ResumeExact, Waits, Owed
  <2> QED BY <2>1
<1>3. CASE submit_ul_reserve \/ submit_ul_mem_full
  <2>1. ResumeExact'
        BY <1>3 DEF submit_ul_reserve, submit_ul_mem_full, ServiceInv, ResumeExact
  <2>2. Waits' = Waits /\ Owed' = Owed
        BY <1>3 DEF submit_ul_reserve, submit_ul_mem_full, Waits, Owed
  <2>3. "b_ap_ready" \in hif' <=> "b_ap_ready" \in hif
        BY <1>3 DEF submit_ul_reserve, submit_ul_mem_full
  <2> QED BY <2>1, <2>2, <2>3
<1>4. CASE submit_ul_start
  <2>1. /\ dd = {} /\ "b_ap_ready" \in hif
        /\ "b_sdma_ul_transfer_on_going" \notin hif
        /\ tasklets' = tasklets /\ pc' = "idle" /\ pc # "idle"
        BY <1>4, <1>a DEF submit_ul_start, ServiceInv, ResumeExact, Phases
  <2>2. Waits = {}
        BY <2>1 DEF Waits
  <2>3. "b_ap_ready" \in hif'
        BY <1>4, <2>1 DEF submit_ul_start
  <2>4. CASE adr = << >>
    <3>1. dd' = {"TX_THROTTLE"} /\ hif' = hif
          BY <1>4, <2>4 DEF submit_ul_start
    <3>2. pc = "start_full"
          BY <1>4, <1>a, <2>4, EmptySeq
             DEF submit_ul_start, MoreToReserve, PauseOnRecord, TypeOK
    <3>3. "b_ul_pause" \in hif \/ "ul_resume" \in tasklets
          BY <1>a, <3>2 DEF PauseOnRecord
    <3>4. ResumeExact'
          BY <2>1, <3>1, <3>3 DEF ServiceInv, ResumeExact
    <3>5. Waits' = {"ul_resume"} /\ Owed' = {"ul_resume"}
          BY <2>1, <3>1, <3>3 DEF Waits, Owed
    <3>6. Service!USSubmit({"ul_resume"})
          BY <2>1, <2>2, <2>3, <3>5 DEF Service!USSubmit
    <3> QED BY <3>4, <3>6 DEF Service!USNext
  <2>5. CASE adr # << >> /\ pc = "start_full"
    <3>1. /\ dd' = {"TX_BUSY", "TX_THROTTLE"}
          /\ hif' = hif \cup {"b_sdma_ul_transfer_on_going"}
          BY <1>4, <2>5 DEF submit_ul_start
    <3>2. "b_ul_pause" \in hif \/ "ul_resume" \in tasklets
          BY <1>a, <2>5 DEF PauseOnRecord
    <3>3. ResumeExact'
          BY <2>1, <3>1, <3>2 DEF ServiceInv, ResumeExact
    <3>4. /\ Waits' = {"ul_complete", "ul_resume"}
          /\ Owed' = {"ul_complete", "ul_resume"}
          BY <2>1, <3>1, <3>2 DEF Waits, Owed
    <3>5. Service!USSubmit({"ul_complete", "ul_resume"})
          BY <2>1, <2>2, <2>3, <3>4 DEF Service!USSubmit
    <3> QED BY <3>3, <3>5 DEF Service!USNext
  <2>6. CASE adr # << >> /\ pc = "reserve"
    <3>1. /\ dd' = {"TX_BUSY"}
          /\ hif' = hif \cup {"b_sdma_ul_transfer_on_going"}
          BY <1>4, <2>6 DEF submit_ul_start
    <3>2. "b_ul_pause" \notin hif /\ "ul_resume" \notin tasklets
          BY <2>6 DEF ServiceInv, ResumeExact
    <3>3. ResumeExact'
          BY <2>1, <3>1, <3>2 DEF ResumeExact
    <3>4. Waits' = {"ul_complete"} /\ Owed' = {"ul_complete"}
          BY <2>1, <3>1, <3>2 DEF Waits, Owed
    <3>5. Service!USSubmit({"ul_complete"})
          BY <2>1, <2>2, <2>3, <3>4 DEF Service!USSubmit
    <3> QED BY <3>3, <3>5 DEF Service!USNext
  <2> QED BY <1>4, <2>4, <2>5, <2>6 DEF submit_ul_start
<1>5. CASE ul_complete_tasklet_function
  <2>1. "ul_complete" \in Owed
        BY <1>5, <1>a DEF ul_complete_tasklet_function, Phases, Owed
  <2>2. /\ Waits' = Waits \ {"ul_complete"} /\ Owed' = Owed \ {"ul_complete"}
        /\ "b_ap_ready" \in hif' <=> "b_ap_ready" \in hif
        BY <1>5 DEF ul_complete_tasklet_function, Waits, Owed, call
  <2>3. ResumeExact'
        BY <1>5 DEF ul_complete_tasklet_function, ServiceInv, ResumeExact, call
  <2>4. Service!USCallback("ul_complete")
        BY <2>1, <2>2 DEF Service!USCallback
  <2> QED BY <2>3, <2>4 DEF Service!USNext
<1>6. CASE ul_resume_tasklet_function
  <2>1. /\ pc = "idle" /\ pc' = pc /\ hif' = hif
        /\ "ul_resume" \in tasklets /\ "ul_resume" \notin tasklets'
        /\ dd' = dd \ {"TX_THROTTLE"}
        BY <1>6 DEF ul_resume_tasklet_function, call
  <2>2. "b_ul_pause" \notin hif
        BY <2>1 DEF ServiceInv, ResumeExact
  <2>3. "ul_resume" \in Owed
        BY <2>1 DEF Owed
  <2>4. Waits' = Waits \ {"ul_resume"} /\ Owed' = Owed \ {"ul_resume"}
        BY <2>1, <2>2 DEF Waits, Owed
  <2>5. ResumeExact'
        BY <2>1, <2>2 DEF ResumeExact
  <2>6. Service!USCallback("ul_resume")
        BY <2>1, <2>3, <2>4 DEF Service!USCallback
  <2> QED BY <2>5, <2>6 DEF Service!USNext
<1>7. CASE mailbox_ISR_4GHIF \/ dl_complete_tasklet_acks
      BY <1>7, AcksOwe DEF mailbox_ISR_4GHIF, dl_complete_tasklet_acks
<1>8. CASE sdma_4ghif_ul_callback \/ bp_read \/ bp_ack
  <2>1. /\ hif' = hif /\ pc' = pc /\ dd' = dd
        /\ "ul_resume" \in tasklets' <=> "ul_resume" \in tasklets
        BY <1>8 DEF sdma_4ghif_ul_callback, bp_read, bp_ack, call
  <2>2. ResumeExact' /\ Waits' = Waits /\ Owed' = Owed
        BY <2>1 DEF ServiceInv, ResumeExact, Waits, Owed
  <2> QED BY <2>1, <2>2
<1>9. CASE submit_ul_refused \/ UNCHANGED vars
      BY <1>9 DEF submit_ul_refused, vars, ServiceInv, ResumeExact, Waits, Owed
<1> QED BY <1>1, <1>2, <1>3, <1>4, <1>5, <1>6, <1>7, <1>8, <1>9 DEF Next

(* The HIF keeps its agreement with the data driver, for every FIFO size,  *)
(* batch and number of blocks and wherever interrupts come: after each     *)
(* answer of submit_ul it owes the callbacks the driver waits for, and no  *)
(* others.                                                                 *)
THEOREM ImplementsUlService == Spec => RefinesUlService
<1>1. Init => ServiceInv /\ Service!USInit
  <2>1. Init => BusyWhileTransfer /\ ResumeExact
        BY DEF Init, BusyWhileTransfer, ResumeExact
  <2>2. Init => Service!USInit
        BY DEF Init, Service!USInit, Waits, Owed
  <2> QED BY <2>1, <2>2, InitIInv DEF ServiceInv
<1>2. ServiceInv /\ [Next]_vars => ServiceInv'
      BY StepIInv, StepBusy, StepService DEF ServiceInv
<1>3. ServiceInv /\ [Next]_vars => [Service!USNext]_(Service!serviceVars)
      BY StepService
<1> QED BY <1>1, <1>2, <1>3, PTL DEF Spec, RefinesUlService, Service!USSpec

----------------------------------------------------------------------------
(* The data frames between submit_ul and the BP: those in the FIFO and     *)
(* behind them those of the transfer.                                      *)
Way == DataIn(fifo_ul) \o dma

DataMessage == [type : {"UL_DATA"}, pkt : 0 .. (PktMod - 1), blk : Blocks]

(* INIT_CNF is the first message ever posted: what is behind it is data,   *)
(* and nothing but data is transferred.                                    *)
CnfFirst ==
  /\ \A i \in 2 .. Len(fifo_ul) : fifo_ul[i] \in DataMessage
  /\ \A i \in 1 .. Len(dma) : dma[i] \in DataMessage

(* Nothing is reserved between two calls of submit_ul.                     *)
NoneReserved == pc = "idle" => adr = << >>

Elems(s) == {s[i] : i \in 1 .. Len(s)}
Distinct(s) == \A i, j \in 1 .. Len(s) : s[i] = s[j] => i = j

(* The blocks under way to the BP, the reserved ones last.                 *)
BlksOf(msgs) == [i \in 1 .. Len(msgs) |-> msgs[i].blk]
Out == BlksOf(Way) \o adr

(* What BlocksConserved counts, block by block.                            *)
BlocksApart ==
  /\ Distinct(Out) /\ Distinct(ack_dl)
  /\ Elems(Out) \cap bp = {}
  /\ Elems(ack_dl) \cap (Elems(Out) \cup bp) = {}
  /\ held = Elems(Out) \cup bp \cup Elems(ack_dl)
  /\ IsFiniteSet(bp)

WayInv == IInv /\ CnfFirst /\ NoneReserved

----------------------------------------------------------------------------
(* Sequences without repetitions.                                          *)
LEMMA DistinctAppend ==
  ASSUME NEW S, NEW s \in Seq(S), NEW x \in S, Distinct(s), x \notin Elems(s)
  PROVE  Distinct(Append(s, x)) /\ Elems(Append(s, x)) = Elems(s) \cup {x}
<1> DEFINE t == Append(s, x)
           n == Len(s)
<1>1. n \in Nat /\ Len(t) = n + 1 /\ t[n + 1] = x /\ \A i \in 1 .. n : t[i] = s[i]
      BY AppendProperties, LenProperties
<1>2. /\ \A i, j \in 1 .. n : s[i] = s[j] => i = j
      /\ \A i \in 1 .. n : s[i] # x
      BY DEF Distinct, Elems
<1> HIDE DEF t, n
<1>3. \A i \in 1 .. Len(t) : i \in 1 .. n \/ i = n + 1
      BY <1>1
<1>4. Distinct(t)
  <2> SUFFICES ASSUME NEW i \in 1 .. Len(t), NEW j \in 1 .. Len(t), t[i] = t[j]
               PROVE  i = j
      BY DEF Distinct
  <2> QED BY <1>1, <1>2, <1>3
<1>5. Elems(t) = Elems(s) \cup {x}
  <2>1. n + 1 \in 1 .. Len(t) /\ \A i \in 1 .. n : i \in 1 .. Len(t)
        BY <1>1
  <2> QED BY <1>1, <1>3, <2>1 DEF Elems, n
<1> QED BY <1>4, <1>5 DEF t

LEMMA DistinctTail ==
  ASSUME NEW S, NEW s \in Seq(S), s # << >>, Distinct(s)
  PROVE  Distinct(Tail(s)) /\ Elems(Tail(s)) = Elems(s) \ {Head(s)} /\ Head(s) \in Elems(s)
<1> DEFINE t == Tail(s)
           n == Len(s)
<1>1. /\ n \in Nat /\ n # 0 /\ Len(t) = n - 1 /\ Head(s) = s[1]
      /\ \A i \in 1 .. Len(t) : t[i] = s[i + 1]
      BY HeadTailProperties, LenProperties, EmptySeq
<1>2. \A i, j \in 1 .. n : s[i] = s[j] => i = j
      BY DEF Distinct
<1> HIDE DEF t, n
<1>3. \A i \in 1 .. Len(t) : i + 1 \in 1 .. n /\ i + 1 # 1
      BY <1>1
<1>4. Distinct(t)
  <2> SUFFICES ASSUME NEW i \in 1 .. Len(t), NEW j \in 1 .. Len(t), t[i] = t[j]
               PROVE  i = j
      BY DEF Distinct
  <2>1. i + 1 = j + 1
        BY <1>1, <1>2, <1>3
  <2> QED BY <2>1
<1>5. 1 \in 1 .. n
      BY <1>1
<1>6. Elems(t) = Elems(s) \ {s[1]}
  <2>1. ASSUME NEW y \in Elems(t) PROVE y \in Elems(s) \ {s[1]}
    <3>1. PICK i \in 1 .. Len(t) : y = t[i]
          BY DEF Elems
    <3>2. y = s[i + 1] /\ i + 1 \in 1 .. n /\ i + 1 # 1
          BY <1>1, <1>3, <3>1
    <3>3. y # s[1]
          BY <1>2, <1>5, <3>2
    <3> QED BY <3>2, <3>3 DEF Elems, n
  <2>2. ASSUME NEW y \in Elems(s) \ {s[1]} PROVE y \in Elems(t)
    <3>1. PICK i \in 1 .. n : y = s[i]
          BY DEF Elems, n
    <3>2. i # 1
          BY <3>1
    <3>3. i - 1 \in 1 .. Len(t) /\ (i - 1) + 1 = i
          BY <1>1, <3>2
    <3>4. y = t[i - 1]
          BY <1>1, <3>1, <3>3
    <3> QED BY <3>3, <3>4 DEF Elems
  <2> QED BY <2>1, <2>2
<1>7. s[1] \in Elems(s)
      BY <1>5 DEF Elems, n
<1> QED BY <1>1, <1>4, <1>6, <1>7 DEF t

(* ... have as many elements as they are long.                             *)
LEMMA DistinctCount ==
  ASSUME NEW S, NEW s \in Seq(S), Distinct(s)
  PROVE  IsFiniteSet(Elems(s)) /\ Cardinality(Elems(s)) = Len(s)
<1> DEFINE n == Len(s)
<1>1. n \in Nat /\ s \in [1 .. n -> S]
      BY LenProperties
<1>2. s \in [1 .. n -> Elems(s)]
  <2>1. \A i \in 1 .. n : s[i] \in Elems(s)
        BY DEF Elems
  <2> HIDE DEF n
  <2> QED BY <1>1, <2>1
<1>3. s \in Bijection(1 .. n, Elems(s))
  <2>1. \A i, j \in 1 .. n : s[i] = s[j] => i = j
        BY DEF Distinct
  <2>2. \A y \in Elems(s) : \E i \in 1 .. n : s[i] = y
        BY DEF Elems
  <2> HIDE DEF n
  <2> QED BY <1>2, <2>1, <2>2, Fun_IsBij
<1>4. ExistsBijection(1 .. n, Elems(s))
      BY <1>3 DEF ExistsBijection
<1>5. IsFiniteSet(1 .. n) /\ Cardinality(1 .. n) = n
  <2> HIDE DEF n
  <2>1. 1 \in Int /\ n \in Int /\ (1 > n => n = 0) /\ n - 1 + 1 = n
        BY <1>1
  <2> QED BY <2>1, FS_Interval
<1> QED BY <1>4, <1>5, FS_Bijection

----------------------------------------------------------------------------
(* A sequence of messages that are all data.                               *)
LEMMA AllData ==
  ASSUME NEW s \in Seq(Message), \A i \in 1 .. Len(s) : s[i] \in DataMessage
  PROVE  s \in Seq(DataMessage)
<1>1. Len(s) \in Nat /\ s = [i \in 1 .. Len(s) |-> s[i]]
      BY LenProperties
<1>2. [i \in 1 .. Len(s) |-> s[i]] \in Seq(DataMessage)
      BY <1>1, IsASeq
<1> QED BY <1>1, <1>2

LEMMA DataMessages ==
  /\ \A m \in DataMessage : m \in Message /\ m.type = "UL_DATA" /\ m.type # "INIT_CNF"
                            /\ m.pkt \in 0 .. (PktMod - 1) /\ m.blk \in Blocks
  /\ \A m \in Message : m.type = "UL_DATA" \/ m.type = "INIT_CNF"
  /\ \A m \in Message : m.type = "UL_DATA" => m \in DataMessage
BY DEF Message, DataMessage

(* Past INIT_CNF everything is data.                                       *)
LEMMA DataInFacts ==
  ASSUME NEW f \in Seq(Message), \A i \in 2 .. Len(f) : f[i] \in DataMessage
  PROVE  /\ DataIn(f) \in Seq(DataMessage)
         /\ f = << >> => DataIn(f) = << >>
         /\ f # << >> => /\ Tail(f) \in Seq(DataMessage) /\ Head(f) = f[1]
                         /\ Head(f).type = "UL_DATA" =>
                              DataIn(f) = f /\ f \in Seq(DataMessage)
                         /\ Head(f).type # "UL_DATA" => DataIn(f) = Tail(f)
<1>1. CASE f = << >>
      BY <1>1, EmptySeq DEF DataIn
<1>2. CASE f # << >>
  <2> DEFINE t == Tail(f)
  <2>1. /\ Head(f) \in Message /\ Head(f) = f[1] /\ t \in Seq(Message)
        /\ Len(f) \in Nat /\ Len(t) = Len(f) - 1
        /\ \A i \in 1 .. Len(t) : t[i] = f[i + 1]
        BY <1>2, HeadTailProperties, LenProperties
  <2> HIDE DEF t
  <2>2. \A i \in 1 .. Len(t) : i + 1 \in 2 .. Len(f)
        BY <2>1
  <2>3. t \in Seq(DataMessage)
        BY <2>1, <2>2, AllData
  <2>4. CASE Head(f).type = "UL_DATA"
    <3>1. f[1] \in DataMessage /\ Head(f).type # "INIT_CNF"
          BY <2>1, <2>4, DataMessages
    <3>2. \A i \in 1 .. Len(f) : i = 1 \/ i \in 2 .. Len(f)
          BY <2>1
    <3>3. f \in Seq(DataMessage)
          BY <3>1, <3>2, AllData
    <3> QED BY <1>2, <2>1, <2>3, <2>4, <3>1, <3>3 DEF DataIn, t
  <2>5. CASE Head(f).type # "UL_DATA"
    <3>1. Head(f).type = "INIT_CNF"
          BY <2>1, <2>5, DataMessages
    <3> QED BY <1>2, <2>1, <2>3, <2>5, <3>1 DEF DataIn, t
  <2> QED BY <2>4, <2>5
<1> QED BY <1>1, <1>2

LEMMA DataInData ==
  ASSUME NEW d \in Seq(DataMessage)
  PROVE  DataIn(d) = d
<1>1. CASE d = << >>
      BY <1>1 DEF DataIn
<1>2. CASE d # << >>
  <2>1. Head(d) \in DataMessage
        BY <1>2, HeadTailProperties
  <2> QED BY <2>1, DataMessages DEF DataIn
<1> QED BY <1>1, <1>2

(* The head and tail of a concatenation.                                   *)
LEMMA HeadTailConcat ==
  ASSUME NEW S, NEW s \in Seq(S), NEW t \in Seq(S), s # << >>
  PROVE  s \o t # << >> /\ Head(s \o t) = Head(s) /\ Tail(s \o t) = Tail(s) \o t
<1> DEFINE u == s \o t
           a == Tail(u)
           b == Tail(s) \o t
<1>1. /\ u \in Seq(S) /\ Len(u) = Len(s) + Len(t) /\ Len(s) \in Nat /\ Len(t) \in Nat
      /\ \A i \in 1 .. Len(s) + Len(t) : u[i] = IF i <= Len(s) THEN s[i] ELSE t[i - Len(s)]
      BY ConcatProperties, LenProperties
<1>2. Len(s) # 0
      BY EmptySeq
<1> HIDE DEF u
<1>3. u # << >>
      BY <1>1, <1>2, EmptySeq
<1>4. /\ Head(u) = u[1] /\ a \in Seq(S) /\ Len(a) = Len(u) - 1
      /\ \A i \in 1 .. Len(a) : a[i] = u[i + 1]
      BY <1>1, <1>3, HeadTailProperties
<1>5. /\ Head(s) = s[1] /\ Tail(s) \in Seq(S) /\ Len(Tail(s)) = Len(s) - 1
      /\ \A i \in 1 .. Len(Tail(s)) : Tail(s)[i] = s[i + 1]
      BY HeadTailProperties
<1>6. /\ b \in Seq(S) /\ Len(b) = (Len(s) - 1) + Len(t)
      /\ \A i \in 1 .. (Len(s) - 1) + Len(t) :
           b[i] = IF i <= Len(s) - 1 THEN Tail(s)[i] ELSE t[i - (Len(s) - 1)]
      BY <1>5, ConcatProperties
<1> HIDE DEF a, b
<1>7. Head(u) = Head(s)
  <2>1. 1 \in 1 .. Len(s) + Len(t) /\ 1 <= Len(s)
        BY <1>1, <1>2
  <2> QED BY <1>1, <1>4, <1>5, <2>1
<1>8. a = b
  <2>1. Len(a) = Len(b)
        BY <1>1, <1>4, <1>6
  <2>2. ASSUME NEW i \in 1 .. Len(a) PROVE a[i] = b[i]
    <3>1. /\ i \in 1 .. (Len(s) - 1) + Len(t) /\ i + 1 \in 1 .. Len(s) + Len(t)
          /\ (i <= Len(s) - 1 <=> i + 1 <= Len(s)) /\ i - (Len(s) - 1) = (i + 1) - Len(s)
          /\ (i <= Len(s) - 1 => i \in 1 .. (Len(s) - 1))
          BY <1>1, <1>4
    <3>2. a[i] = u[i + 1]
          BY <1>4
    <3>3. CASE i <= Len(s) - 1
          BY <1>1, <1>5, <1>6, <3>1, <3>2, <3>3
    <3>4. CASE ~(i <= Len(s) - 1)
          BY <1>1, <1>6, <3>1, <3>2, <3>4
    <3> QED BY <3>3, <3>4
  <2> QED BY <1>4, <1>6, <2>1, <2>2, SeqEqual
<1> QED BY <1>3, <1>7, <1>8 DEF a, b, u

LEMMA DataInConcat ==
  ASSUME NEW f \in Seq(Message), NEW d \in Seq(DataMessage)
  PROVE  DataIn(f \o d) = DataIn(f) \o d
<1>1. d \in Seq(Message)
  <2>1. Len(d) \in Nat /\ d = [i \in 1 .. Len(d) |-> d[i]]
        /\ \A i \in 1 .. Len(d) : d[i] \in DataMessage
        BY LenProperties, ElementOfSeq
  <2>2. [i \in 1 .. Len(d) |-> d[i]] \in Seq(Message)
        BY <2>1, DataMessages, IsASeq
  <2> QED BY <2>1, <2>2
<1>2. CASE f = << >>
  <2>1. f \o d = d /\ DataIn(f) = << >> /\ << >> \o d = d
        BY <1>2, ConcatEmptySeq DEF DataIn
  <2> QED BY <2>1, DataInData
<1>3. CASE f # << >>
  <2>1. f \o d # << >> /\ Head(f \o d) = Head(f) /\ Tail(f \o d) = Tail(f) \o d
        BY <1>1, <1>3, HeadTailConcat
  <2> QED BY <1>3, <2>1 DEF DataIn
<1> QED BY <1>2, <1>3

LEMMA TableFacts ==
  ASSUME TypeOK
  PROVE  /\ fifo_data_ul_msg_table \in Seq(DataMessage)
         /\ Len(fifo_data_ul_msg_table) = Len(adr)
         /\ \A i \in 1 .. Len(adr) :
              /\ fifo_data_ul_msg_table[i].pkt = Nth(pkt_next + i - 1)
              /\ fifo_data_ul_msg_table[i].blk = adr[i]
<1> DEFINE T == fifo_data_ul_msg_table
           p(i) == Nth(pkt_next + i - 1)
<1>1. T \in Seq(Message) /\ Len(T) = Len(adr) /\ Len(adr) \in Nat
      BY MsgTable, LenProperties DEF TypeOK
<1>2. \A i \in 1 .. Len(adr) :
        T[i] = [type |-> "UL_DATA", pkt |-> p(i), blk |-> adr[i]]
      BY DEF fifo_data_ul_msg_table
<1> HIDE DEF T, p
<1>3. \A i \in 1 .. Len(T) : T[i] \in Message
      BY <1>1, ElementOfSeq
<1>4. ASSUME NEW i \in 1 .. Len(adr)
      PROVE  T[i].type = "UL_DATA" /\ T[i].pkt = p(i) /\ T[i].blk = adr[i]
  <2> DEFINE r == [type |-> "UL_DATA", pkt |-> p(i), blk |-> adr[i]]
  <2>1. r.type = "UL_DATA" /\ r.pkt = p(i) /\ r.blk = adr[i]
        OBVIOUS
  <2>2. T[i] = r
        BY <1>2
  <2> HIDE DEF r
  <2> QED BY <2>1, <2>2
<1>5. T \in Seq(DataMessage)
      BY <1>1, <1>3, <1>4, AllData, DataMessages
<1> QED BY <1>1, <1>4, <1>5 DEF T, p

LEMMA WayTyped ==
  ASSUME WayInv
  PROVE  /\ DataIn(fifo_ul) \in Seq(DataMessage) /\ dma \in Seq(DataMessage)
         /\ Way \in Seq(DataMessage) /\ fifo_ul \in Seq(Message)
<1>1. fifo_ul \in Seq(Message) /\ dma \in Seq(Message)
      BY DEF WayInv, IInv, TypeOK
<1>2. DataIn(fifo_ul) \in Seq(DataMessage)
      BY <1>1, DataInFacts DEF WayInv, CnfFirst
<1>3. dma \in Seq(DataMessage)
      BY <1>1, AllData DEF WayInv, CnfFirst
<1>4. Way \in Seq(DataMessage)
      BY <1>2, <1>3, ConcatProperties DEF Way
<1> QED BY <1>1, <1>2, <1>3, <1>4

(* The way changes in three steps only: the ISR moves frames within it,    *)
(* submit_ul adds a table of frames and the BP takes the first.            *)
LEMMA WayReady ==
  ASSUME WayInv, IPC_4GHIF_ready
  PROVE  CnfFirst' /\ Way' = Way
<1> DEFINE c == [type |-> "INIT_CNF", pkt |-> -1, blk |-> -1]
<1>1. fifo_ul = << >> /\ fifo_ul' = <<c>> /\ dma' = dma
      BY DEF IPC_4GHIF_ready, WayInv, IInv, Phases
<1>2. Len(<<c>>) = 1 /\ <<c>> # << >> /\ Head(<<c>>) = c /\ Tail(<<c>>) = << >>
      /\ c.type = "INIT_CNF"
      OBVIOUS
<1> HIDE DEF c
<1>3. CnfFirst'
      BY <1>1, <1>2 DEF WayInv, CnfFirst
<1>4. DataIn(fifo_ul') = << >> /\ DataIn(fifo_ul) = << >>
      BY <1>1, <1>2 DEF DataIn
<1> QED BY <1>1, <1>3, <1>4 DEF Way

LEMMA WayStart ==
  ASSUME WayInv, submit_ul_start
  PROVE  CnfFirst' /\ Way' = Way \o fifo_data_ul_msg_table
<1> DEFINE T == fifo_data_ul_msg_table
<1>1. pc # "idle" /\ dma' = T /\ fifo_ul' = fifo_ul
      BY DEF submit_ul_start, link
<1>2. dma = << >> /\ TypeOK
      BY <1>1 DEF WayInv, IInv, Phases
<1>3. T \in Seq(DataMessage)
      BY <1>2, TableFacts
<1> HIDE DEF T
<1>4. \A i \in 1 .. Len(T) : T[i] \in DataMessage
      BY <1>3, ElementOfSeq
<1>5. CnfFirst'
      BY <1>1, <1>4 DEF WayInv, CnfFirst
<1>6. Way = DataIn(fifo_ul)
      BY <1>2, WayTyped, ConcatEmptySeq DEF Way
<1> QED BY <1>1, <1>5, <1>6 DEF Way, T

LEMMA WaySdma ==
  ASSUME WayInv, sdma_4ghif_ul_callback
  PROVE  CnfFirst' /\ Way' = Way
<1>1. dma # << >> /\ fifo_ul' = fifo_ul \o dma /\ dma' = << >>
      BY DEF sdma_4ghif_ul_callback
<1>2. fifo_ul \in Seq(Message) /\ dma \in Seq(DataMessage) /\ dma \in Seq(Message)
      /\ Way \in Seq(DataMessage)
      BY WayTyped DEF WayInv, IInv, TypeOK
<1>3. Way' = Way
  <2>1. Way' = DataIn(fifo_ul \o dma) \o << >>
        BY <1>1 DEF Way
  <2>2. DataIn(fifo_ul \o dma) = Way
        BY <1>2, DataInConcat DEF Way
  <2> QED BY <1>2, <2>1, <2>2, ConcatEmptySeq
<1>4. CnfFirst'
  <2> DEFINE f == fifo_ul \o dma
             n == Len(fifo_ul)
  <2>1. /\ Len(f) = n + Len(dma) /\ n \in Nat /\ Len(dma) \in Nat
        /\ \A i \in 1 .. n + Len(dma) : f[i] = IF i <= n THEN fifo_ul[i] ELSE dma[i - n]
        BY <1>2, ConcatProperties, LenProperties
  <2>2. /\ \A i \in 2 .. n : fifo_ul[i] \in DataMessage
        /\ \A i \in 1 .. Len(dma) : dma[i] \in DataMessage
        BY DEF WayInv, CnfFirst
  <2> HIDE DEF f, n
  <2>3. ASSUME NEW i \in 2 .. Len(f) PROVE f[i] \in DataMessage
    <3>1. /\ i \in 1 .. n + Len(dma) /\ (i <= n => i \in 2 .. n)
          /\ (~(i <= n) => i - n \in 1 .. Len(dma))
          BY <2>1
    <3> QED BY <2>1, <2>2, <3>1
  <2>4. Len(dma') = 0
        BY <1>1
  <2> QED BY <1>1, <2>3, <2>4 DEF CnfFirst, f
<1> QED BY <1>3, <1>4

LEMMA WayRead ==
  ASSUME WayInv, bp_read
  PROVE  /\ CnfFirst'
         /\ Head(fifo_ul).type = "UL_DATA" =>
              /\ Way # << >> /\ Way' = Tail(Way) /\ Head(Way) = Head(fifo_ul)
              /\ bp' = bp \cup {Head(Way).blk} /\ pkt_bp' = Nth(pkt_bp + 1)
         /\ Head(fifo_ul).type # "UL_DATA" =>
              Way' = Way /\ bp' = bp /\ pkt_bp' = pkt_bp
<1> DEFINE t == Tail(fifo_ul)
<1>1. fifo_ul # << >> /\ fifo_ul' = t /\ dma' = dma
      BY DEF bp_read
<1>2. /\ fifo_ul \in Seq(Message) /\ dma \in Seq(DataMessage)
      /\ \A i \in 2 .. Len(fifo_ul) : fifo_ul[i] \in DataMessage
      BY WayTyped DEF WayInv, CnfFirst
<1>3. /\ t \in Seq(DataMessage)
      /\ Head(fifo_ul).type = "UL_DATA" =>
           DataIn(fifo_ul) = fifo_ul /\ fifo_ul \in Seq(DataMessage)
      /\ Head(fifo_ul).type # "UL_DATA" => DataIn(fifo_ul) = t
      BY <1>1, <1>2, DataInFacts
<1> HIDE DEF t
<1>4. DataIn(t) = t /\ Way' = t \o dma
      BY <1>1, <1>3, DataInData DEF Way
<1>5. CnfFirst'
  <2>1. \A i \in 1 .. Len(t) : t[i] \in DataMessage
        BY <1>3, ElementOfSeq
  <2>2. Len(t) \in Nat /\ \A i \in 2 .. Len(t) : i \in 1 .. Len(t)
        BY <1>3, LenProperties
  <2> QED BY <1>1, <2>1, <2>2 DEF CnfFirst, WayInv
<1>6. CASE Head(fifo_ul).type = "UL_DATA"
  <2>1. Way = fifo_ul \o dma
        BY <1>3, <1>6 DEF Way
  <2>2. Way # << >> /\ Head(Way) = Head(fifo_ul) /\ Tail(Way) = t \o dma
        BY <1>1, <1>2, <1>3, <1>6, <2>1, HeadTailConcat DEF t
  <2> QED BY <1>4, <1>5, <1>6, <2>2 DEF bp_read
<1>7. CASE Head(fifo_ul).type # "UL_DATA"
  <2>1. Way = t \o dma
        BY <1>3, <1>7 DEF Way
  <2> QED BY <1>4, <1>5, <1>7, <2>1 DEF bp_read
<1> QED BY <1>6, <1>7

LEMMA WayNothing ==
  ASSUME WayInv, UNCHANGED <<fifo_ul, dma>>
  PROVE  CnfFirst' /\ Way' = Way
BY DEF WayInv, CnfFirst, Way

LEMMA NextWayInv == WayInv /\ [Next]_vars => WayInv'
<1> SUFFICES ASSUME WayInv, [Next]_vars PROVE WayInv'
    OBVIOUS
<1>1. IInv'
      BY StepIInv DEF WayInv
<1>2. NoneReserved'
      BY DEF WayInv, NoneReserved, Next, IPC_4GHIF_ready, submit_ul_call,
         submit_ul_refused, submit_ul_reserve, submit_ul_mem_full, submit_ul_start,
         sdma_4ghif_ul_callback, mailbox_ISR_4GHIF, dl_complete_tasklet_acks,
         ul_complete_tasklet_function, ul_resume_tasklet_function, bp_read, bp_ack,
         call, vars
<1>3. CnfFirst'
  <2>1. CASE IPC_4GHIF_ready \/ submit_ul_start \/ sdma_4ghif_ul_callback \/ bp_read
        BY <2>1, WayReady, WayStart, WaySdma, WayRead
  <2>2. CASE ~(IPC_4GHIF_ready \/ submit_ul_start \/ sdma_4ghif_ul_callback \/ bp_read)
    <3>1. UNCHANGED <<fifo_ul, dma>>
          BY <2>2 DEF Next, submit_ul_call, submit_ul_refused, submit_ul_reserve,
             submit_ul_mem_full, mailbox_ISR_4GHIF, dl_complete_tasklet_acks,
             ul_complete_tasklet_function, ul_resume_tasklet_function, bp_ack,
             link, vars
    <3> QED BY <3>1, WayNothing
  <2> QED BY <2>1, <2>2
<1> QED BY <1>1, <1>2, <1>3 DEF WayInv

----------------------------------------------------------------------------
(* The frames of a way are numbered from e on, and p is the next number.   *)
Numbered(w, e, p) ==
  /\ \A i \in 1 .. Len(w) : w[i].pkt = Nth(e + i - 1)
  /\ Nth(e + Len(w)) = p

LEMMA NthOfSum ==
  ASSUME NEW a \in Nat, NEW b \in Nat
  PROVE  Nth(Nth(a) + b) = Nth(a + b) /\ Nth(a) \in Nat
<1>1. PktMod \in Nat /\ PktMod > 0
      BY HifUlAssumption
<1>2. /\ ((a % PktMod) + b) % PktMod = (a + b) % PktMod
      /\ a % PktMod \in 0 .. (PktMod - 1)
      BY <1>1, RemainderOfSum, Zenon
<1>3. \A n \in 0 .. (PktMod - 1) : n \in Nat
      BY <1>1
<1> QED BY <1>2, <1>3, Zenon DEF Nth

LEMMA NumberedConcat ==
  ASSUME NEW w \in Seq(DataMessage), NEW t \in Seq(DataMessage), NEW e \in Nat, NEW p,
         Numbered(w, e, p), \A i \in 1 .. Len(t) : t[i].pkt = Nth(p + i - 1)
  PROVE  Numbered(w \o t, e, Nth(p + Len(t)))
<1> DEFINE u == w \o t
           n == Len(w)
           k == Len(t)
<1>1. /\ n \in Nat /\ k \in Nat /\ Len(u) = n + k
      /\ \A i \in 1 .. n + k : u[i] = IF i <= n THEN w[i] ELSE t[i - n]
      BY ConcatProperties, LenProperties
<1>2. /\ \A i \in 1 .. n : w[i].pkt = Nth(e + i - 1) /\ Nth(e + n) = p
      /\ \A i \in 1 .. k : t[i].pkt = Nth(p + i - 1)
      BY DEF Numbered
<1>3. p = Nth(e + n)
      BY DEF Numbered
<1> HIDE DEF u, n, k
<1>4. ASSUME NEW j \in Nat
      PROVE  Nth(p + j) = Nth((e + n) + j) /\ p \in Nat
  <2>1. e + n \in Nat
        BY <1>1
  <2> QED BY <1>3, <2>1, NthOfSum, Zenon
<1>5. ASSUME NEW i \in 1 .. Len(u)
      PROVE  u[i].pkt = Nth(e + i - 1)
  <2>1. CASE i <= n
    <3>1. i \in 1 .. n + k /\ i \in 1 .. n
          BY <1>1, <2>1
    <3> QED BY <1>1, <1>2, <2>1, <3>1
  <2>2. CASE ~(i <= n)
    <3> DEFINE j == i - n
    <3>1. i \in 1 .. n + k /\ j \in 1 .. k /\ j - 1 \in Nat
          BY <1>1, <2>2
    <3>2. u[i] = t[j] /\ t[j].pkt = Nth(p + j - 1)
          BY <1>1, <1>2, <2>2, <3>1
    <3>3. Nth(p + (j - 1)) = Nth((e + n) + (j - 1)) /\ p \in Nat
          BY <1>4, <3>1
    <3>4. p + j - 1 = p + (j - 1) /\ e + i - 1 = (e + n) + (j - 1)
          BY <1>1, <3>1, <3>3
    <3> QED BY <3>2, <3>3, <3>4
  <2> QED BY <2>1, <2>2
<1>6. Nth(e + Len(u)) = Nth(p + k)
  <2>1. e + Len(u) = (e + n) + k
        BY <1>1
  <2> QED BY <1>1, <1>4, <2>1
<1> QED BY <1>5, <1>6 DEF Numbered, u, k

LEMMA NumberedTail ==
  ASSUME NEW w \in Seq(DataMessage), w # << >>, NEW e \in Nat, NEW p, Numbered(w, e, p)
  PROVE  Numbered(Tail(w), Nth(e + 1), p)
<1> DEFINE t == Tail(w)
           n == Len(w)
<1>1. /\ n \in Nat /\ n # 0 /\ Len(t) = n - 1 /\ \A i \in 1 .. Len(t) : t[i] = w[i + 1]
      BY HeadTailProperties, LenProperties, EmptySeq
<1>2. /\ \A i \in 1 .. n : w[i].pkt = Nth(e + i - 1)
      /\ Nth(e + n) = p
      BY DEF Numbered
<1> HIDE DEF t, n
<1>3. ASSUME NEW j \in Nat
      PROVE  Nth(Nth(e + 1) + j) = Nth((e + 1) + j) /\ Nth(e + 1) \in Nat
  <2>1. e + 1 \in Nat
        OBVIOUS
  <2> QED BY <2>1, NthOfSum, Zenon
<1>4. ASSUME NEW i \in 1 .. Len(t)
      PROVE  t[i].pkt = Nth(Nth(e + 1) + i - 1)
  <2>1. i + 1 \in 1 .. n /\ i - 1 \in Nat
        BY <1>1
  <2>2. t[i].pkt = Nth(e + (i + 1) - 1)
        BY <1>1, <1>2, <2>1
  <2>3. Nth(Nth(e + 1) + (i - 1)) = Nth((e + 1) + (i - 1)) /\ Nth(e + 1) \in Nat
        BY <1>3, <2>1
  <2>4. e + (i + 1) - 1 = (e + 1) + (i - 1) /\ Nth(e + 1) + i - 1 = Nth(e + 1) + (i - 1)
        BY <2>3
  <2> QED BY <2>2, <2>3, <2>4
<1>5. Nth(Nth(e + 1) + Len(t)) = p
  <2>1. Len(t) \in Nat /\ (e + 1) + Len(t) = e + n
        BY <1>1
  <2>2. Nth(Nth(e + 1) + Len(t)) = Nth((e + 1) + Len(t))
        BY <1>3, <2>1
  <2> QED BY <1>2, <2>1, <2>2
<1> QED BY <1>4, <1>5 DEF Numbered, t

LEMMA InOrderNumbered == InOrder <=> Numbered(Way, pkt_bp, pkt_next)
BY DEF InOrder, Numbered, Way

LEMMA NextInOrder == WayInv /\ InOrder /\ [Next]_vars => InOrder'
<1> SUFFICES ASSUME WayInv, InOrder, [Next]_vars
             PROVE  Numbered(Way', pkt_bp', pkt_next')
  <2>1. Numbered(Way', pkt_bp', pkt_next') => InOrder'
        BY DEF InOrder, Numbered, Way
  <2> QED BY <2>1
<1>1. Numbered(Way, pkt_bp, pkt_next) /\ Way \in Seq(DataMessage)
      BY InOrderNumbered, WayTyped
<1>2. pkt_bp \in Nat /\ TypeOK
      BY HifUlAssumption DEF WayInv, IInv, TypeOK
<1>3. CASE submit_ul_start
  <2> DEFINE t == fifo_data_ul_msg_table
  <2>1. t \in Seq(DataMessage) /\ Len(t) = Len(adr)
        /\ \A i \in 1 .. Len(t) : t[i].pkt = Nth(pkt_next + i - 1)
        BY <1>2, TableFacts
  <2>2. Way' = Way \o t /\ pkt_bp' = pkt_bp /\ pkt_next' = Nth(pkt_next + Len(adr))
        BY <1>3, WayStart DEF submit_ul_start, processing_packet_nb
  <2> HIDE DEF t
  <2>3. Numbered(Way \o t, pkt_bp, Nth(pkt_next + Len(t)))
        BY <1>1, <1>2, <2>1, NumberedConcat
  <2> QED BY <2>1, <2>2, <2>3
<1>4. CASE bp_read
  <2>1. pkt_next' = pkt_next
        BY <1>4 DEF bp_read
  <2>2. CASE Head(fifo_ul).type = "UL_DATA"
        BY <1>1, <1>2, <1>4, <2>1, <2>2, WayRead, NumberedTail
  <2>3. CASE Head(fifo_ul).type # "UL_DATA"
        BY <1>1, <1>4, <2>1, <2>3, WayRead
  <2> QED BY <2>2, <2>3
<1>5. CASE IPC_4GHIF_ready \/ sdma_4ghif_ul_callback
  <2>1. Way' = Way
        BY <1>5, WayReady, WaySdma
  <2>2. UNCHANGED pkts
        BY <1>5 DEF IPC_4GHIF_ready, sdma_4ghif_ul_callback
  <2> QED BY <1>1, <2>1, <2>2 DEF pkts
<1>6. CASE ~(IPC_4GHIF_ready \/ submit_ul_start \/ sdma_4ghif_ul_callback \/ bp_read)
  <2>1. UNCHANGED <<fifo_ul, dma, pkt_bp, pkt_next>>
        BY <1>6 DEF Next, submit_ul_call, submit_ul_refused, submit_ul_reserve,
           submit_ul_mem_full, mailbox_ISR_4GHIF, dl_complete_tasklet_acks,
           ul_complete_tasklet_function, ul_resume_tasklet_function, bp_ack,
           link, pkts, vars
  <2> QED BY <1>1, <2>1, WayNothing
<1> QED BY <1>3, <1>4, <1>5, <1>6

LEMMA InitWay == Init => WayInv /\ InOrder /\ Way = << >>
<1> SUFFICES ASSUME Init PROVE WayInv /\ InOrder /\ Way = << >>
    OBVIOUS
<1>1. /\ fifo_ul = << >> /\ dma = << >> /\ adr = << >> /\ pkt_bp = 0 /\ pkt_next = 0
      BY DEF Init
<1>2. WayInv
      BY <1>1, InitIInv DEF WayInv, CnfFirst, NoneReserved
<1>3. Way = << >>
  <2>1. << >> \o << >> = << >>
        OBVIOUS
  <2> QED BY <1>1, <2>1 DEF Way, DataIn
<1>4. Nth(0 + Len(<< >>)) = 0
      BY HifUlAssumption DEF Nth
<1>5. Numbered(<< >>, 0, 0)
      BY <1>4 DEF Numbered
<1> QED BY <1>1, <1>2, <1>3, <1>5, InOrderNumbered

(* The BP sees every frame that submit_ul accepted, once and in the order  *)
(* of submission, for every size of the FIFO and of the batches.           *)
THEOREM UlFramesInOrder == Spec => []InOrder
<1>1. Init => WayInv /\ InOrder
      BY InitWay
<1>2. WayInv /\ InOrder /\ [Next]_vars => (WayInv /\ InOrder)'
      BY NextWayInv, NextInOrder
<1> QED BY <1>1, <1>2, PTL DEF Spec

----------------------------------------------------------------------------
(* The blocks of a sequence of data messages, in their order.              *)
LEMMA BlksFacts ==
  ASSUME NEW w \in Seq(DataMessage)
  PROVE  /\ BlksOf(w) \in Seq(Blocks) /\ Len(BlksOf(w)) = Len(w)
         /\ \A i \in 1 .. Len(w) : BlksOf(w)[i] = w[i].blk
<1>1. Len(w) \in Nat /\ \A i \in 1 .. Len(w) : w[i].blk \in Blocks
      BY LenProperties, ElementOfSeq, DataMessages
<1>2. BlksOf(w) = [i \in 1 .. Len(w) |-> w[i].blk]
      BY DEF BlksOf
<1>3. BlksOf(w) \in Seq(Blocks)
      BY <1>1, <1>2, IsASeq
<1> QED BY <1>1, <1>2, <1>3, LenProperties

LEMMA BlksConcat ==
  ASSUME NEW w \in Seq(DataMessage), NEW t \in Seq(DataMessage)
  PROVE  BlksOf(w \o t) = BlksOf(w) \o BlksOf(t)
<1> DEFINE u == w \o t
           a == BlksOf(u)
           bw == BlksOf(w)
           bt == BlksOf(t)
           b == bw \o bt
<1>1. /\ u \in Seq(DataMessage) /\ Len(u) = Len(w) + Len(t)
      /\ Len(w) \in Nat /\ Len(t) \in Nat
      /\ \A i \in 1 .. Len(w) + Len(t) : u[i] = IF i <= Len(w) THEN w[i] ELSE t[i - Len(w)]
      BY ConcatProperties, LenProperties
<1> HIDE DEF u
<1>2. /\ bw \in Seq(Blocks) /\ Len(bw) = Len(w) /\ \A i \in 1 .. Len(w) : bw[i] = w[i].blk
      /\ bt \in Seq(Blocks) /\ Len(bt) = Len(t) /\ \A i \in 1 .. Len(t) : bt[i] = t[i].blk
      /\ a \in Seq(Blocks) /\ Len(a) = Len(u) /\ \A i \in 1 .. Len(u) : a[i] = u[i].blk
      BY <1>1, BlksFacts
<1> HIDE DEF a, bw, bt
<1>3. /\ b \in Seq(Blocks) /\ Len(b) = Len(w) + Len(t)
      /\ \A i \in 1 .. Len(w) + Len(t) : b[i] = IF i <= Len(w) THEN bw[i] ELSE bt[i - Len(w)]
  <2>1. /\ b \in Seq(Blocks) /\ Len(b) = Len(bw) + Len(bt)
        /\ \A i \in 1 .. Len(bw) + Len(bt) :
             b[i] = IF i <= Len(bw) THEN bw[i] ELSE bt[i - Len(bw)]
    <3>1. bw \in Seq(Blocks) /\ bt \in Seq(Blocks)
          BY <1>2
    <3> QED BY <3>1, ConcatProperties
  <2>2. Len(bw) = Len(w) /\ Len(bt) = Len(t)
        BY <1>2
  <2> HIDE DEF b
  <2> QED BY <2>1, <2>2
<1> HIDE DEF b
<1>4. ASSUME NEW i \in 1 .. Len(a) PROVE a[i] = b[i]
  <2>1. /\ i \in 1 .. Len(w) + Len(t) /\ (i <= Len(w) => i \in 1 .. Len(w))
        /\ (~(i <= Len(w)) => i - Len(w) \in 1 .. Len(t))
        BY <1>1, <1>2
  <2>2. a[i] = u[i].blk
        BY <1>2
  <2>3. CASE i <= Len(w)
        BY <1>1, <1>2, <1>3, <2>1, <2>2, <2>3
  <2>4. CASE ~(i <= Len(w))
        BY <1>1, <1>2, <1>3, <2>1, <2>2, <2>4
  <2> QED BY <2>3, <2>4
<1>5. Len(a) = Len(b)
      BY <1>1, <1>2, <1>3
<1>6. a = b
      BY <1>2, <1>3, <1>4, <1>5, SeqEqual
<1> QED BY <1>6 DEF a, b, bw, bt, u

LEMMA BlksTail ==
  ASSUME NEW w \in Seq(DataMessage), w # << >>
  PROVE  /\ BlksOf(w) # << >> /\ Head(BlksOf(w)) = Head(w).blk
         /\ BlksOf(Tail(w)) = Tail(BlksOf(w))
<1> DEFINE t == Tail(w)
           bw == BlksOf(w)
           bt == BlksOf(t)
           tb == Tail(bw)
<1>1. /\ Len(w) \in Nat /\ Len(w) # 0 /\ Head(w) = w[1] /\ t \in Seq(DataMessage)
      /\ Len(t) = Len(w) - 1 /\ \A i \in 1 .. Len(t) : t[i] = w[i + 1]
      BY HeadTailProperties, LenProperties, EmptySeq
<1> HIDE DEF t
<1>2. /\ bw \in Seq(Blocks) /\ Len(bw) = Len(w) /\ \A i \in 1 .. Len(w) : bw[i] = w[i].blk
      /\ bt \in Seq(Blocks) /\ Len(bt) = Len(t) /\ \A i \in 1 .. Len(t) : bt[i] = t[i].blk
      BY <1>1, BlksFacts
<1> HIDE DEF bw, bt
<1>3. bw # << >>
      BY <1>1, <1>2, EmptySeq
<1>4. /\ Head(bw) = bw[1] /\ tb \in Seq(Blocks) /\ Len(tb) = Len(bw) - 1
      /\ \A i \in 1 .. Len(tb) : tb[i] = bw[i + 1]
      BY <1>2, <1>3, HeadTailProperties
<1> HIDE DEF tb
<1>5. Len(bt) = Len(tb)
      BY <1>1, <1>2, <1>4
<1>6. ASSUME NEW i \in 1 .. Len(bt) PROVE bt[i] = tb[i]
  <2>1. i \in 1 .. Len(t) /\ i \in 1 .. Len(tb) /\ i + 1 \in 1 .. Len(w)
        BY <1>1, <1>2, <1>5
  <2> QED BY <1>1, <1>2, <1>4, <2>1
<1>7. bt = tb
      BY <1>2, <1>4, <1>5, <1>6, SeqEqual
<1>8. Head(bw) = Head(w).blk
  <2>1. 1 \in 1 .. Len(w)
        BY <1>1
  <2> QED BY <1>1, <1>2, <1>4, <2>1
<1> QED BY <1>3, <1>7, <1>8 DEF t, bw, bt, tb

LEMMA OutTyped ==
  ASSUME WayInv
  PROVE  /\ BlksOf(Way) \in Seq(Blocks) /\ adr \in Seq(Blocks) /\ Out \in Seq(Blocks)
         /\ ack_dl \in Seq(Blocks) /\ bp \subseteq Blocks
         /\ Len(Out) = Len(Way) + Len(adr)
<1>1. /\ BlksOf(Way) \in Seq(Blocks) /\ Len(BlksOf(Way)) = Len(Way)
      /\ adr \in Seq(Blocks) /\ ack_dl \in Seq(Blocks) /\ bp \subseteq Blocks
      BY WayTyped, BlksFacts DEF WayInv, IInv, TypeOK
<1> QED BY <1>1, ConcatProperties DEF Out

(* The blocks under way: one is added by the reservation, the first is     *)
(* taken by the BP, and the start of the sDMA and its end move none.       *)
LEMMA OutStart ==
  ASSUME WayInv, submit_ul_start
  PROVE  Out' = Out
<1> DEFINE t == fifo_data_ul_msg_table
<1>1. Way' = Way \o t /\ adr' = << >>
      BY WayStart DEF submit_ul_start
<1>2. /\ t \in Seq(DataMessage) /\ Len(t) = Len(adr)
      /\ \A i \in 1 .. Len(adr) : t[i].blk = adr[i]
      BY TableFacts DEF WayInv, IInv
<1> HIDE DEF t
<1>3. Way \in Seq(DataMessage) /\ adr \in Seq(Blocks) /\ Out \in Seq(Blocks)
      BY WayTyped, OutTyped
<1>4. BlksOf(t) = adr
  <2>1. /\ BlksOf(t) \in Seq(Blocks) /\ Len(BlksOf(t)) = Len(t)
        /\ \A i \in 1 .. Len(t) : BlksOf(t)[i] = t[i].blk
        BY <1>2, BlksFacts
  <2> QED BY <1>2, <1>3, <2>1, SeqEqual
<1>5. BlksOf(Way \o t) = Out
      BY <1>2, <1>3, <1>4, BlksConcat DEF Out
<1>6. Out' = BlksOf(Way') \o << >>
      BY <1>1 DEF Out, BlksOf
<1> QED BY <1>1, <1>3, <1>5, <1>6, ConcatEmptySeq

LEMMA OutReserve ==
  ASSUME WayInv, NEW b \in Blocks, Way' = Way, adr' = Append(adr, b)
  PROVE  Out' = Append(Out, b)
<1> DEFINE w == BlksOf(Way)
<1>1. w \in Seq(Blocks) /\ adr \in Seq(Blocks)
      BY OutTyped
<1>2. Out' = w \o Append(adr, b) /\ Out = w \o adr
      BY DEF Out, BlksOf
<1> HIDE DEF w
<1>3. w \o Append(adr, b) = Append(w \o adr, b)
      BY <1>1
<1> QED BY <1>2, <1>3

LEMMA OutRead ==
  ASSUME WayInv, Way # << >>, Way' = Tail(Way), adr' = adr
  PROVE  Out # << >> /\ Out' = Tail(Out) /\ Head(Out) = Head(Way).blk
<1> DEFINE w == BlksOf(Way)
<1>1. /\ w # << >> /\ Head(w) = Head(Way).blk /\ BlksOf(Tail(Way)) = Tail(w)
      BY WayTyped, BlksTail
<1>2. w \in Seq(Blocks) /\ adr \in Seq(Blocks)
      BY OutTyped
<1>3. Out' = BlksOf(Tail(Way)) \o adr /\ Out = w \o adr
      BY DEF Out, BlksOf
<1> HIDE DEF w
<1>4. w \o adr # << >> /\ Head(w \o adr) = Head(w) /\ Tail(w \o adr) = Tail(w) \o adr
      BY <1>1, <1>2, HeadTailConcat
<1> QED BY <1>1, <1>3, <1>4

LEMMA OutSame ==
  ASSUME Way' = Way, adr' = adr
  PROVE  Out' = Out
BY DEF Out, BlksOf

LEMMA RangeElems ==
  ASSUME NEW S, NEW s \in Seq(S)
  PROVE  Range(s) = Elems(s)
<1>1. DOMAIN s = 1 .. Len(s)
      BY LenProperties
<1> QED BY <1>1 DEF Range, Elems

LEMMA NextApart == WayInv /\ BlocksApart /\ [Next]_vars => BlocksApart'
<1> SUFFICES ASSUME WayInv, BlocksApart, [Next]_vars PROVE BlocksApart'
    OBVIOUS
<1>1. /\ Out \in Seq(Blocks) /\ ack_dl \in Seq(Blocks) /\ bp \subseteq Blocks
      BY OutTyped
<1>2. ASSUME Out' = Out, UNCHANGED <<ack_dl, bp, held>> PROVE BlocksApart'
      BY <1>2 DEF BlocksApart, Elems, Distinct
<1>3. CASE submit_ul_start
      BY <1>2, <1>3, OutStart DEF submit_ul_start, link
<1>4. CASE submit_ul_reserve
  <2>1. UNCHANGED <<fifo_ul, dma, bp, ack_dl>>
        BY <1>4 DEF submit_ul_reserve, link
  <2>2. Way' = Way
        BY <2>1, WayNothing
  <2>3. ASSUME NEW b \in Blocks \ held, held' = held \cup {b}, adr' = Append(adr, b)
        PROVE  BlocksApart'
    <3>1. Out' = Append(Out, b)
          BY <2>2, <2>3, OutReserve
    <3>2. b \notin Elems(Out) /\ b \notin bp /\ b \notin Elems(ack_dl)
          BY DEF BlocksApart
    <3>3. Distinct(Append(Out, b)) /\ Elems(Append(Out, b)) = Elems(Out) \cup {b}
          BY <1>1, <3>2, DistinctAppend DEF BlocksApart
    <3>4. Distinct(Out') /\ Elems(Out') = Elems(Out) \cup {b}
          BY <3>1, <3>3
    <3>5. Distinct(ack_dl') /\ Elems(ack_dl') = Elems(ack_dl) /\ bp' = bp
          BY <2>1 DEF BlocksApart
    <3> QED BY <2>3, <3>2, <3>4, <3>5 DEF BlocksApart
  <2>4. CASE UNCHANGED <<held, adr>>
        BY <1>2, <2>1, <2>2, <2>4, OutSame
  <2> QED BY <1>4, <2>3, <2>4 DEF submit_ul_reserve
<1>5. CASE bp_read
  <2>1. UNCHANGED <<adr, held, ack_dl>>
        BY <1>5 DEF bp_read, call
  <2>2. CASE Head(fifo_ul).type = "UL_DATA"
    <3>1. Way # << >> /\ Way' = Tail(Way) /\ bp' = bp \cup {Head(Way).blk}
          BY <1>5, <2>2, WayRead
    <3>2. Out # << >> /\ Out' = Tail(Out) /\ bp' = bp \cup {Head(Out)}
          BY <2>1, <3>1, OutRead
    <3>3. /\ Distinct(Tail(Out)) /\ Elems(Tail(Out)) = Elems(Out) \ {Head(Out)}
          /\ Head(Out) \in Elems(Out)
          BY <1>1, <3>2, DistinctTail DEF BlocksApart
    <3>4. Distinct(Out') /\ Elems(Out') = Elems(Out) \ {Head(Out)}
          BY <3>2, <3>3
    <3>5. IsFiniteSet(bp')
          BY <3>2, FS_AddElement DEF BlocksApart
    <3>6. Distinct(ack_dl') /\ Elems(ack_dl') = Elems(ack_dl)
          BY <2>1 DEF BlocksApart
    <3> QED BY <2>1, <3>2, <3>3, <3>4, <3>5, <3>6 DEF BlocksApart
  <2>3. CASE Head(fifo_ul).type # "UL_DATA"
        BY <1>2, <1>5, <2>1, <2>3, WayRead, OutSame
  <2> QED BY <2>2, <2>3
<1>6. CASE bp_ack
  <2>1. PICK b \in bp : bp' = bp \ {b} /\ ack_dl' = Append(ack_dl, b)
        BY <1>6 DEF bp_ack
  <2>2. UNCHANGED <<fifo_ul, dma, adr, held>>
        BY <1>6 DEF bp_ack, call
  <2>3. Out' = Out
        BY <2>2, WayNothing, OutSame
  <2>4. b \in Blocks /\ b \notin Elems(ack_dl) /\ b \notin Elems(Out)
        BY <1>1 DEF BlocksApart
  <2>5. /\ Distinct(Append(ack_dl, b))
        /\ Elems(Append(ack_dl, b)) = Elems(ack_dl) \cup {b}
        BY <1>1, <2>4, DistinctAppend DEF BlocksApart
  <2>6. Distinct(ack_dl') /\ Elems(ack_dl') = Elems(ack_dl) \cup {b}
        BY <2>1, <2>5
  <2>7. IsFiniteSet(bp')
        BY <2>1, FS_RemoveElement DEF BlocksApart
  <2>8. Distinct(Out') /\ Elems(Out') = Elems(Out)
        BY <2>3 DEF BlocksApart
  <2> QED BY <2>1, <2>2, <2>4, <2>6, <2>7, <2>8 DEF BlocksApart
<1>7. CASE mailbox_ISR_4GHIF \/ dl_complete_tasklet_acks
  <2>1. /\ held' = held \ Range(ack_dl) /\ ack_dl' = << >>
        /\ UNCHANGED <<fifo_ul, dma, adr, bp>>
        BY <1>7 DEF mailbox_ISR_4GHIF, dl_complete_tasklet_acks,
           fifo_ack_4ghif_process_dl_msg, call
  <2>2. Out' = Out
        BY <2>1, WayNothing, OutSame
  <2>3. Range(ack_dl) = Elems(ack_dl)
        BY <1>1, RangeElems
  <2>4. Elems(<< >>) = {} /\ Distinct(<< >>)
        BY DEF Elems, Distinct
  <2>5. Distinct(Out') /\ Elems(Out') = Elems(Out) /\ Elems(ack_dl') = {}
        /\ Distinct(ack_dl')
        BY <2>1, <2>2, <2>4 DEF BlocksApart
  <2> QED BY <2>1, <2>3, <2>5 DEF BlocksApart
<1>8. CASE IPC_4GHIF_ready \/ sdma_4ghif_ul_callback
  <2>1. Way' = Way /\ UNCHANGED <<adr, held, bp, ack_dl>>
        BY <1>8, WayReady, WaySdma DEF IPC_4GHIF_ready, sdma_4ghif_ul_callback, call
  <2> QED BY <1>2, <2>1, OutSame
<1>9. CASE \E n \in 1 .. MaxBatch : submit_ul_call(n)
  <2>1. pc = "idle" /\ adr' = << >> /\ UNCHANGED <<held, dma, fifo_ul, bp, ack_dl>>
        BY <1>9 DEF submit_ul_call, link
  <2>2. adr' = adr
        BY <2>1 DEF WayInv, NoneReserved
  <2> QED BY <1>2, <2>1, <2>2, WayNothing, OutSame
<1>10. CASE \/ submit_ul_refused \/ submit_ul_mem_full \/ ul_complete_tasklet_function
            \/ ul_resume_tasklet_function \/ UNCHANGED vars
  <2>1. UNCHANGED <<fifo_ul, dma, adr, held, bp, ack_dl>>
        BY <1>10 DEF submit_ul_refused, submit_ul_mem_full,
           ul_complete_tasklet_function, ul_resume_tasklet_function, call, link, vars
  <2> QED BY <1>2, <2>1, WayNothing, OutSame
<1> QED BY <1>3, <1>4, <1>5, <1>6, <1>7, <1>8, <1>9, <1>10 DEF Next

(* Block by block or counted, the blocks held are the same ones.           *)
LEMMA ApartConserved ==
  ASSUME WayInv, BlocksApart
  PROVE  BlocksConserved
<1> DEFINE f == fifo_ul
           d == DataIn(fifo_ul)
<1>1. /\ f \in Seq(Message) /\ d \in Seq(DataMessage) /\ dma \in Seq(DataMessage)
      /\ Way \in Seq(DataMessage) /\ Way = d \o dma
      BY WayTyped DEF Way
<1>2. /\ Out \in Seq(Blocks) /\ adr \in Seq(Blocks) /\ ack_dl \in Seq(Blocks)
      /\ Len(Out) = Len(Way) + Len(adr)
      BY OutTyped
<1>3. BlocksOf(f) = BlocksOf(d)
  <2>1. CASE f = << >>
    <3>1. d = f
          BY <2>1, DataInFacts, <1>1 DEF WayInv, CnfFirst
    <3> QED BY <3>1
  <2>2. CASE f # << >> /\ Head(f).type = "UL_DATA"
    <3>1. d = f
          BY <1>1, <2>2, DataInFacts DEF WayInv, CnfFirst
    <3> QED BY <3>1
  <2>3. CASE f # << >> /\ Head(f).type # "UL_DATA"
    <3>1. d = Tail(f)
          BY <1>1, <2>3, DataInFacts DEF WayInv, CnfFirst
    <3>2. /\ Head(f) = f[1] /\ Len(f) \in Nat /\ Len(d) = Len(f) - 1
          /\ \A i \in 1 .. Len(d) : d[i] = f[i + 1]
          BY <1>1, <2>3, <3>1, HeadTailProperties, LenProperties
    <3>3. Range(f) = Elems(f) /\ Range(d) = Elems(d)
          BY <1>1, RangeElems
    <3> HIDE DEF d, f
    <3>4. ASSUME NEW x \in Elems(f), x.type = "UL_DATA" PROVE x \in Elems(d)
      <4>1. PICK i \in 1 .. Len(f) : x = f[i]
            BY DEF Elems
      <4>2. i # 1
            BY <2>3, <3>2, <3>4, <4>1
      <4>3. i - 1 \in 1 .. Len(d) /\ (i - 1) + 1 = i
            BY <3>2, <4>2
      <4>4. x = d[i - 1]
            BY <3>2, <4>1, <4>3
      <4> QED BY <4>3, <4>4 DEF Elems
    <3>5. ASSUME NEW x \in Elems(d) PROVE x \in Elems(f)
      <4>1. PICK i \in 1 .. Len(d) : x = d[i]
            BY DEF Elems
      <4>2. i + 1 \in 1 .. Len(f) /\ x = f[i + 1]
            BY <3>2, <4>1
      <4> QED BY <4>2 DEF Elems
    <3>6. \A x : x \in Range(f) /\ x.type = "UL_DATA" <=> x \in Range(d) /\ x.type = "UL_DATA"
          BY <3>3, <3>4, <3>5
    <3> QED BY <3>6 DEF BlocksOf
  <2> QED BY <2>1, <2>2, <2>3
<1> HIDE DEF f, d
<1>4. ASSUME NEW w \in Seq(DataMessage)
      PROVE  BlocksOf(w) = Elems(BlksOf(w))
  <2>1. Range(w) = Elems(w)
        BY RangeElems
  <2>2. \A i \in 1 .. Len(w) : w[i] \in DataMessage
        BY ElementOfSeq
  <2>3. \A x \in Range(w) : x.type = "UL_DATA"
        BY <2>1, <2>2, DataMessages DEF Elems
  <2>4. BlocksOf(w) = {w[i].blk : i \in 1 .. Len(w)}
        BY <2>1, <2>3 DEF BlocksOf, Elems
  <2>5. /\ Len(BlksOf(w)) = Len(w) /\ \A i \in 1 .. Len(w) : BlksOf(w)[i] = w[i].blk
        BY BlksFacts
  <2>6. Elems(BlksOf(w)) = {w[i].blk : i \in 1 .. Len(w)}
        BY <2>5 DEF Elems
  <2> QED BY <2>4, <2>6
<1>5. ASSUME NEW s \in Seq(Blocks), NEW t \in Seq(Blocks)
      PROVE  Elems(s \o t) = Elems(s) \cup Elems(t)
  <2> DEFINE u == s \o t
  <2>1. /\ Len(u) = Len(s) + Len(t) /\ Len(s) \in Nat /\ Len(t) \in Nat
        /\ \A i \in 1 .. Len(s) + Len(t) : u[i] = IF i <= Len(s) THEN s[i] ELSE t[i - Len(s)]
        BY ConcatProperties, LenProperties
  <2> HIDE DEF u
  <2>2. ASSUME NEW x \in Elems(u) PROVE x \in Elems(s) \cup Elems(t)
    <3>1. PICK i \in 1 .. Len(s) + Len(t) : x = u[i]
          BY <2>1 DEF Elems
    <3>2. (i <= Len(s) => i \in 1 .. Len(s)) /\ (~(i <= Len(s)) => i - Len(s) \in 1 .. Len(t))
          BY <2>1
    <3> QED BY <2>1, <3>1, <3>2 DEF Elems
  <2>3. ASSUME NEW x \in Elems(s) PROVE x \in Elems(u)
    <3>1. PICK i \in 1 .. Len(s) : x = s[i]
          BY DEF Elems
    <3>2. i \in 1 .. Len(s) + Len(t) /\ i <= Len(s)
          BY <2>1
    <3> QED BY <2>1, <3>1, <3>2 DEF Elems
  <2>4. ASSUME NEW x \in Elems(t) PROVE x \in Elems(u)
    <3>1. PICK i \in 1 .. Len(t) : x = t[i]
          BY DEF Elems
    <3>2. Len(s) + i \in 1 .. Len(s) + Len(t) /\ ~(Len(s) + i <= Len(s))
          /\ (Len(s) + i) - Len(s) = i
          BY <2>1
    <3>3. x = u[Len(s) + i]
          BY <2>1, <3>1, <3>2
    <3> QED BY <2>1, <3>2, <3>3 DEF Elems
  <2> QED BY <2>2, <2>3, <2>4 DEF u
<1>6. Elems(Out) = BlocksOf(fifo_ul) \cup BlocksOf(dma) \cup Range(adr)
  <2>1. BlksOf(d) \in Seq(Blocks) /\ BlksOf(dma) \in Seq(Blocks) /\ BlksOf(Way) \in Seq(Blocks)
        BY <1>1, BlksFacts
  <2>2. BlksOf(Way) = BlksOf(d) \o BlksOf(dma)
        BY <1>1, BlksConcat
  <2>3. Elems(BlksOf(Way)) = BlocksOf(d) \cup BlocksOf(dma)
        BY <1>1, <1>4, <1>5, <2>1, <2>2
  <2>4. Elems(Out) = Elems(BlksOf(Way)) \cup Elems(adr)
        BY <1>2, <1>5, <2>1 DEF Out
  <2>5. Range(adr) = Elems(adr)
        BY <1>2, RangeElems
  <2> QED BY <1>3, <2>3, <2>4, <2>5 DEF f
<1>7. held = Range(adr) \cup BlocksOf(dma) \cup BlocksOf(fifo_ul) \cup bp \cup Range(ack_dl)
  <2>1. Range(ack_dl) = Elems(ack_dl)
        BY <1>2, RangeElems
  <2> QED BY <1>6, <2>1 DEF BlocksApart
<1>8. Cardinality(held) = Len(adr) + Len(dma) + Len(d) + Cardinality(bp) + Len(ack_dl)
  <2> DEFINE A == Elems(Out)
             K == Elems(ack_dl)
  <2>1. /\ IsFiniteSet(A) /\ Cardinality(A) = Len(Out)
        /\ IsFiniteSet(K) /\ Cardinality(K) = Len(ack_dl)
        BY <1>2, DistinctCount DEF BlocksApart
  <2>2. /\ A \cap bp = {} /\ (A \cup bp) \cap K = {} /\ held = (A \cup bp) \cup K
        /\ IsFiniteSet(bp)
        BY DEF BlocksApart
  <2> HIDE DEF A, K
  <2>3. Cardinality({}) = 0
        BY FS_EmptySet
  <2>4. /\ IsFiniteSet(A \cup bp)
        /\ Cardinality(A \cup bp) = Cardinality(A) + Cardinality(bp) - Cardinality(A \cap bp)
        BY <2>1, <2>2, FS_Union
  <2>5. Cardinality(held) = Cardinality(A \cup bp) + Cardinality(K) - Cardinality((A \cup bp) \cap K)
        BY <2>1, <2>2, <2>4, FS_Union
  <2>6. Cardinality(bp) \in Nat
        BY <2>2, FS_CardinalityType
  <2>7. /\ Len(Out) = (Len(d) + Len(dma)) + Len(adr)
        /\ Len(d) \in Nat /\ Len(dma) \in Nat /\ Len(adr) \in Nat /\ Len(ack_dl) \in Nat
        BY <1>1, <1>2, ConcatProperties, LenProperties
  <2>8. Cardinality(A \cup bp) = Len(Out) + Cardinality(bp) - 0
        BY <2>1, <2>2, <2>3, <2>4
  <2>9. Cardinality(held) = (Len(Out) + Cardinality(bp) - 0) + Len(ack_dl) - 0
        BY <2>1, <2>2, <2>3, <2>5, <2>8
  <2> QED BY <2>6, <2>7, <2>9
<1> QED BY <1>7, <1>8 DEF BlocksConserved, d

(* No block of shared memory leaks, is freed twice or is given out while   *)
(* the BP may read it, whatever the order of reservations, transfers,      *)
(* reads, ACKs and interrupts, for any number of blocks.                   *)
THEOREM NoBlockLost == Spec => []BlocksConserved
<1>1. Init => WayInv /\ BlocksApart
  <2> SUFFICES ASSUME Init PROVE WayInv /\ BlocksApart
      OBVIOUS
  <2>1. WayInv /\ Way = << >>
        BY InitWay
  <2>2. adr = << >> /\ ack_dl = << >> /\ bp = {} /\ held = {}
        BY DEF Init
  <2>3. Out = << >>
    <3>1. BlksOf(<< >>) = << >>
          BY DEF BlksOf
    <3>2. << >> \o << >> = << >>
          OBVIOUS
    <3> QED BY <2>1, <2>2, <3>1, <3>2 DEF Out
  <2>4. Elems(<< >>) = {} /\ Distinct(<< >>)
        BY DEF Elems, Distinct
  <2> QED BY <2>1, <2>2, <2>3, <2>4, FS_EmptySet DEF BlocksApart
<1>2. WayInv /\ BlocksApart /\ [Next]_vars => (WayInv /\ BlocksApart)'
      BY NextWayInv, NextApart
<1>3. WayInv /\ BlocksApart => BlocksConserved
      BY ApartConserved
<1> QED BY <1>1, <1>2, <1>3, PTL DEF Spec
==============================================================================
