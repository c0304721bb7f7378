-------------------------------- MODULE HifUl --------------------------------
(***************************************************************************)
(* drivers/usb/ipchost/ipc_4ghif.c, uplink: submit_ul reserves room in the *)
(* shared FIFO and blocks of shared memory, starts the sDMA, the sDMA ISR  *)
(* posts the frames to the baseband processor (BP), the BP reads them and  *)
(* returns each block with an ACK, the mailbox ISR frees the block and     *)
(* ends the pause that submit_ul declares when it runs out of room.        *)
(*                                                                         *)
(* The kernel is built without SMP and without preemption: tasklets, the   *)
(* timer of the data driver and its dev_tx never interleave with each      *)
(* other, hard interrupts interleave with all of them unless the caller    *)
(* has interrupts off (dev_tx has, tasklets and the timer have not), and   *)
(* the BP runs all the time.  The model starts when the BP has announced   *)
(* itself; the shared FIFOs are sequences (see SharedFifo).                *)
(***************************************************************************)
EXTENDS Integers, Sequences, Functions, FiniteSets

CONSTANTS
  Blocks,          \* blocks of DATA_UL shared memory, of one size
  FIFO_UL_MSG_NB,  \* cells of the UL FIFO; one stays empty
  MaxBatch,        \* bound: frames in one submit_ul (31 in the code)
  IrqOnCallers,    \* TRUE: submit_ul is also called with interrupts on
  PktMod           \* bound: frames are numbered modulo PktMod

ASSUME HifUlAssumption ==
  /\ FIFO_UL_MSG_NB \in Nat \ {0, 1}
  /\ MaxBatch \in Nat \ {0}
  /\ IrqOnCallers \in BOOLEAN
  /\ PktMod \in Nat /\ PktMod > FIFO_UL_MSG_NB + MaxBatch

VARIABLES
  hif,       \* set flags: b_ap_ready, b_ul_pause, b_sdma_ul_transfer_on_going
  held,      \* blocks allocated in the memory manager
  pc,        \* where a running submit_ul is
  irqs,      \* "off" while a caller with interrupts off is in submit_ul
  want,      \* packet_nb of the running submit_ul
  adr,       \* blocks it has reserved so far; its length is index
  dma,       \* fifo_data_ul_msg_table of the transfer under way
  fifo_ul,   \* messages posted to the BP and not read
  bp,        \* blocks the BP has read and not acknowledged
  ack_dl,    \* ACKs posted by the BP and not processed
  mbox,      \* "irq": the mailbox interrupt is pending
  tasklets,  \* scheduled tasklets: ul_complete, ul_resume
  dd,        \* data driver flags: TX_BUSY, TX_THROTTLE
  pkt_next,  \* number of the next frame the data driver submits
  pkt_bp     \* number of the next frame the BP expects

vars == <<hif, held, pc, irqs, want, adr, dma, fifo_ul, bp, ack_dl, mbox,
          tasklets, dd, pkt_next, pkt_bp>>

call == <<pc, irqs, want, adr>>
link == <<fifo_ul, bp, ack_dl, mbox>>
pkts == <<pkt_next, pkt_bp>>

fifo_4ghif_ul_space_left == FIFO_UL_MSG_NB - 1 - Len(fifo_ul)

Nth(n) == n % PktMod

Init ==
  /\ hif = {}
  /\ held = {}
  /\ pc = "idle"
  /\ irqs = "on"
  /\ want = 0
  /\ adr = << >>
  /\ dma = << >>
  /\ fifo_ul = << >>
  /\ bp = {}
  /\ ack_dl = << >>
  /\ mbox = "none"
  /\ tasklets = {}
  /\ dd = {}
  /\ pkt_next = 0
  /\ pkt_bp = 0

----------------------------------------------------------------------------
(* The data driver answers bp_ready by IPC_4GHIF_ready: INIT_CNF is posted *)
(* once, a later call changes nothing.                                     *)
IPC_4GHIF_ready ==
  /\ pc = "idle"
  /\ "b_ap_ready" \notin hif
  /\ hif' = hif \cup {"b_ap_ready"}
  /\ fifo_ul' = Append(fifo_ul, [type |-> "INIT_CNF", pkt |-> -1, blk |-> -1])
  /\ UNCHANGED <<held, call, dma, bp, ack_dl, mbox, tasklets, dd, pkts>>

(* submit_ul of n frames: the checks of its first part.  The data driver   *)
(* calls it when it has neither TX_BUSY nor TX_THROTTLE.                   *)
submit_ul_call(n) ==
  /\ pc = "idle"
  /\ dd = {}
  /\ "b_ap_ready" \in hif
  /\ "b_sdma_ul_transfer_on_going" \notin hif
  /\ pc' = "reserve"
  /\ want' = n
  /\ adr' = << >>
  /\ irqs' \in IF IrqOnCallers THEN {"on", "off"} ELSE {"off"}
  /\ UNCHANGED <<hif, held, dma, link, tasklets, dd, pkts>>

(* AP_NOT_READY and BUSY are returned before anything is touched.          *)
submit_ul_refused ==
  /\ pc = "idle"
  /\ "b_ap_ready" \notin hif \/ "b_sdma_ul_transfer_on_going" \in hif
  /\ UNCHANGED vars

(* Mutant: the room test is off by one.                                    *)
RoomForOneMore(index) == fifo_4ghif_ul_space_left >= index

RoomFor(index) == fifo_4ghif_ul_space_left > index

(* Mutant: the loop runs once too often.                                   *)
MoreOffByOne == Len(adr) <= want

MoreToReserve == Len(adr) < want

(* One turn of the reservation loop.  FIFO room is tested against index,   *)
(* the frames already reserved: they will be posted by the sDMA ISR only.  *)
(* No room: pause, under the FIFO lock.  No memory: the pause flag is set  *)
(* later, with no lock.                                                    *)
submit_ul_reserve ==
  /\ pc = "reserve"
  /\ MoreToReserve
  /\ \/ /\ ~RoomFor(Len(adr))
        /\ hif' = hif \cup {"b_ul_pause"}
        /\ pc' = "start_full"
        /\ UNCHANGED <<held, adr>>
     \/ /\ RoomFor(Len(adr))
        /\ \E b \in Blocks \ held :
             /\ held' = held \cup {b}
             /\ adr' = Append(adr, b)
        /\ UNCHANGED <<hif, pc>>
     \/ /\ RoomFor(Len(adr))
        /\ held = Blocks
        /\ pc' = "mem_full"
        /\ UNCHANGED <<hif, held, adr>>
  /\ UNCHANGED <<irqs, want, dma, link, tasklets, dd, pkts>>

(* Mutant: running out of memory does not declare the pause.               *)
MemFullNoPause ==
  /\ pc = "mem_full"
  /\ hif' = hif
  /\ pc' = "start_full"
  /\ UNCHANGED <<held, irqs, want, adr, dma, link, tasklets, dd, pkts>>

submit_ul_mem_full ==
  /\ pc = "mem_full"
  /\ hif' = hif \cup {"b_ul_pause"}
  /\ pc' = "start_full"
  /\ UNCHANGED <<held, irqs, want, adr, dma, link, tasklets, dd, pkts>>

(* Mutant: the frames that were not accepted are counted as sent.          *)
CountsAll == want

processing_packet_nb == Len(adr)

(* Mutant: the last frame accepted is left out.                            *)
TableOneShort ==
  [i \in 1 .. (Len(adr) - 1) |->
     [type |-> "UL_DATA", pkt |-> Nth(pkt_next + i - 1), blk |-> adr[i]]]

fifo_data_ul_msg_table ==
  [i \in 1 .. Len(adr) |->
     [type |-> "UL_DATA", pkt |-> Nth(pkt_next + i - 1), blk |-> adr[i]]]

(* The message table is filled, the sDMA started and the caller told how   *)
(* many frames were accepted; with none, nothing is started.  The caller   *)
(* takes note while no tasklet can run.                                    *)
submit_ul_start ==
  /\ pc = "start_full" \/ (pc = "reserve" /\ ~MoreToReserve)
  /\ dma' = fifo_data_ul_msg_table
  /\ \/ /\ adr = << >>
        /\ dd' = {"TX_THROTTLE"}
        /\ UNCHANGED hif
     \/ /\ adr # << >>
        /\ dd' = {"TX_BUSY"} \cup IF pc = "start_full" THEN {"TX_THROTTLE"}
                                                       ELSE {}
        /\ hif' = hif \cup {"b_sdma_ul_transfer_on_going"}
  /\ pkt_next' = Nth(pkt_next + processing_packet_nb)
  /\ pc' = "idle"
  /\ irqs' = "on"
  /\ want' = 0
  /\ adr' = << >>
  /\ UNCHANGED <<held, link, tasklets, pkt_bp>>

----------------------------------------------------------------------------
(* Mutant: the sDMA ISR does not schedule the completion.                  *)
SdmaForgetsTasklet ==
  /\ irqs = "on"
  /\ dma # << >>
  /\ fifo_ul' = fifo_ul \o dma
  /\ dma' = << >>
  /\ tasklets' = tasklets
  /\ UNCHANGED <<hif, held, call, bp, ack_dl, mbox, dd, pkts>>

(* sDMA ISR: every frame of the transfer is posted, and ul_complete is     *)
(* scheduled.  fifo_4ghif_add_msg finding no room is a panic.              *)
sdma_4ghif_ul_callback ==
  /\ irqs = "on"
  /\ dma # << >>
  /\ fifo_ul' = fifo_ul \o dma
  /\ dma' = << >>
  /\ tasklets' = tasklets \cup {"ul_complete"}
  /\ UNCHANGED <<hif, held, call, bp, ack_dl, mbox, dd, pkts>>

(* fifo_ack_4ghif_process_dl_msg: every ACK frees its block; a pause ends  *)
(* when the FIFO has room.                                                 *)
fifo_ack_4ghif_process_dl_msg ==
  LET resume == /\ ack_dl # << >>
                /\ "b_ul_pause" \in hif
                /\ fifo_4ghif_ul_space_left > 0
  IN  /\ held' = held \ Range(ack_dl)
      /\ ack_dl' = << >>
      /\ \/ /\ resume
            /\ hif' = hif \ {"b_ul_pause"}
            /\ tasklets' = tasklets \cup {"ul_resume"}
         \/ /\ ~resume
            /\ UNCHANGED <<hif, tasklets>>

mailbox_ISR_4GHIF ==
  /\ irqs = "on"
  /\ mbox = "irq"
  /\ mbox' = "none"
  /\ fifo_ack_4ghif_process_dl_msg
  /\ UNCHANGED <<call, dma, fifo_ul, bp, dd, pkts>>

(* The dl_complete and bp_ready tasklets process the ACKs too.             *)
dl_complete_tasklet_acks ==
  /\ pc = "idle"
  /\ ack_dl # << >>
  /\ fifo_ack_4ghif_process_dl_msg
  /\ UNCHANGED <<call, dma, fifo_ul, bp, mbox, dd, pkts>>

(* Mutant: the completion leaves the transfer on going.                    *)
CompleteKeepsTransfer ==
  /\ pc = "idle"
  /\ "ul_complete" \in tasklets
  /\ tasklets' = tasklets \ {"ul_complete"}
  /\ hif' = hif
  /\ dd' = dd \ {"TX_BUSY"}
  /\ UNCHANGED <<held, call, dma, link, pkts>>

ul_complete_tasklet_function ==
  /\ pc = "idle"
  /\ "ul_complete" \in tasklets
  /\ tasklets' = tasklets \ {"ul_complete"}
  /\ hif' = hif \ {"b_sdma_ul_transfer_on_going"}
  /\ dd' = dd \ {"TX_BUSY"}
  /\ UNCHANGED <<held, call, dma, link, pkts>>

ul_resume_tasklet_function ==
  /\ pc = "idle"
  /\ "ul_resume" \in tasklets
  /\ tasklets' = tasklets \ {"ul_resume"}
  /\ dd' = dd \ {"TX_THROTTLE"}
  /\ UNCHANGED <<hif, held, call, dma, link, pkts>>

----------------------------------------------------------------------------
(* The BP reads the oldest message; a data frame leaves it a block, ...    *)
bp_read ==
  /\ fifo_ul # << >>
  /\ LET m == Head(fifo_ul)
     IN  IF m.type = "UL_DATA"
         THEN bp' = bp \cup {m.blk} /\ pkt_bp' = Nth(pkt_bp + 1)
         ELSE UNCHANGED <<bp, pkt_bp>>
  /\ fifo_ul' = Tail(fifo_ul)
  /\ UNCHANGED <<hif, held, call, dma, ack_dl, mbox, tasklets, dd, pkt_next>>

(* ... which it returns in any order, with a mailbox message.              *)
bp_ack ==
  \E b \in bp :
    /\ bp' = bp \ {b}
    /\ ack_dl' = Append(ack_dl, b)
    /\ mbox' = "irq"
    /\ UNCHANGED <<hif, held, call, dma, fifo_ul, tasklets, dd, pkts>>

Next ==
  \/ IPC_4GHIF_ready
  \/ \E n \in 1 .. MaxBatch : submit_ul_call(n)
  \/ submit_ul_refused
  \/ submit_ul_reserve
  \/ submit_ul_mem_full
  \/ submit_ul_start
  \/ sdma_4ghif_ul_callback
  \/ mailbox_ISR_4GHIF
  \/ dl_complete_tasklet_acks
  \/ ul_complete_tasklet_function
  \/ ul_resume_tasklet_function
  \/ bp_read
  \/ bp_ack

Spec == Init /\ [][Next]_vars

(* Code that has started runs on, interrupts are taken, the sDMA ends,     *)
(* scheduled tasklets run; the BP is assumed to read and to acknowledge.   *)
(* Nothing obliges the network stack to send.                              *)
Fairness ==
  /\ WF_vars(submit_ul_reserve)
  /\ WF_vars(submit_ul_mem_full)
  /\ WF_vars(submit_ul_start)
  /\ WF_vars(sdma_4ghif_ul_callback)
  /\ WF_vars(mailbox_ISR_4GHIF)
  /\ WF_vars(ul_complete_tasklet_function)
  /\ WF_vars(ul_resume_tasklet_function)
  /\ WF_vars(bp_read)
  /\ WF_vars(bp_ack)

FairSpec == Spec /\ Fairness

----------------------------------------------------------------------------
Message == [type : {"UL_DATA"}, pkt : 0 .. (PktMod - 1), blk : Blocks]
             \cup [type : {"INIT_CNF"}, pkt : {-1}, blk : {-1}]

(* The type invariant.                                                     *)
TypeOK ==
  /\ hif \subseteq {"b_ap_ready", "b_ul_pause", "b_sdma_ul_transfer_on_going"}
  /\ held \subseteq Blocks
  /\ pc \in {"idle", "reserve", "mem_full", "start_full"}
  /\ irqs \in {"on", "off"}
  /\ want \in 0 .. MaxBatch
  /\ adr \in Seq(Blocks) /\ Len(adr) <= want
  /\ dma \in Seq(Message) /\ Len(dma) <= MaxBatch
  /\ fifo_ul \in Seq(Message)
  /\ bp \subseteq Blocks
  /\ ack_dl \in Seq(Blocks)
  /\ mbox \in {"irq", "none"}
  /\ tasklets \subseteq {"ul_complete", "ul_resume"}
  /\ dd \subseteq {"TX_BUSY", "TX_THROTTLE"}
  /\ pkt_next \in 0 .. (PktMod - 1)
  /\ pkt_bp \in 0 .. (PktMod - 1)

(* The room that submit_ul found for its frames is still there when the    *)
(* sDMA ISR posts them, so its "no space in FIFO for DATA UL msg" panic    *)
(* is not reachable although nothing is written at reservation.            *)
RoomReserved == Len(dma) <= fifo_4ghif_ul_space_left

BlocksOf(msgs) == {m.blk : m \in {x \in Range(msgs) : x.type = "UL_DATA"}}

(* INIT_CNF, if it is still there, is the first message.                   *)
DataIn(msgs) ==
  IF msgs # << >> /\ Head(msgs).type = "INIT_CNF" THEN Tail(msgs) ELSE msgs

(* A block the memory manager has given out is in exactly one place: being *)
(* filled, posted, with the BP, or in the ACK FIFO.  So none leaks, none   *)
(* is freed twice ("FREE SECTOR NOT USED") and none is given out while the *)
(* BP may still read it.                                                   *)
BlocksConserved ==
  /\ held = Range(adr) \cup BlocksOf(dma) \cup BlocksOf(fifo_ul)
              \cup bp \cup Range(ack_dl)
  /\ Cardinality(held) = Len(adr) + Len(dma) + Len(DataIn(fifo_ul))
                           + Cardinality(bp) + Len(ack_dl)

(* The frames under way are the ones the BP has not seen, in the order of  *)
(* submission: none lost, repeated or overtaken, partial acceptances by    *)
(* submit_ul included.                                                     *)
InOrder ==
  LET way == DataIn(fifo_ul) \o dma
  IN  /\ \A i \in 1 .. Len(way) : way[i].pkt = Nth(pkt_bp + i - 1)
      /\ Nth(pkt_bp + Len(way)) = pkt_next

(* A data driver that waits for the resume callback does not wait in vain  *)
(* as far as the HIF's own records go: the pause is on record or the       *)
(* tasklet is scheduled.                                                   *)
ThrottleOnRecord ==
  "TX_THROTTLE" \in dd => "b_ul_pause" \in hif \/ "ul_resume" \in tasklets

(* The data driver is TX_BUSY exactly while the HIF has a transfer on      *)
(* going, and exactly while that transfer still has its interrupt or its   *)
(* completion to come.  So when the watchdog finds TX_BUSY for too long it *)
(* is the sDMA that stalled, and cancel_ul panics; its recovery, clearing  *)
(* TX_BUSY and sending again beside a transfer or a completion of the old  *)
(* one, is not reachable.                                                  *)
BusyWhileTransfer ==
  /\ "TX_BUSY" \in dd <=> "b_sdma_ul_transfer_on_going" \in hif
  /\ "TX_BUSY" \in dd <=> (dma # << >> \/ "ul_complete" \in tasklets)

(* What the HIF owes the data driver, by its own records: a resume is owed *)
(* from the answer of the call that declared the pause.                    *)
Owed == {c \in {"ul_complete", "ul_resume"} :
           \/ /\ c = "ul_complete"
              /\ "b_sdma_ul_transfer_on_going" \in hif
           \/ /\ c = "ul_resume"
              /\ pc = "idle"
              /\ "b_ul_pause" \in hif \/ "ul_resume" \in tasklets}

(* What the data driver waits for, by its flags.                           *)
Waits == {c \in {"ul_complete", "ul_resume"} :
            \/ c = "ul_complete" /\ "TX_BUSY" \in dd
            \/ c = "ul_resume" /\ "TX_THROTTLE" \in dd}

Service == INSTANCE UlService WITH
             ready <- "b_ap_ready" \in hif, waits <- Waits, owed <- Owed

(* The two layers never disagree about an answer of submit_ul: interrupts  *)
(* in the middle of the call included, the HIF owes the callbacks that the *)
(* driver waits for and no others, and calls back only what it owes.       *)
RefinesUlService == Service!USSpec

(* ipc_4ghif.c:1522, for callers told RESOURCES_FULL: the resume callback  *)
(* "will be scheduled as soon as space will be available in shared memory" *)
ResumeComes == "TX_THROTTLE" \in dd ~> "TX_THROTTLE" \notin dd

(* The same promise wherever the failed allocation and the pause flag are  *)
(* not separated by an interrupt: in every behaviour in which submit_ul    *)
(* runs out of memory only with interrupts off (called from dev_tx), a     *)
(* throttled data driver is resumed, whatever interrupts come elsewhere.   *)
ResumeComesMasked ==
  [](pc = "mem_full" => irqs = "off") => ResumeComes

(* Every accepted transfer is completed: the data driver gets its          *)
(* ul_complete callback and the BP gets the frames.                        *)
TransferCompletes ==
  /\ "TX_BUSY" \in dd ~> "TX_BUSY" \notin dd
  /\ \A n \in 0 .. (PktMod - 1) :
       (\E i \in 1 .. Len(dma) : dma[i].pkt = n) ~> pkt_bp = Nth(n + 1)
==============================================================================
