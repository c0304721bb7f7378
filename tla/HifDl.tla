-------------------------------- MODULE HifDl --------------------------------
(***************************************************************************)
(* The downlink, ipc_4ghif.c with the receive side of the LTE data driver  *)
(* (lte_data_driver_main_sdma.c).  The baseband processor (BP) posts       *)
(* frames and rings the mailbox; the HIF looks at the oldest ones, tells   *)
(* the data driver, which allocates buffers and calls submit_dl; the sDMA  *)
(* copies, its ISR acknowledges, and the dl_complete tasklet hands the     *)
(* frames over and looks for more.                                         *)
(*                                                                         *)
(* b_process_dl_msg_on_going, set when frames are announced and cleared    *)
(* after dl_complete, is what keeps the hard interrupt from overwriting    *)
(* the message table under a transfer; no lock covers submit_dl.  Softirq  *)
(* handlers do not interleave with each other (one CPU, no preemption),    *)
(* the ISRs interleave with all of them, tasklets run in the order in      *)
(* which they were scheduled (kernel/softirq.c).                           *)
(***************************************************************************)
EXTENDS Integers, Sequences, FiniteSets, Functions

CONSTANTS
  FIFO_DL_MSG_NB,      \* cells of the DL FIFO; one stays empty
  FIFO_ACK_UL_MSG_NB,  \* cells of the ACK FIFO to the BP; one stays empty
  MAX_NB_DL_FRAMES,    \* frames announced or transferred at once (31)
  BP_DL_BUFFERS,       \* frames the BP has DATA_DL memory for
  PktMod               \* bound: frames are numbered modulo PktMod

ASSUME HifDlAssumption ==
  /\ FIFO_DL_MSG_NB \in Nat \ {0, 1}
  /\ FIFO_ACK_UL_MSG_NB \in Nat \ {0, 1}
  /\ MAX_NB_DL_FRAMES \in Nat \ {0}
  /\ BP_DL_BUFFERS \in Nat \ {0}
  /\ PktMod \in Nat /\ PktMod > FIFO_DL_MSG_NB + MAX_NB_DL_FRAMES

INIT_REQ == -1

VARIABLES
  hif,       \* set flags: b_bp_ready, b_ap_ready,
             \* b_process_dl_msg_on_going, b_sdma_dl_transfer_on_going
  fifo_dl,   \* messages posted by the BP and not passed by the read index
  table,     \* fifo_data_dl_msg_table; its length is incoming_dl_packet_nb
  notified,  \* frames_info_for_receive_cb
  dma,       \* frames in the descriptors of the last transfer
  channel,   \* "running" until the sDMA interrupt
  ack_ul,    \* ACKs posted and not read by the BP
  mbox,      \* "irq": the mailbox interrupt is pending
  tasklets,  \* scheduled tasklets, oldest first
  pc,        \* where the running softirq handler is
  rx_pi,     \* frames lte_dd_sdma_rx was called for
  rx_xfer,   \* frames the data driver has allocated buffers for
  dd,        \* data driver flags: RX_BUSY, RX_AVAIL
  posted,    \* number of the next frame of the BP
  expected   \* number of the next frame for the network stack

vars == <<hif, fifo_dl, table, notified, dma, channel, ack_ul, mbox, tasklets,
          pc, rx_pi, rx_xfer, dd, posted, expected>>

ddrv == <<rx_pi, rx_xfer, dd, expected>>
sdma == <<dma, channel>>

Nth(n) == n % PktMod

Lesser(a, b) == IF a < b THEN a ELSE b

FirstOf(s, n) == SubSeq(s, 1, n)
AllAfter(s, n) == SubSeq(s, n + 1, Len(s))

(* Mutant: tasklets run last in, first out, as in older kernels.           *)
ScheduleFirst(t) ==
  IF t \in Range(tasklets) THEN tasklets ELSE <<t>> \o tasklets

(* tasklet_schedule of a tasklet that is scheduled already does nothing.   *)
Schedule(t) ==
  IF t \in Range(tasklets) THEN tasklets ELSE Append(tasklets, t)

Init ==
  /\ hif = {}
  /\ fifo_dl = << >>
  /\ table = << >>
  /\ notified = << >>
  /\ dma = << >>
  /\ channel = "idle"
  /\ ack_ul = << >>
  /\ mbox = "none"
  /\ tasklets = << >>
  /\ pc = "idle"
  /\ rx_pi = << >>
  /\ rx_xfer = << >>
  /\ dd = {}
  /\ posted = INIT_REQ
  /\ expected = 0

----------------------------------------------------------------------------
(* The oldest frames of the DL FIFO, as many as can be acknowledged: the   *)
(* room is only promised here, the ACKs are posted by the sDMA ISR.        *)
fifo_ack_4ghif_ul_space_left == FIFO_ACK_UL_MSG_NB - 1 - Len(ack_ul)

(* Mutant: the room for ACKs is not looked at.                             *)
FrameInfoNoRoomTest ==
  FirstOf(fifo_dl, Lesser(Len(fifo_dl), MAX_NB_DL_FRAMES))

(* Mutant: the size of the message table is not looked at.                 *)
FrameInfoNoLimit ==
  FirstOf(fifo_dl, Lesser(Len(fifo_dl), fifo_ack_4ghif_ul_space_left))

fifo_4ghif_get_frame_info ==
  FirstOf(fifo_dl, Lesser(Len(fifo_dl),
                     Lesser(MAX_NB_DL_FRAMES, fifo_ack_4ghif_ul_space_left)))

MayProcess == "b_process_dl_msg_on_going" \notin hif

(* The first message is INIT_REQ; later ones are frames, announced by      *)
(* receive_dl and left in the FIFO until submit_dl.                        *)
fifo_4ghif_process_dl_msg ==
  \/ /\ ~MayProcess \/ ("b_bp_ready" \notin hif /\ fifo_dl = << >>)
     /\ UNCHANGED <<hif, fifo_dl, table, notified, tasklets>>
  \/ /\ MayProcess
     /\ "b_bp_ready" \notin hif
     /\ fifo_dl # << >>
     /\ fifo_dl' = Tail(fifo_dl)
     /\ hif' = hif \cup {"b_bp_ready", "b_process_dl_msg_on_going"}
     /\ tasklets' = Schedule("bp_ready")
     /\ UNCHANGED <<table, notified>>
  \/ /\ MayProcess
     /\ "b_bp_ready" \in hif
     /\ table' = fifo_4ghif_get_frame_info
     /\ \/ /\ table' = << >>
           /\ UNCHANGED <<hif, notified, tasklets>>
        \/ /\ table' # << >>
           /\ notified' = table'
           /\ hif' = hif \cup {"b_process_dl_msg_on_going"}
           /\ tasklets' = Schedule("receive_dl")
     /\ UNCHANGED fifo_dl

mailbox_ISR_4GHIF ==
  /\ mbox = "irq"
  /\ mbox' = "none"
  /\ fifo_4ghif_process_dl_msg
  /\ UNCHANGED <<sdma, ack_ul, pc, ddrv, posted>>

(* The sDMA ISR acknowledges the entries of the message table, and not of  *)
(* its own descriptors.  No room for an ACK is a panic.                    *)
sdma_4ghif_dl_callback ==
  /\ channel = "running"
  /\ channel' = "idle"
  /\ ack_ul' = ack_ul \o FirstOf(table, Len(dma))
  /\ tasklets' = Schedule("dl_complete")
  /\ UNCHANGED <<hif, fifo_dl, table, notified, dma, mbox, pc, ddrv, posted>>

----------------------------------------------------------------------------
Runs(t) ==
  /\ pc = "idle"
  /\ tasklets # << >>
  /\ Head(tasklets) = t
  /\ tasklets' = Tail(tasklets)

(* The data driver answers bp_ready by IPC_4GHIF_ready at once.            *)
bp_ready_tasklet_function ==
  /\ Runs("bp_ready")
  /\ hif' = hif \cup {"b_ap_ready"}
  /\ pc' = "release"
  /\ UNCHANGED <<fifo_dl, table, notified, sdma, ack_ul, mbox, ddrv, posted>>

(* Outside multi packet mode, which a command may change at any time, the  *)
(* data driver takes one frame.                                            *)
Taken(frames) == {FirstOf(frames, 1), frames}

receive_dl_tasklet_function ==
  /\ Runs("receive_dl")
  /\ rx_pi' \in Taken(notified)
  /\ pc' = "sdma_rx"
  /\ UNCHANGED <<hif, fifo_dl, table, notified, sdma, ack_ul, mbox, rx_xfer,
                 dd, posted, expected>>

(* The frames whose buffer has the size the sDMA reports go to the net     *)
(* driver, the others are dropped.                                         *)
Delivered == {i \in 1 .. Len(dma) : i <= Len(rx_xfer) /\ rx_xfer[i] = dma[i]}

(* Mutant: RX_BUSY survives the completion.                                *)
StaysBusy == dd

NoLongerBusy == dd \ {"RX_BUSY"}

(* The data driver's dl_complete callback; without RX_BUSY it is spurious. *)
lte_dd_4ghif_dl_complete_cb ==
  \/ /\ "RX_BUSY" \in dd
     /\ expected' = Nth(expected + Cardinality(Delivered))
     /\ rx_xfer' = << >>
     /\ dd' = NoLongerBusy
  \/ /\ "RX_BUSY" \notin dd
     /\ UNCHANGED <<expected, rx_xfer, dd>>

(* dl_complete_tasklet_function up to the end of the callback, ...         *)
dl_complete_tasklet_function ==
  /\ Runs("dl_complete")
  /\ hif' = hif \ {"b_sdma_dl_transfer_on_going"}
  /\ lte_dd_4ghif_dl_complete_cb
  /\ dma' = << >>
  /\ pc' = "release"
  /\ UNCHANGED <<fifo_dl, table, notified, channel, ack_ul, mbox, rx_pi,
                 posted>>

(* ... which lets the next messages be processed, by the mailbox ISR if it *)
(* comes first, ...                                                        *)
dl_complete_release ==
  /\ pc = "release"
  /\ hif' = hif \ {"b_process_dl_msg_on_going"}
  /\ pc' = "process"
  /\ UNCHANGED <<fifo_dl, table, notified, sdma, ack_ul, mbox, tasklets, ddrv,
                 posted>>

(* ... and processes them.  bp_ready_tasklet_function ends in the same way.*)
dl_complete_process ==
  /\ pc = "process"
  /\ fifo_4ghif_process_dl_msg
  /\ pc' = "idle"
  /\ UNCHANGED <<sdma, ack_ul, mbox, ddrv, posted>>

----------------------------------------------------------------------------
(* lte_dd_sdma_rx when a transfer is under way: nothing is done.           *)
lte_dd_sdma_rx_busy ==
  /\ pc = "sdma_rx"
  /\ "RX_BUSY" \in dd
  /\ pc' = "idle"
  /\ UNCHANGED <<hif, fifo_dl, table, notified, sdma, ack_ul, mbox, tasklets,
                 ddrv, posted>>

(* Mutant: a failed allocation is not remembered.                          *)
NoSkbForgotten == dd

NoSkbNoted == dd \cup {"RX_AVAIL"}

(* No socket buffer for the first frame: the frames stay announced, and    *)
(* the watchdog will find RX_AVAIL, which nothing ever clears.             *)
lte_dd_sdma_rx_no_skb ==
  /\ pc = "sdma_rx"
  /\ "RX_BUSY" \notin dd
  /\ dd' = NoSkbNoted
  /\ pc' = "idle"
  /\ UNCHANGED <<hif, fifo_dl, table, notified, sdma, ack_ul, mbox, tasklets,
                 rx_pi, rx_xfer, posted, expected>>

(* lte_dd_alloc_sdma_xfer_list may return fewer buffers than asked for.    *)
lte_dd_sdma_rx_alloc ==
  /\ pc = "sdma_rx"
  /\ "RX_BUSY" \notin dd
  /\ \E n \in 1 .. Len(rx_pi) : rx_xfer' = FirstOf(rx_pi, n)
  /\ dd' = dd \cup {"RX_BUSY"}
  /\ pc' = "submit_dl"
  /\ UNCHANGED <<hif, fifo_dl, table, notified, sdma, ack_ul, mbox, tasklets,
                 rx_pi, posted, expected>>

(* The tests of submit_dl: ready, not busy, frames announced, and every    *)
(* buffer large enough for its frame, which is certain only if it was      *)
(* allocated for it.                                                       *)
Acceptable ==
  /\ {"b_bp_ready", "b_ap_ready", "b_process_dl_msg_on_going"} \subseteq hif
  /\ "b_sdma_dl_transfer_on_going" \notin hif
  /\ \A i \in 1 .. Lesser(Len(rx_xfer), Len(table)) : rx_xfer[i] = table[i]

sdma_dl_packet_nb == Lesser(Len(rx_xfer), Len(table))

(* Mutant: the read index passes every announced frame.                    *)
PassesAll == Len(table)

Passed == sdma_dl_packet_nb

(* What lte_dd_sdma_rx does with the answer: buffers that were not needed  *)
(* are freed, all of them when submit_dl refused.                          *)
lte_dd_sdma_rx_answered(ok) ==
  /\ rx_xfer' = IF ok THEN FirstOf(rx_xfer, sdma_dl_packet_nb) ELSE << >>
  /\ dd' = IF ok /\ sdma_dl_packet_nb > 0 THEN dd ELSE NoLongerBusy

IPC_4GHIF_submit_dl ==
  /\ pc = "submit_dl"
  /\ IF Acceptable
     THEN /\ hif' = hif \cup {"b_sdma_dl_transfer_on_going"}
          /\ dma' = FirstOf(table, sdma_dl_packet_nb)
          /\ fifo_dl' = AllAfter(fifo_dl, Passed)
          /\ channel' = "running"
     ELSE UNCHANGED <<hif, dma, fifo_dl, channel>>
  /\ lte_dd_sdma_rx_answered(Acceptable)
  /\ pc' = "idle"
  /\ UNCHANGED <<table, notified, ack_ul, mbox, tasklets, rx_pi, posted,
                 expected>>

(* The poll: frames are announced to the caller alone, whatever has been   *)
(* announced already.                                                      *)
IPC_4GHIF_get_dl_frames_nb ==
  /\ "b_sdma_dl_transfer_on_going" \notin hif
  /\ table' = fifo_4ghif_get_frame_info
  /\ hif' = IF table' = << >> THEN hif
            ELSE hif \cup {"b_process_dl_msg_on_going"}

(* The watchdog of the data driver with RX_AVAIL set.  Its other branch,   *)
(* RX_BUSY for a second or more, cancels a transfer that has lost its      *)
(* interrupt, which is a panic: BusyIffTransfer.                           *)
ul_dl_watchdog_func ==
  /\ pc = "idle"
  /\ "RX_AVAIL" \in dd
  /\ "RX_BUSY" \notin dd
  /\ IPC_4GHIF_get_dl_frames_nb
  /\ \/ /\ table' = << >>
        /\ UNCHANGED <<rx_pi, pc>>
     \/ /\ table' # << >>
        /\ rx_pi' \in Taken(table')
        /\ pc' = "sdma_rx"
  /\ UNCHANGED <<fifo_dl, notified, sdma, ack_ul, mbox, tasklets, rx_xfer, dd,
                 posted, expected>>

(* The timer fires with nothing to restart.                                *)
ul_dl_watchdog_func_idle ==
  /\ pc = "idle"
  /\ "RX_AVAIL" \notin dd \/ "RX_BUSY" \in dd
  /\ UNCHANGED vars

----------------------------------------------------------------------------
AtBp == Len(SelectSeq(fifo_dl, LAMBDA m : m # INIT_REQ)) + Len(ack_ul)
          + IF channel = "running" THEN Len(dma) ELSE 0

(* The BP posts INIT_REQ, then frames while it has memory for them.        *)
bp_post ==
  /\ Len(fifo_dl) < FIFO_DL_MSG_NB - 1
  /\ AtBp < BP_DL_BUFFERS
  /\ fifo_dl' = Append(fifo_dl, posted)
  /\ posted' = Nth(posted + 1)
  /\ mbox' = "irq"
  /\ UNCHANGED <<hif, table, notified, sdma, ack_ul, tasklets, pc, ddrv>>

(* It reads the ACKs in its own time and without ringing the mailbox.      *)
bp_read_ack ==
  /\ ack_ul # << >>
  /\ ack_ul' = Tail(ack_ul)
  /\ UNCHANGED <<hif, fifo_dl, table, notified, sdma, mbox, tasklets, pc, ddrv,
                 posted>>

Next ==
  \/ mailbox_ISR_4GHIF
  \/ sdma_4ghif_dl_callback
  \/ bp_ready_tasklet_function
  \/ receive_dl_tasklet_function
  \/ dl_complete_tasklet_function
  \/ dl_complete_release
  \/ dl_complete_process
  \/ lte_dd_sdma_rx_busy
  \/ lte_dd_sdma_rx_no_skb
  \/ lte_dd_sdma_rx_alloc
  \/ IPC_4GHIF_submit_dl
  \/ ul_dl_watchdog_func
  \/ ul_dl_watchdog_func_idle
  \/ bp_post
  \/ bp_read_ack

Spec == Init /\ [][Next]_vars

(* Interrupts are taken, the sDMA ends, tasklets and started handlers run  *)
(* on, the watchdog timer fires again and again; the BP reads its ACKs;    *)
(* socket buffers are not refused for ever.                                *)
Fairness ==
  /\ WF_vars(mailbox_ISR_4GHIF)
  /\ WF_vars(sdma_4ghif_dl_callback)
  /\ WF_vars(bp_ready_tasklet_function)
  /\ WF_vars(receive_dl_tasklet_function)
  /\ WF_vars(dl_complete_tasklet_function)
  /\ WF_vars(dl_complete_release)
  /\ WF_vars(dl_complete_process)
  /\ WF_vars(lte_dd_sdma_rx_busy \/ lte_dd_sdma_rx_no_skb)
  /\ SF_vars(lte_dd_sdma_rx_alloc)
  /\ WF_vars(IPC_4GHIF_submit_dl)
  /\ WF_vars(ul_dl_watchdog_func)
  /\ WF_vars(bp_read_ack)

FairSpec == Spec /\ Fairness

----------------------------------------------------------------------------
Frames == 0 .. (PktMod - 1)

(* The type invariant.                                                     *)
TypeOK ==
  /\ hif \subseteq {"b_bp_ready", "b_ap_ready", "b_process_dl_msg_on_going",
                    "b_sdma_dl_transfer_on_going"}
  /\ fifo_dl \in Seq(Frames \cup {INIT_REQ})
  /\ Len(fifo_dl) < FIFO_DL_MSG_NB
  /\ table \in Seq(Frames) /\ Len(table) <= MAX_NB_DL_FRAMES
  /\ notified \in Seq(Frames) /\ Len(notified) <= MAX_NB_DL_FRAMES
  /\ dma \in Seq(Frames)
  /\ channel \in {"idle", "running"}
  /\ ack_ul \in Seq(Frames)
  /\ mbox \in {"irq", "none"}
  /\ tasklets \in Seq({"bp_ready", "receive_dl", "dl_complete"})
  /\ pc \in {"idle", "release", "process", "sdma_rx", "submit_dl"}
  /\ rx_pi \in Seq(Frames) /\ rx_xfer \in Seq(Frames)
  /\ dd \subseteq {"RX_BUSY", "RX_AVAIL"}
  /\ posted \in Frames \cup {INIT_REQ}
  /\ expected \in Frames

(* What the sDMA ISR is going to acknowledge is what is being copied, and  *)
(* the ACK FIFO still has the room that was found when the frames were     *)
(* announced: no buffer is returned to the BP before it is copied, and the *)
(* "no space in FIFO for ACK DL msg" panic is not reachable.               *)
AcksCopiedFrames ==
  channel = "running" =>
    /\ Len(dma) <= fifo_ack_4ghif_ul_space_left
    /\ \A i \in 1 .. Len(dma) : i \in DOMAIN table /\ table[i] = dma[i]

(* submit_dl has no reason to refuse: whichever of the receive_dl tasklet  *)
(* and the watchdog calls it, and however their announcements overlap, the *)
(* frames it would start are announced, oldest first, and each buffer was  *)
(* allocated for its frame.  A refusal here would leave                    *)
(* b_process_dl_msg_on_going set with nobody to clear it.                  *)
SubmitDlAccepted ==
  pc = "submit_dl" =>
    /\ Acceptable
    /\ table # << >>
    /\ \A i \in 1 .. Len(table) : table[i] = fifo_dl[i]

(* Each frame of the BP reaches the network stack once and in order: the   *)
(* frames under way are the ones it has not had.                           *)
InOrder ==
  LET way == dma \o IF fifo_dl # << >> /\ Head(fifo_dl) = INIT_REQ
                    THEN Tail(fifo_dl) ELSE fifo_dl
  IN  /\ \A i \in 1 .. Len(way) : way[i] = Nth(expected + i - 1)
      /\ posted # INIT_REQ => Nth(expected + Len(way)) = posted

(* The data driver is RX_BUSY exactly while the HIF has a transfer on      *)
(* going: the watchdog never finds a stale RX_BUSY to clear and its poll   *)
(* is never answered BUSY.                                                 *)
BusyIffTransfer ==
  pc # "submit_dl" =>
    ("RX_BUSY" \in dd <=> "b_sdma_dl_transfer_on_going" \in hif)

(* ipc_4ghif.h:204: the receive_dl callback is "Scheduled when a new DL    *)
(* frame from BP was received"; so every frame posted is handed over.      *)
FramesDelivered ==
  \A n \in Frames :
    n \in Range(fifo_dl) \cup Range(dma) ~> n \notin Range(fifo_dl) \cup Range(dma)

(* The same promise in every behaviour in which the BP keeps up with its   *)
(* ACKs, so that the ACK UL FIFO is never full: failed buffer allocations, *)
(* overlapping polls and announcements of part of the frames lose none.    *)
DeliveredWithAckRoom ==
  [](fifo_ack_4ghif_ul_space_left > 0) => FramesDelivered
==============================================================================
