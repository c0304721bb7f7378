-------------------------------- MODULE DataUl --------------------------------
(***************************************************************************)
(* The uplink above the HIF: net_driver_main.c (one net device per bearer, *)
(* its queue stopped and woken) over lte_data_driver_main_sdma.c (a        *)
(* ptr_fifo per interface, one sDMA transfer at a time, round robin).      *)
(*                                                                         *)
(* A frame stays in the FIFO of its interface while it is transferred, and *)
(* is removed and freed by the completion callback; that works only if the *)
(* interface is still there and nothing else has taken the frame.  The     *)
(* softirq handlers (dev_tx with bottom halves off, the tasklets of the    *)
(* HIF) do not interleave with each other, but run between the steps of a  *)
(* command written to /proc by a process.  lte_dd_sdma_tx, which ends most *)
(* of them, is a step of its own that nothing else can precede.            *)
(***************************************************************************)
EXTENDS Integers, FiniteSets, SequencesExt

CONSTANTS
  MAX_SLOTS,   \* net info structures (8); lte0 has slot 0
  FIFO_SIZE,   \* LTE_DD_TX_DATA_PACKET_FIFO_SIZE (64)
  MaxBatch,    \* IPC_4GHIF_MAX_NB_UL_FRAMES (31)
  Skbs         \* bound: socket buffers in use at once

ASSUME DataUlAssumption ==
  /\ MAX_SLOTS \in Nat \ {0}
  /\ FIFO_SIZE \in Nat \ {0}
  /\ MaxBatch \in Nat \ {0}

Slots == 0 .. (MAX_SLOTS - 1)
lte0 == 0

VARIABLES
  fifo,     \* h_tx_data_fifo of each slot
  pnet,     \* slots whose pnet field is set
  cnt,      \* ni_interfaces_cnt
  devs,     \* slots with a registered net device
  up,       \* those of them that are open
  stopped,  \* those with the net queue stopped
  dd,       \* TX_BUSY, TX_THROTTLE
  ni_busy,  \* slots with LTE_NI_FLAG_TX_BUSY
  xfer,     \* tx_sdma_xfer: the slot and the frames submitted
  rr,       \* running_index, modulo the number of slots
  hif,      \* the HIF: ready, pause
  sdma,     \* the frames of the HIF's transfer under way, if any
  pc,       \* "sdma_tx" when lte_dd_sdma_tx is next
  cmd       \* the net delete command under way: its slot and next step

vars == <<fifo, pnet, cnt, devs, up, stopped, dd, ni_busy, xfer, rr, hif, sdma,
          pc, cmd>>

net == <<pnet, cnt, devs, up>>

NoXfer == [slot |-> lte0, skbs |-> << >>]
NoCmd == [slot |-> lte0, step |-> "none"]

Init ==
  /\ fifo = [i \in Slots |-> << >>]
  /\ pnet = {lte0}
  /\ cnt = 1
  /\ devs = {lte0}
  /\ up = {}
  /\ stopped = {}
  /\ dd = {}
  /\ ni_busy = {}
  /\ xfer = NoXfer
  /\ rr = 0
  /\ hif = {}
  /\ sdma = << >>
  /\ pc = "idle"
  /\ cmd = NoCmd

----------------------------------------------------------------------------
(* Mutant: the queue is woken only when the FIFO is below the threshold by *)
(* more than it can be.                                                    *)
DrainedBelowZero(n) == n < 0

DrainedEnough(n) == n <= FIFO_SIZE \div 2

(* net_drv_tx_complete, for the frames of one transfer: the queue of a     *)
(* slot is woken when its FIFO has drained to one half.                    *)
net_drv_tx_complete(i, left) ==
  stopped' = IF DrainedEnough(Len(left)) THEN stopped \ {i} ELSE stopped

NiNoLongerBusy(i) == ni_busy \ {i}

(* ptr_fifo_remove of each frame that is found at the head.                *)
Removed(f, skbs) ==
  LET left[n \in 0 .. Len(skbs)] ==
        IF n = 0 THEN f
        ELSE IF left[n - 1] # << >> /\ Head(left[n - 1]) = skbs[n]
             THEN Tail(left[n - 1]) ELSE left[n - 1]
  IN  left[Len(skbs)]

----------------------------------------------------------------------------
(* Mutant: the scan of the net info list always starts at slot 0.          *)
FromSlotZero(i) == i

(* The slots in the order of the round robin, i turns from now.            *)
Turn(i) == (rr + i) % MAX_SLOTS

(* lte_dd_ni_interface_fifo_lookup: the only interface, or the next one    *)
(* that is created and has a frame.                                        *)
lte_dd_ni_interface_fifo_lookup ==
  IF cnt = 1
  THEN {i \in {lte0} : fifo[i] # << >>}
  ELSE LET ready(k) == Turn(k) \in pnet /\ fifo[Turn(k)] # << >>
       IN  {Turn(k) : k \in {j \in Slots : /\ ready(j)
                                          /\ \A h \in 0 .. (j - 1) : ~ready(h)}}

(* running_index is one past the slot found, and back where it was when    *)
(* there is none or only one interface.                                    *)
NextTurn(i) == IF cnt = 1 THEN rr ELSE (i + 1) % MAX_SLOTS

(* Mutant: a throttled driver goes on.                                     *)
BlockedByBusy == "TX_BUSY" \in dd \/ lte_dd_ni_interface_fifo_lookup = {}

Blocked == dd # {} \/ lte_dd_ni_interface_fifo_lookup = {}

lte_dd_sdma_tx_nothing ==
  /\ pc = "sdma_tx"
  /\ Blocked
  /\ pc' = "idle"
  /\ UNCHANGED <<fifo, net, stopped, dd, ni_busy, xfer, rr, hif, sdma, cmd>>

(* The frames offered: one, or as many as fit in multi packet mode.        *)
Offered(i) ==
  {SubSeq(fifo[i], 1, n) :
     n \in {1, IF Len(fifo[i]) < MaxBatch THEN Len(fifo[i]) ELSE MaxBatch}}

(* Mutant: the count is not reduced to what the HIF accepted.              *)
AllOffered(skbs, n) == skbs

Accepted(skbs, n) == SubSeq(skbs, 1, n)

(* submit_ul accepts the first n frames of its list; when they are not     *)
(* all of them it answers RESOURCES_FULL and promises to call resume.      *)
lte_dd_sdma_tx_submit(i, n) ==
  /\ pc = "sdma_tx"
  /\ ~Blocked
  /\ "ready" \in hif
  /\ i \in lte_dd_ni_interface_fifo_lookup
  /\ \E skbs \in Offered(i) :
       /\ n <= Len(skbs)
       /\ rr' = NextTurn(i)
       /\ xfer' = [slot |-> i, skbs |-> Accepted(skbs, n)]
       /\ dd' = (IF n > 0 THEN {"TX_BUSY"} ELSE {})
                  \cup (IF n < Len(skbs) THEN {"TX_THROTTLE"} ELSE {})
       /\ ni_busy' = IF n > 0 THEN ni_busy \cup {i} ELSE ni_busy
       /\ sdma' = SubSeq(skbs, 1, n)
       /\ hif' = hif \cup (IF n < Len(skbs) THEN {"pause"} ELSE {})
  /\ pc' = "idle"
  /\ UNCHANGED <<fifo, net, stopped, cmd>>

(* Before the BP is ready the frames are dropped: completed unsent.        *)
lte_dd_sdma_tx_drop ==
  /\ pc = "sdma_tx"
  /\ ~Blocked
  /\ "ready" \notin hif
  /\ \E i \in lte_dd_ni_interface_fifo_lookup : \E skbs \in Offered(i) :
       /\ rr' = NextTurn(i)
       /\ fifo' = [fifo EXCEPT ![i] = Removed(@, skbs)]
       /\ net_drv_tx_complete(i, Removed(fifo[i], skbs))
  /\ xfer' = NoXfer
  /\ pc' = "idle"
  /\ UNCHANGED <<net, dd, ni_busy, hif, sdma, cmd>>

----------------------------------------------------------------------------
InUse == UNION {ToSet(fifo[i]) : i \in Slots}

(* Mutant: one frame too many is let in.                                   *)
FullOneLate(i) == Len(fifo[i]) > FIFO_SIZE

Full(i) == Len(fifo[i]) = FIFO_SIZE

(* The frame is queued and a transfer tried.                               *)
lte_dd_tx_data_start(i) ==
  /\ i \in pnet
  /\ ~Full(i)
  /\ \E s \in Skbs \ InUse : fifo' = [fifo EXCEPT ![i] = Append(@, s)]
  /\ pc' = "sdma_tx"
  /\ UNCHANGED stopped

(* A full FIFO stops the net queue (the stack keeps the frame), and        *)
(* bus_control TX_DRAIN tries a transfer.                                  *)
lte_dd_bus_control_drain(i) ==
  /\ i \in pnet
  /\ Full(i)
  /\ stopped' = stopped \cup {i}
  /\ pc' = "sdma_tx"
  /\ UNCHANGED fifo

(* net_drv_dev_tx: one of the two, or a slot being deleted drops the       *)
(* frame.                                                                  *)
net_drv_dev_tx(i) ==
  /\ pc = "idle"
  /\ i \in up
  /\ i \notin stopped
  /\ \/ lte_dd_tx_data_start(i)
     \/ lte_dd_bus_control_drain(i)
     \/ /\ i \notin pnet
        /\ UNCHANGED <<fifo, stopped, pc>>
  /\ UNCHANGED <<net, dd, ni_busy, xfer, rr, hif, sdma, cmd>>

(* The ul_complete callback.                                               *)
lte_dd_4ghif_ul_complete_cb ==
  /\ pc = "idle"
  /\ sdma # << >>
  /\ sdma' = << >>
  /\ LET left == Removed(fifo[xfer.slot], xfer.skbs)
     IN  /\ fifo' = [fifo EXCEPT ![xfer.slot] = left]
         /\ net_drv_tx_complete(xfer.slot, left)
  /\ ni_busy' = NiNoLongerBusy(xfer.slot)
  /\ dd' = dd \ {"TX_BUSY"}
  /\ xfer' = NoXfer
  /\ pc' = "sdma_tx"
  /\ UNCHANGED <<net, rr, hif, cmd>>

(* Mutant: the resume callback does not start a transfer.                  *)
ResumeNoRestart == "idle"

ResumeRestarts == "sdma_tx"

(* The ul_resume callback, which may come before or after the ul_complete  *)
(* callback of a transfer that was accepted in part.                       *)
lte_dd_4ghif_ul_resume_cb ==
  /\ pc = "idle"
  /\ "pause" \in hif
  /\ hif' = hif \ {"pause"}
  /\ dd' = dd \ {"TX_THROTTLE"}
  /\ pc' = ResumeRestarts
  /\ UNCHANGED <<fifo, net, stopped, ni_busy, xfer, rr, sdma, cmd>>

(* The HIF becomes ready once.                                             *)
hif_ready ==
  /\ pc = "idle"
  /\ "ready" \notin hif
  /\ hif' = hif \cup {"ready"}
  /\ UNCHANGED <<fifo, net, stopped, dd, ni_busy, xfer, rr, sdma, pc, cmd>>

----------------------------------------------------------------------------
net_drv_dev_open(i) ==
  /\ pc = "idle"
  /\ i \in devs \ up
  /\ up' = up \cup {i}
  /\ stopped' = stopped \ {i}
  /\ UNCHANGED <<fifo, pnet, cnt, devs, dd, ni_busy, xfer, rr, hif, sdma, pc,
                 cmd>>

net_drv_dev_release(i) ==
  /\ pc = "idle"
  /\ i \in up
  /\ up' = up \ {i}
  /\ stopped' = stopped \cup {i}
  /\ UNCHANGED <<fifo, pnet, cnt, devs, dd, ni_busy, xfer, rr, hif, sdma, pc,
                 cmd>>

(* net new: the first slot without pnet.  The device cannot be opened      *)
(* before the command ends, for the process does not sleep in between.     *)
lte_dd_create_net_iface(i) ==
  /\ pc = "idle"
  /\ cmd = NoCmd
  /\ i \notin pnet
  /\ \A j \in Slots : j < i => j \in pnet
  /\ pnet' = pnet \cup {i}
  /\ devs' = devs \cup {i}
  /\ cnt' = cnt + 1
  /\ fifo' = [fifo EXCEPT ![i] = << >>]
  /\ UNCHANGED <<up, stopped, dd, ni_busy, xfer, rr, hif, sdma, pc, cmd>>

Deletable(i) == i # lte0 /\ i \notin ni_busy

(* net delete: refused for lte0 and for an interface with a transfer under *)
(* way; else the slot is hidden from the scheduler, ...                    *)
net_delete_begin(i) ==
  /\ pc = "idle"
  /\ cmd = NoCmd
  /\ i \in pnet
  /\ Deletable(i)
  /\ pnet' = pnet \ {i}
  /\ cmd' = [slot |-> i, step |-> "flush"]
  /\ UNCHANGED <<fifo, cnt, devs, up, stopped, dd, ni_busy, xfer, rr, hif, sdma,
                 pc>>

lte_dd_flush_tx_data_fifo(i) == fifo' = [fifo EXCEPT ![i] = << >>]

(* ... the net queue is stopped and the FIFO is emptied and freed, ...     *)
lte_dd_delete_net_iface_flush ==
  /\ pc = "idle"
  /\ cmd.step = "flush"
  /\ stopped' = stopped \cup {cmd.slot}
  /\ lte_dd_flush_tx_data_fifo(cmd.slot)
  /\ cmd' = [cmd EXCEPT !.step = "disconnect"]
  /\ UNCHANGED <<net, dd, ni_busy, xfer, rr, hif, sdma, pc>>

(* ... the device is unregistered, the count corrected, and the slot       *)
(* zeroed.                                                                 *)
net_drv_disconnect ==
  /\ pc = "idle"
  /\ cmd.step = "disconnect"
  /\ devs' = devs \ {cmd.slot}
  /\ up' = up \ {cmd.slot}
  /\ stopped' = stopped \ {cmd.slot}
  /\ cnt' = cnt - 1
  /\ ni_busy' = ni_busy \ {cmd.slot}
  /\ cmd' = NoCmd
  /\ UNCHANGED <<fifo, pnet, dd, xfer, rr, hif, sdma, pc>>

lte_dd_sdma_tx ==
  \/ lte_dd_sdma_tx_nothing
  \/ \E i \in Slots, n \in 0 .. MaxBatch : lte_dd_sdma_tx_submit(i, n)
  \/ lte_dd_sdma_tx_drop

Next ==
  \/ lte_dd_sdma_tx
  \/ \E i \in Slots : \/ net_drv_dev_tx(i)
                      \/ net_drv_dev_open(i)
                      \/ net_drv_dev_release(i)
                      \/ lte_dd_create_net_iface(i)
                      \/ net_delete_begin(i)
  \/ lte_dd_4ghif_ul_complete_cb
  \/ lte_dd_4ghif_ul_resume_cb
  \/ hif_ready
  \/ lte_dd_delete_net_iface_flush
  \/ net_drv_disconnect

Spec == Init /\ [][Next]_vars

(* What the code guarantees: the transfer that a handler ends with is      *)
(* tried, a transfer the HIF has accepted is completed (TransferCompletes  *)
(* of HifUl) and a command goes on, however often other handlers get in    *)
(* between (strong: each is disabled while pc is not "idle").  Nothing is  *)
(* assumed of resume callbacks or of how much the HIF accepts.             *)
Fairness ==
  /\ WF_vars(lte_dd_sdma_tx)
  /\ SF_vars(lte_dd_4ghif_ul_complete_cb)
  /\ SF_vars(lte_dd_delete_net_iface_flush)
  /\ SF_vars(net_drv_disconnect)

FairSpec == Spec /\ Fairness

----------------------------------------------------------------------------
(* The type invariant.                                                     *)
TypeOK ==
  /\ fifo \in [Slots -> Seq(Skbs)]
  /\ \A i \in Slots : Len(fifo[i]) <= FIFO_SIZE
  /\ pnet \subseteq Slots
  /\ cnt \in 1 .. MAX_SLOTS
  /\ devs \subseteq Slots /\ up \subseteq devs /\ stopped \subseteq devs
  /\ dd \subseteq {"TX_BUSY", "TX_THROTTLE"}
  /\ ni_busy \subseteq Slots
  /\ xfer \in [slot : Slots, skbs : Seq(Skbs)]
  /\ rr \in Slots
  /\ hif \subseteq {"ready", "pause"}
  /\ sdma \in Seq(Skbs)
  /\ pc \in {"idle", "sdma_tx"}
  /\ cmd \in [slot : Slots, step : {"none", "flush", "disconnect"}]

(* While the HIF has a transfer, the driver's record of it is the frames   *)
(* the HIF accepted, and they are the first of the FIFO of an interface    *)
(* that exists and is marked busy: ul_complete relies on that to remove    *)
(* and free each frame that was sent, once, and no other.  Without a       *)
(* transfer nothing is marked, so TX_BUSY never outlives its transfer and  *)
(* the watchdog's cancel_ul branch has nothing to recover.                 *)
InFlightAtHead ==
  /\ sdma # << >> <=> "TX_BUSY" \in dd
  /\ sdma # << >> => /\ xfer.skbs = sdma
                     /\ xfer.slot \in pnet
                     /\ ni_busy = {xfer.slot}
                     /\ IsPrefix(sdma, fifo[xfer.slot])
  /\ sdma = << >> => ni_busy = {}

(* A frame in a FIFO has a reason to wait: a transfer, whose completion    *)
(* will look for it, or a pause, whose resume will.  Nothing else starts   *)
(* transfers (the watchdog does not look at FIFOs).                        *)
WorkConserving ==
  (pc = "idle" /\ \E i \in pnet : fifo[i] # << >>)
    => sdma # << >> \/ "pause" \in hif

(* The net queue of an open interface is stopped only while its FIFO is    *)
(* more than half full: no completion that should have woken it is past,   *)
(* and those of the frames still in the FIFO will.                         *)
StoppedWillWake ==
  \A i \in up \cap stopped \cap pnet : Len(fifo[i]) > FIFO_SIZE \div 2

(* The callbacks of the HIF that are still to come, ...                    *)
Owed == {c \in {"ul_complete", "ul_resume"} :
           \/ c = "ul_complete" /\ sdma # << >>
           \/ c = "ul_resume" /\ "pause" \in hif}

(* ... and those the driver waits for.                                     *)
Waits == {c \in {"ul_complete", "ul_resume"} :
            \/ c = "ul_complete" /\ "TX_BUSY" \in dd
            \/ c = "ul_resume" /\ "TX_THROTTLE" \in dd}

Service == INSTANCE UlService WITH
             ready <- "ready" \in hif, waits <- Waits, owed <- Owed

(* The driver keeps its side of the agreement with the HIF, which HifUl    *)
(* shows the HIF to keep: it submits only when it waits for nothing, and   *)
(* its flags follow every partly accepted transfer, completion and resume. *)
RefinesUlService == Service!USSpec

(* The HIF makes the resume callbacks it has promised.  The code does not  *)
(* ensure it: submit_ul can lose one when memory runs out with interrupts  *)
(* on (ResumeComes of HifUl is violated), and it comes for callers that    *)
(* mask them (ResumeComesMasked).                                          *)
ResumesCome == []<>("pause" \notin hif)

(* Frames of interface i are about to be offered to the HIF, ...           *)
OfferedNow(i) ==
  /\ pc = "sdma_tx"
  /\ ~Blocked
  /\ "ready" \in hif
  /\ i \in lte_dd_ni_interface_fifo_lookup

(* ... which does not accept none of them every time.  The scheduler does  *)
(* not ensure it: running_index moves on although nothing was accepted.    *)
Granted(i) == []<>OfferedNow(i) => []<>(i \in ni_busy)

(* "after the pskb is removed from the FIFO and actually xmitted, the bus  *)
(* function tx_complete will be called" (lte_dd_tx_data_start): if resumes *)
(* come and an interface that is offered again and again gets a transfer   *)
(* again and again, no frame stays in its FIFO for ever.  That it is       *)
(* offered is the driver's part: the scan reaches it, however busy the     *)
(* other interfaces are, and every handler after which a frame could go    *)
(* tries to send one.                                                      *)
PacketsLeave ==
  \A i \in Slots : ResumesCome /\ Granted(i) =>
    \A s \in Skbs : []<>(s \notin ToSet(fifo[i]))

(* Under the same two conditions no net queue of an open interface stays   *)
(* stopped for ever: it is woken, or the interface closed.  After a lost   *)
(* resume, TX_THROTTLE is never cleared and the queue stays stopped.       *)
QueueWakes ==
  \A i \in Slots : ResumesCome /\ Granted(i) => []<>(i \notin up \cap stopped)
==============================================================================
