# TLA+ models of the LTE data path

This project models the LTE data path of the modem kernel: the drivers under
`src/kernel/drivers/lte/` and the host interface to the baseband processor in
`src/kernel/drivers/usb/ipchost/ipc_4ghif*.c`. The rest of the repository is
Linux 2.6.29 and is left aside, except for the ordering of tasklets, on which
the drivers depend.

`PROJECT.json` lists components, runs, mutants, the map from definitions to
source lines, findings, hazards and theorems.

## 1. The system

Application processor (AP, Linux on an OMAP) and baseband processor (BP) share
an uncached memory and ring each other through hardware mailboxes.

| Component | State it keeps | Operations |
|---|---|---|
| Net driver, `net_driver_main.c` | one net device per bearer: open or not, queue stopped or not; QoS and bridge settings | `dev_tx`, `tx_complete`, `rx_complete`, open, release, probe, disconnect |
| Data driver, `lte_data_driver_main_sdma.c` | 8 net info slots, each with a pointer FIFO; TX_BUSY, TX_THROTTLE, RX_BUSY, RX_AVAIL; the lists of the UL and DL transfers | `sdma_tx`, `sdma_rx`, five HIF callbacks, watchdog timer, `/proc` commands (`net new`, `net delete`, settings) |
| Pointer FIFO, `ptr_fifo.c` | ring of pointers, head, tail, count | alloc, free, insert, remove, peek, peek_offset, counts |
| 4G HIF, `ipc_4ghif.c` | ready flags, on-going flags, `b_ul_pause`, message tables, private FIFO indices | open, ready, submit_ul, submit_dl, get_dl_frames_nb, cancel, close; mailbox and sDMA interrupts; five tasklets |
| Shared FIFOs, `ipc_4ghif.c` | four rings of 256 messages: UL, DL, ACK UL, ACK DL | add_msg, get_msg, increment of the read index |
| UL memory manager, `ipc_4ghif_mm.c` | 48 pages of 16 sectors, six page bit fields, sector words | buddy_init, buddy_alloc, buddy_free |
| QoS agent, `lte_qos_agent.c` | 5 PDN tables: address, default and dedicated bearers with their packet filters; per PDN a doubly linked list of all filters by precedence | messages of the network: new PDN, create, add, replace and delete filters, release, detach; `QA_Cla` classifies UL packets |
| Profile log, command parser, platform helpers | time stamps, parsed commands | not modelled yet or at all, see section 7 |

How they interact:

- UL: the stack calls `dev_tx`; the frame goes into the FIFO of its interface
  and stays there. `sdma_tx` picks an interface round robin and offers its
  first frames to `submit_ul`, which reserves room in the UL FIFO and a block of
  shared memory for each, accepts a prefix and starts the sDMA. The sDMA
  interrupt posts the messages, the `ul_complete` tasklet lets the data driver
  remove and free the frames and try again. The BP returns each block with an
  ACK; the mailbox interrupt frees it and, after a pause, schedules `ul_resume`.
- DL: the BP posts frames and rings. The mailbox interrupt fills a message table
  with the oldest frames and schedules `receive_dl`; the data driver allocates
  buffers and calls `submit_dl`, which advances the read index and starts the
  sDMA. Its interrupt posts the ACKs; `dl_complete` hands the frames over and
  looks for more.
- QoS: a management process writes the network's bearer messages to a character
  device and runs their handlers; the net driver's `dev_tx` has each packet
  classified, in a softirq, between any two sections of a handler that hold
  `mr_lock`.
- A watchdog timer (2 s) polls for DL frames after a failed buffer allocation,
  and cancels transfers that are busy for more than a second.

Concurrency, from the modem's configuration (`wrigley_dc_lte_defconfig_acm`: one
CPU, no preemption): softirq handlers (`dev_tx`, tasklets, timers) never
interleave with each other; hard interrupts come between any two of their steps
unless interrupts are off (spinlocks here only turn interrupts off); a process
in a `/proc` write is interrupted by all of them; the BP and the sDMA engine run
all the time. Hard to test are therefore: interrupts between a test and the use
of its result, partly accepted transfers, resume and completion in either order,
polls that overlap announcements, deletion of an interface in use, long sequences
of bearer messages, and every promise of a later callback. `PROJECT.json` has them, line by line, as hazards.

What makes each component correct: the FIFO and the rings are queues; the memory
manager hands out disjoint blocks and never panics; UL and DL frames are neither
lost, duplicated nor reordered, no FIFO overflows (a panic), every block comes
back; busy flags agree across layers; throttled queues are resumed, frames leave; a
packet goes to the bearer that the filters installed by the network name, and
the list it is looked up in is sound whenever a softirq can walk it.

## 2. Modules

| Module | Models | Kind |
|---|---|---|
| `BoundedFifo` | what a pointer FIFO promises | abstract |
| `PtrFifo` | `ptr_fifo.c` | refines `BoundedFifo` |
| `PtrFifoProofs` | theorems on `PtrFifo` | TLAPS |
| `BlockStore` | what the UL memory manager promises | abstract |
| `BuddyMM` | `ipc_4ghif_mm.c` | refines `BlockStore` |
| `BuddyMMProofs` | theorems on `BuddyMM` | TLAPS |
| `MsgQueue` | what a shared FIFO promises | abstract |
| `SharedFifo` | the rings of `ipc_4ghif.c` | refines `MsgQueue` |
| `SharedFifoProofs` | theorems on `SharedFifo` | TLAPS |
| `UlService` | what the data driver and the HIF agree on for UL transfers | abstract |
| `HifUl` | UL half of `ipc_4ghif.c` and the BP | composes queue, blocks, interrupts, tasklets; refines `UlService` |
| `HifUlProofs` | theorems on `HifUl` | TLAPS |
| `HifDl` | DL half of `ipc_4ghif.c`, DL half of the data driver, watchdog, BP | composition |
| `HifDlProofs` | theorems on `HifDl` | TLAPS |
| `DataUl` | UL half of the data driver, net driver | refines `UlService`, the HIF reduced to its side of it |
| `DataUlProofs` | theorems on `DataUl` | TLAPS |
| `QosAgent`, `MCQosAgent` | PDN tables, filter lists, handlers and classifier of `lte_qos_agent.c` | against the network's own view of its bearers |
| `QosAgentProofs` | theorems on `QosAgent` | TLAPS |
| `ModularProofs` | lemmas on quotients and remainders | TLAPS |

Actions carry the names of the functions they model; a function that other
actors can come between is split at those points (`submit_ul_call`, `_reserve`,
`_mem_full`, `_start`; `dl_complete_tasklet_function`, `_release`, `_process`;
`net_delete_begin`, `lte_dd_delete_net_iface_flush`, `net_drv_disconnect`;
`Qa_Bearer_Delete`, `_filter`, `_end`). A
definition whose comment starts with "Mutant:" is a deliberate error that is
not part of the specification: replacing the definition after it by it makes a
named property fail.

Abstractions:

- `PtrFifo`: the spinlock makes a call atomic. Debug text is left out; freed
  memory is "no object", which every call answers by its error code.
- `BuddyMM`: bit fields are sets; an address counts sectors. `buddy_alloc` works
  under the buddy lock and is called by `submit_ul` only; `buddy_free` is called
  by the processing of ACKs (mailbox interrupt, `dl_complete` and `bp_ready`
  tasklets), which holds its own lock with interrupts off. So calls are atomic.
- `SharedFifo`: a message is a value; its eight byte stores are one step, before
  the step that publishes the index. Stores become visible in program order.
- `HifUl`: the two shared FIFOs are sequences, as `SharedFifo` shows; blocks have
  one size, for which allocation is "some free block", as `BlockStore` allows.
  The data driver is its two flags. Interrupts are masked (`irqs`) while the
  caller is `dev_tx`. Frames are numbered modulo `PktMod`, larger than what can
  be under way, so that order and loss are visible.
- `HifDl`: frame numbers also stand for frame sizes: a buffer fits when it was
  allocated for that frame, the worst case. Drops by packet type and by
  `rx_complete` are after delivery and not modelled.
- `DataUl`: `lte_dd_sdma_tx` ends every handler that calls it; it is a step of its
  own, and `pc` keeps every other action from coming before it. `submit_ul` is
  "accepts any prefix, and promises resume when it is not all": the HIF side of
  `UlService`, which `HifUl` implements. QoS failures, disabled UL and zero length
  packets are dropped before any state changes and are left out.
- `QosAgent`: filter nodes are cells of a heap linked by `next` and `prev` as in
  the code, so that an insertion at the wrong end, a stale pointer or a cycle is a
  state of the model; a step through a null or freed pointer, and a loop that
  never ends, set `halted`. A filter's contents are the one flow of packets it
  matches. A step is one section of a handler that holds `mr_lock`; what happens
  between two sections is not read by the classifier. `net` and `goal` are the
  network's bearers before and after the message being handled; `ClassifiesAsInstalled`
  compares `QA_Cla` with what the TFT rules say of them, for every packet the
  running message does not concern. The network keeps to the rules (identifiers
  unique in a bearer, precedences in a PDN, ids and addresses of PDNs in use).
  Six kinds of messages that the code cannot take are sent only if they are in
  `Beyond`:
  - `release_order`: releases of dedicated bearers that are not last first (finding 3);
  - `default_delete`: deletion of a default bearer's filter (finding 4);
  - `mixed_replace`: a replacement that names known and unknown filters of a
    bearer (finding 5);
  - `default_tft_delete`: DELETE_EXISTING_TFT of a default bearer. The handler
    does not ask which bearer it is (`lte_qos_agent.c:1435-1437`) and
    `Qa_Bearer_Delete` (1753) takes the whole PDN down, though the network has
    only dropped the TFT;
  - `no_address`: a registration without an address (2903-2912), which leaves
    table 0 with the address of its last PDN. A later PDN that is given this address in
    another table then finds table 0;
  - `register_again`: a registration while table 0 is in use. The code writes over
    the table without a test (2880, 2921-2934) and loses its list.

  No comment or document of the repository speaks of the last three, so there is no
  claim to refute and no run for them; with any of them in `Beyond`, TLC finds
  `ClassifiesAsInstalled`, `AddressFindsPdn` or `NodesAccounted` violated within
  two thousand states, and the theorems exclude them by name.
  Node allocation (`GFP_KERNEL`) does not fail. The
  identifier of a match-all filter is never written by the code (0 stands for it)
  and never read as long as replacements are sent only to bearers that have a TFT.
  The loops over the filters of a replacement are one step, as the code holds
  `mr_lock` over each; they are recursive functions of the turn
  (`Overwritten`, `Resorted`).

## 3. Runs

All pass runs have no error and check deadlock except where stated.

| Run | Bounds | Shows |
|---|---|---|
| `ptr_fifo` | 2 pointers, rings up to 3 elements | count agrees with indices; every call answers as the bounded queue |
| `buddy_mm` | 2 pages of 4 sectors, 2 KB block = 2 sectors, sizes 1 to 8 with a sector of 2 | bit fields agree with each other and with the blocks held; no panic; refines `BlockStore` |
| `shared_fifo` | 4 cells, lookahead 2, 2 messages | refines `MsgQueue` at every interleaving |
| `hif_ul` | 3 blocks, 3 cells, 3 frames a call, callers with interrupts on and off | reserved room stays, blocks conserved, order, pause on record, busy flags agree; refines `UlService`; transfers complete; resume comes where memory ran out with interrupts off |
| `hif_ul_lost_resume` | 2 blocks, 3 cells, 2 frames, interrupts on | violated, finding 1 |
| `hif_dl` | FIFOs of 4 cells, 2 frames at once, 4 BP buffers | ACKs are of the frames copied, submit_dl never refused, order, flags of the layers agree; every frame is delivered unless the ACK FIFO fills up |
| `hif_dl_stranded` | ACK FIFO of 2 cells, 3 BP buffers | violated, finding 2 |
| `data_ul` | 2 slots, FIFO of 2, 2 frames a transfer, 4 frames | transfer record true, nothing waits without a reason, stopped queues are above the threshold; refines `UlService`; frames leave and queues wake, if the HIF makes the resumes it promised and does not for ever refuse one interface |
| `qos_classifier` | 2 PDNs, 2 dedicated bearers each, 2 filters a bearer and a message, 4 nodes, 2 addresses, `Beyond` empty | no crash, lists sound, no filter leaks, packets find their PDN and the bearer the filters name |
| `qos_release_order` | 1 PDN, 3 nodes, 1 filter a message, releases in any order | violated, finding 3 |
| `qos_default_delete` | same, deletion of default bearer filters | violated, finding 4 |
| `qos_mixed_replace` | same, 2 filters a message, replacements of known and unknown filters | violated, finding 5 |

Why the bounds are enough to be interesting: each ring wraps and fills; a page
goes from pool to partial to full and back with two classes competing for pages;
in `HifUl` memory and FIFO room run out separately (3 blocks against 2 usable
cells, and blocks still held by the BP) and in the middle of a call; in `HifDl`
more frames wait than one announcement takes, and the ACK FIFO can fill; in
`DataUl` one interface fills while the other is created, used and deleted; in
`QosAgent` nodes are inserted and taken out at the head, in the middle and at the
end of a list, addresses and ids are used again by another PDN while the old
table is free, and all tables, entries and nodes run out.
`hif_ul` and `hif_ul_lost_resume` allow deadlock: after the lost resume the
modelled system really stops. Symmetry is used only in safety runs, over nodes,
addresses, bearer ids or frames that the specification treats alike.

Fairness, stated as `Fairness` in each module that has a liveness property:
started code runs on, pending interrupts are taken, a started sDMA ends, and
scheduled tasklets and the timer run (weak). The BP is assumed to read its FIFOs
and to acknowledge. Strong fairness is used for: a buffer allocation that is
tried again and again (`HifDl`), and completions and steps of commands that other
handlers delay but cannot starve (`DataUl`). Nothing is assumed of the network
stack, of new commands, or of frames that the BP might send.

What the code does not guarantee is a condition of the property and no fairness.
`PacketsLeave` and `QueueWakes` hold for an interface if the HIF makes the
resume callbacks it has promised (`ResumesCome`) and if an interface whose frames
are offered again and again gets a transfer again and again (`Granted`).
The first fails after the lost resume of finding 1: TX_THROTTLE is cleared by the
resume callback only, the watchdog does not look at it, and frames and stopped
queues are then stranded; `ResumeComesMasked` says for which callers it holds. The
second is not ensured by the round robin, whose `running_index` moves on also when
`submit_ul` accepted nothing. Without either condition TLC finds both
properties violated. `DeliveredWithAckRoom` is conditional in the same way, on room
in the ACK FIFO.

## 4. Findings

1. `hif_ul_lost_resume`. `submit_ul` sets `b_ul_pause` after a failed allocation
   (`ipc_4ghif.c:1591`) with no lock. From the tasklets and the watchdog,
   interrupts are on: if the ACKs of all blocks are processed just before, no
   pause is found, no resume scheduled, and no ACK is left to come. The UL stays
   throttled, against the note at `ipc_4ghif.c:1522`. With interrupts off
   (`ResumeComesMasked` in `hif_ul`) the promise holds, so testing and setting under one lock is
   enough.
2. `hif_dl_stranded`. A frame that arrives while the ACK FIFO is full is not
   announced, and nothing looks again when the BP has read its ACKs, against
   `include/linux/ipc_4ghif.h:204`. It needs a BP with more outstanding frames
   than the ACK FIFO has cells; while the ACK FIFO
   has room (`DeliveredWithAckRoom` in `hif_dl`) every frame arrives.
3. `qos_release_order`. A released dedicated bearer is cleared and counted out,
   but the entries behind it are not moved (`lte_qos_agent.c:1849`). The last
   bearer is then outside the counted part of the array: its release finds
   nothing and its filters go on classifying packets to a bearer that is gone.
   Last-first releases are fine.
4. `qos_default_delete`. Deleting a filter of a default bearer, the memset at
   `lte_qos_agent.c:2110` goes through the slot of dedicated bearer 0: a null
   pointer, or another bearer's filter.
5. `qos_mixed_replace`. `Qa_Replace_Filters` first looks whether a replacement can be
   handled, "Before modifying the table" (`lte_qos_agent.c:2017`), but calls
   `Qa_Replace_SortTFT` whatever the answer. If the message names a filter of the
   bearer and one it does not have, nothing is taken out of the list and the known
   filter, still in it, is linked again: the list can become a cycle on which the
   classifier spins with interrupts off.

## 5. Proofs

`PtrFifoProofs` proves, for every set of pointers and every `MaxSize`, from
`PtrFifoAssumption` only:

- `TypeCorrect`: `Spec => []TypeOK`;
- `CountCorrect`: `Spec => []CountMatchesIndices`;
- `ImplementsBoundedFifo`: `Spec => RefinesBoundedFifo`.

The argument. Neither invariant is inductive alone: that `insert` keeps
`num_elements` below the ring size needs that the count is the distance of the
indices (the code tests only the indices for full), and that the distance stays
right needs the indices to be slots. `IInv` is their conjunction; `InitIInv` shows
that it holds initially and `StepIInv` that each call preserves it, one step per
call, with the wrap-around of an index in `WrapOnce`. For the
refinement the queue is the sequence of slots from `head + 1`, `num_elements`
long; each call is shown to be the abstract call of the same name: `insert`
appends, `remove` takes the head, the reading calls change nothing and answer
what the queue says (`InsertAppends`, `RemoveTakesHead`, `StepRefines`).

`HifUlProofs` proves, for every set of blocks, every FIFO size and batch, and for
callers with interrupts on or off, from `HifUlAssumption` only:

- `UlTypeCorrect`: `Spec => []TypeOK`;
- `RoomAlwaysReserved`: `Spec => []RoomReserved`, the sDMA interrupt never meets
  its "no space in FIFO" panic;
- `ThrottleAlwaysOnRecord`: `Spec => []ThrottleOnRecord`;
- `BusyOnlyWhileTransfer`: `Spec => []BusyWhileTransfer`, the data driver's
  TX_BUSY is the HIF's on-going flag, and both last exactly from the start of the
  sDMA to the `ul_complete` tasklet;
- `ImplementsUlService`: `Spec => RefinesUlService`, after each answer of
  `submit_ul` the HIF owes the callbacks the data driver waits for, no others, and
  makes only those.

The argument. `RoomReserved` speaks of a transfer under way, but its room was
tested while `submit_ul` was still reserving: `RoomForReserved` is the same bound
for the frames reserved so far, and `submit_ul_start` turns one into the other.
The room lasts because nobody else posts to the UL FIFO in the meantime: `Phases`
says that the on-going flag covers the whole time from the start of the sDMA to
the `ul_complete` tasklet, that `submit_ul` works only when it is clear, and that
the FIFO is empty until `IPC_4GHIF_ready` posts its one message. `PauseOnRecord`
carries a pause from the step that declares it to the answer of the call, since
the mailbox interrupt may turn it into a resume between the two. `IInv` is the
conjunction; each conjunct is used by another. `StepIInv` has one step per action,
and `AcksIInv` serves both places that process ACKs. `ThrottleOnRecord` is not the
promise of finding 1: a pause on record ends only when another ACK comes.
`BusyWhileTransfer` is inductive together with `IInv` (`StepBusy`). For the
refinement, what is owed is read off the HIF's flags and tasklets and what is
waited for off the driver's. A completion is owed while the on-going flag is set.
A resume is harder: the pause is declared inside the call, may be a scheduled
tasklet before the driver hears of it, and must not be counted twice.
`ResumeExact` says that a pause and a resume never exist together, that there is
neither until a call declares one, and that outside of a call there is one if and
only if the driver is throttled; `AcksOwe` shows that ACK processing changes
nothing that is owed, and `StepService` that every other step is a step of the
service or leaves it alone. The agreement says which callbacks are owed, not that
they come: that is `TransferCompletes` and `ResumeComesMasked`, and finding 1.

Two more theorems of this module follow the frames and the blocks themselves:

- `UlFramesInOrder`: `Spec => []InOrder`;
- `NoBlockLost`: `Spec => []BlocksConserved`.

Both speak of the way, the data messages in the UL FIFO followed by those in the
sDMA. `CnfFirst` says that the one message without a block, INIT_CNF, can only
be the first of the FIFO, and `NoneReserved` that a call leaves no reservation
behind when it returns. With them (`WayInv`) each action leaves the way alone,
appends the messages of one call (`WayStart`), or takes its first (`WayRead`),
and consecutive numbers stay consecutive (`NumberedConcat`, `NumberedTail`,
`RemainderOfSum` of `ModularProofs`). `BlocksConserved` counts, which induction
does not like; `BlocksApart` says the same without counting: the blocks of the way
and those reserved are pairwise different, none of them is with the BP or in the
ACK FIFO, and together they are the blocks held. `ApartConserved` then counts
once, through a bijection from positions to blocks (`DistinctCount`).

`SharedFifoProofs` proves, for every ring size, lookahead and set of messages,
from `SharedFifoAssumption` only:

- `FifoTypeCorrect`: `Spec => []TypeOK`;
- `ImplementsMsgQueue`: `Spec => RefinesMsgQueue`.

The argument. The queue is the cells from the published read index to the
published write index. Posting is two steps, and the reader may look between
them: `RoomWhilePosting` says that the room tested before the first is still
there (only the reader moves the other index, away from it),
`WrittenBeforePublished` that the cell is complete before the index moves,
`PostedAreMessages` that no cell between the indices is stale, and `SeenArePosted`
that what the reader copied ahead is still the beginning of the queue. Writing
a cell is a stutter, publishing the abstract post, looking ahead the abstract
look, and moving the read index the abstract take (`StepRefines`).

`BuddyMMProofs` proves, for any number of pages and sectors and any middle class
that divides a page, from `BuddyAssumption` only:

- `BuddyTypeCorrect`, `BitFieldsConsistent`, `NoSectorLost`, `BuddyNeverPanics`:
  `Spec => []` of `TypeOK`, `BitFieldsAgree`, `SectorsMatchHeld`, `NoPanic`;
- `ImplementsBlockStore`: `Spec => RefinesBlockStore`.

The argument. The allocator takes the first sector whose bit is clear and sets
the bits of a whole block from there: that is right only because blocks lie on
multiples of their size in pages of their own class (`BlocksPlaced`) and do not
overlap (`BlocksApart`). With both, a sector is free exactly if the block around it
is (`FreeSector`), so the first clear bit starts a free block, the panics cannot
happen, and a page is full or empty exactly when its sector word says so.
`AddBlock` and `DropBlock` carry the conjuncts that speak of blocks over an
allocation and a return, and each action adds what it does to the bit
fields. For the refinement, disjoint blocks of addresses are
disjoint sectors (`SpanFacts`), and a refusal means that each page is full or of
another class (`RefusalRefines`).

`HifDlProofs` proves, for FIFOs of every size, any number of frames announced at
once and any number of BP buffers, from `HifDlAssumption` only:

- `DlTypeCorrect`, `AcksAreCopied`, `SubmitNeverRefused`, `BusyAgrees`, `FramesInOrder`:
  `Spec => []` of `TypeOK`, `AcksCopiedFrames`, `SubmitDlAccepted`, `BusyIffTransfer`,
  `InOrder`.

The argument. Three handlers announce frames (mailbox interrupt, completion,
watchdog), two start transfers, and the message table is overwritten by each
announcement. What keeps them apart is `b_process_dl_msg_on_going`:
`TaskletsInTurn` says that nothing is scheduled while it is clear and which five
queues of tasklets ever exist, `TransferPhases` that a transfer lasts from
`submit_dl` to the `dl_complete` tasklet in both layers and that nobody who could
start another is past the test of RX_BUSY, `ReadyFirst` that none of it happens before
both sides are ready. `Announced` is the heart: until the transfer starts the
table is the beginning of the DL FIFO, it can be acknowledged, and whatever an
earlier announcement passed to a handler is a beginning of it, since
announcements only grow (`FrameInfoFacts`). `InitReqFirst` tells the BP's first
message from frames. `InOrder` follows as in the uplink, on the frames of the
sDMA and those still in the FIFO.

`DataUlProofs` proves, for any number of interfaces, any FIFO size and batch and any
set of frames, from `DataUlAssumption` only:

- `DataUlTypeCorrect`, `FramesStayAtHead`, `NoFrameStranded`, `NoQueueStuck`:
  `Spec => []` of `TypeOK`, `InFlightAtHead`, `WorkConserving`, `StoppedWillWake`;
- `DriverImplementsUlService`: `Spec => RefinesUlService`. With `ImplementsUlService`
  both sides of the interface are proved against the same agreement.

The argument. `InFlightAtHead` alone is not inductive: that the completion finds
the interface of the transfer needs to know what a running deletion has already
undone (`Registered`: the slot under deletion is created no more and its device is
the only one without a slot, and the count of interfaces is that of the devices).
`WorkConserving` needs that a frame queued before the HIF is ready is dropped
again in the same handler (`NothingBeforeReady`), otherwise it would wait for
nothing, and that TX_THROTTLE and the HIF's pause are one fact (`Throttled`), which
is also the refinement. What the completion removes from the FIFO is a loop over
the list of the transfer: `Removed` is a recursive function on it, and what it returns for a
list at the head of the FIFO (`RemovedFacts`) is proved by looking at the smallest
turn that would be wrong (`SmallestOf`), since the induction theorems of the
library are out of the provers' reach.

`QosAgentProofs` proves, for every number of PDNs, bearers, filters and nodes, from
`QosAgentAssumption` and the hypothesis `PdnsByTheRules` that the theorem states
(of the kinds in `Beyond`, no `no_address`, `register_again` or
`default_tft_delete`; the other three may be sent):

- `PacketFindsPdn`: `Spec => []AddressFindsPdn`, the first table that has a packet's
  source address is that of the PDN which has the address now.

The argument. The search does not look whether a table is in use, and a released
PDN leaves its address behind. `AddressesApart` is what saves it: no table in
front of a live one has its address. A PDN takes the first free table, so the
tables in front of it are live, with other addresses, which they keep when they
become free; and a free table in front gets an address only from a new PDN, whose
address no live PDN has. The last part needs that the network and the tables
agree on ids and addresses (`Agree`, for the bearers before and after the running
message) and `Shapes` the types of what the handlers write. `StepIInv` has one
step per action; `StepNewPdn` and `StepRelease` are the two that matter, and
`FirstOf` gives the minimum its meaning from the well-foundedness of the naturals.

It also proves, for every number of PDNs, bearers, filters and nodes,

- `TypesHold`, `NeverHalts`, `ListsInOrder`, `NodesRecorded`, `PacketsClassified`:
  `Spec => []` of `TypeOK`, `NoHalt`, `ListSound`, `NodesAccounted` and
  `ClassifiesAsInstalled`,

under two hypotheses that the theorems state:

- `Beyond = {}`: the network sends no message of the six kinds the code cannot
  take: bearers are released last first, no default bearer loses a filter or its
  whole TFT, a replacement names only filters of its bearer or none, and a
  registration has an address and comes while table 0 is free. The runs
  `qos_release_order`, `qos_default_delete` and `qos_mixed_replace` show that the
  hypothesis is needed, and so does TLC for the other three kinds (section 2); so
  the default bearer's branch of `Qa_Delete_Filter` is
  outside these proofs, and `qos_default_delete` says why.
- `PfidsFit`: filter identifiers are in `1 .. MAX_FILTERS_PER_TFT`. The code takes four
  bits of a filter for its identifier (`lte_qos_agent.c:2162`) and a TFT has 16 slots
  (`lte_host_qos.h:23`). Without it `Qa_Add_SortTFT` can run out of slots after
  it has linked the filter (hazard at line 2771).

The argument. A list is known by the set of its nodes, the order being that of
the precedences: `Linked` says that the pointers of both directions join each node to
the next and the previous one in that order. From there `InsertFacts` and
`UnlinkFacts` give what an insertion or a removal at the head, in the middle or at the
end does to the set, and `WalkOrder` what a walk through the list meets; no proof
about a handler looks at pointers again. The inductive invariant `LInv` joins, for
every state in the middle of a message too:

- `NetSound`: the bearers of the network, before and after the running message,
  have unique identifiers and, within a PDN, unique precedences;
- `EntriesKnown` and `EntriesSound`: each live table has an entry for each bearer, and
  the nodes an entry records carry the filters that the network's two views allow
  (`May`), and all of those they demand (`Must`);
- `ListsSound`: the list of a table is linked and holds the recorded nodes, less
  the ones the running message has taken out and not yet put back (`Leaving`);
- `CmdSound`: what the message in progress has still to do leads from one view to the
  other.

`StepLInv` has one lemma per message and per section of a handler. Each changes one
entry and one list by a node or a batch of nodes; the `Turn` lemmas say once what such
a change keeps. The two loops of a replacement are recursive functions of the
turn; `OverwrittenFacts` and `ResortedFacts` prove what they leave behind from one
turn (`OverwriteTurn`, `ResortTurn`) by looking at the smallest turn that would be
wrong. `NeverHalts` needs all of it: `Qa_Bearer_Delete` follows the successor of the
head without a test, which is safe because the default bearer always has a
filter in the list. For the classifier, a filter that decides in the network's
view both before and after the message is one that the message leaves alone, so
it is recorded and listed all the time (`StaysMust`, `StaysListed`); in a list
in the order of precedence it is the first node that matches (`Classified`).
TLC checked `LInv` on all 247026 states of the instance of the run `qos_classifier` before the
proof was begun.

Only model-checked: the liveness properties (fairness is beyond the proof system). Every
invariant and every refinement of the passing runs is proved.

## 6. Plan

Done, in this order: the FIFO and its proof, the memory manager, the shared rings,
HIF UL and its proofs, HIF DL with the data driver, data driver UL with the net
driver, the QoS agent with its first proof, the agreement `UlService` between the
data driver and the HIF; then the proofs of the shared rings, the memory manager,
HIF DL, data driver UL, order and blocks of HIF UL, and the QoS agent's lists and
classification.

Next, modelling:
1. the QoS agent's device: responses, readers and their wait queue (nobody wakes
   `txq`, `lte_qos_agent.c:3044`), and bridge mode with the MAC map;
2. `rx_complete`, suspend and resume of the net driver;
3. profile log ring and command parser as operators against reference definitions.

Next, proofs: what the modelling above adds, and theorems on the lists of `QosAgent`
for the kinds of `Beyond` that touch only tables or only lists.

## 7. Not modelled

- The basic memory manager (compiled out), the non-sDMA data driver (not built),
  stubs and tests.
- The older IPC interfaces (`ipc_api.c`, `ipc_data.c`, `ipc_dma.c`, ...): the data
  path does not use them.
- Logging, statistics and `/proc` output: no protocol state. The statistics of
  the memory manager miss pages 16 to 31 (`ipc_4ghif_mm.c:817`). `AMP_LOG_Print` is
  compiled out (`AMP_LOG_ENABLE_LOG_PRINT` is defined nowhere); built with it, the
  message at `lte_qos_agent.c:2431` would read through a slot of dedicated
  bearer 0 when a filter of a default bearer is replaced.
- The cancel branches of the watchdog: `cancel_ul` and `cancel_dl` panic whenever
  the transfer is really under way, and `BusyWhileTransfer` and `BusyIffTransfer`
  show that a busy flag never survives its transfer, so the code after them is
  not reached.
- `IPC_4GHIF_close` and module removal: the drivers are built in.
- The RX throttle of the data driver: no code sets its flag.
- In the QoS agent: parsing of messages and packets, the QoS fields, responses and
  the reading side of the device, lookup of a PDN by MAC address (bridge mode).
- SMP: the modem has one CPU; `dev_tx` would take its own lock twice on an SMP
  build when `submit_ul` refuses before the BP is ready.
