----------------------------- MODULE HifDlProofs -----------------------------
(***************************************************************************)
(* Proofs about the downlink, for FIFOs of every size, any number of       *)
(* frames announced at once and any number of buffers of the BP.           *)
(***************************************************************************)
EXTENDS HifDl, ModularProofs, SequenceTheorems, FiniteSetTheorems, TLAPS

(* s is the beginning of t.                                                *)
Begins(s, t) == Len(s) <= Len(t) /\ \A i \in 1 .. Len(s) : s[i] = t[i]

Processing == "b_process_dl_msg_on_going" \in hif
Transfer == "b_sdma_dl_transfer_on_going" \in hif
Receiving == tasklets \in {<<"receive_dl">>, <<"receive_dl", "dl_complete">>}
Completing == tasklets \in {<<"dl_complete">>, <<"receive_dl", "dl_complete">>}

(* b_process_dl_msg_on_going keeps the tasklets few: nothing is scheduled  *)
(* while it is clear, and receive_dl is never behind a dl_complete.        *)
TaskletsInTurn ==
  /\ tasklets \in {<< >>, <<"bp_ready">>, <<"receive_dl">>, <<"dl_complete">>,
                   <<"receive_dl", "dl_complete">>}
  /\ ~Processing => tasklets = << >> /\ pc \in {"idle", "process"} /\ ~Transfer
  /\ pc = "release" => tasklets = << >>
  /\ pc = "process" => tasklets \in {<< >>, <<"receive_dl">>}

(* Nothing happens to frames before both sides are ready.                  *)
ReadyFirst ==
  /\ "b_ap_ready" \in hif =>
       "b_bp_ready" \in hif /\ tasklets # <<"bp_ready">>
  /\ "b_ap_ready" \notin hif =>
       /\ dd = {} /\ pc = "idle" /\ ~Transfer /\ table = << >>
       /\ tasklets \in {<< >>, <<"bp_ready">>}
       /\ "b_bp_ready" \in hif <=> tasklets = <<"bp_ready">>

(* A transfer lasts from submit_dl to the dl_complete tasklet, on both     *)
(* sides of the interface, and no handler that could start another is      *)
(* past the test of RX_BUSY.                                               *)
TransferPhases ==
  /\ Transfer <=> channel = "running" \/ Completing
  /\ channel = "running" => ~Completing
  /\ Transfer <=> dma # << >>
  /\ Transfer => pc \in {"idle", "sdma_rx"} /\ rx_xfer = dma
  /\ pc = "submit_dl" => ~Transfer /\ "RX_BUSY" \in dd
  /\ BusyIffTransfer

(* What is announced and not yet transferred is the beginning of the DL    *)
(* FIFO and can be acknowledged; the frames a handler works on are         *)
(* announced, whoever announced them last.                                 *)
Announced ==
  /\ Len(ack_ul) < FIFO_ACK_UL_MSG_NB
  /\ Receiving => notified # << >>
  /\ Processing /\ ~Transfer /\ pc # "release" =>
       /\ Begins(table, fifo_dl)
       /\ Len(table) <= fifo_ack_4ghif_ul_space_left
       /\ Receiving => Begins(notified, table)
       /\ pc = "sdma_rx" => rx_pi # << >> /\ Begins(rx_pi, table)
       /\ pc = "submit_dl" => rx_xfer # << >> /\ Begins(rx_xfer, table)
  /\ channel = "running" =>
       Begins(dma, table) /\ Len(dma) <= fifo_ack_4ghif_ul_space_left

(* INIT_REQ is the first message and is read before any frame.             *)
InitReqFirst ==
  /\ \A i \in 2 .. Len(fifo_dl) : fifo_dl[i] \in Frames
  /\ fifo_dl # << >> => (fifo_dl[1] = INIT_REQ <=> "b_bp_ready" \notin hif)
  /\ posted = INIT_REQ =>
       fifo_dl = << >> /\ "b_bp_ready" \notin hif /\ expected = 0
  /\ posted # INIT_REQ /\ fifo_dl = << >> => "b_bp_ready" \in hif

(* The inductive invariant.                                                *)
IInv ==
  /\ TypeOK
  /\ TaskletsInTurn
  /\ ReadyFirst
  /\ TransferPhases
  /\ Announced
  /\ InitReqFirst

----------------------------------------------------------------------------
(* The lengths of FirstOf and AllAfter and what they contain.              *)
LEMMA FirstOfFacts ==
  ASSUME NEW S, NEW s \in Seq(S), NEW n \in 0 .. Len(s)
  PROVE  /\ FirstOf(s, n) \in Seq(S) /\ Len(FirstOf(s, n)) = n
         /\ \A i \in 1 .. n : FirstOf(s, n)[i] = s[i]
         /\ Begins(FirstOf(s, n), s)
         /\ FirstOf(s, n) = << >> <=> n = 0
<1>1. /\ FirstOf(s, n) \in Seq(S) /\ Len(FirstOf(s, n)) = n
      /\ \A i \in 1 .. n : FirstOf(s, n)[i] = s[i]
      BY SubSeqProperties, LenProperties DEF FirstOf
<1>2. Len(s) \in Nat
      BY LenProperties
<1> QED BY <1>1, <1>2, EmptySeq DEF Begins

LEMMA AllAfterFacts ==
  ASSUME NEW S, NEW s \in Seq(S), NEW n \in 0 .. Len(s)
  PROVE  /\ AllAfter(s, n) \in Seq(S) /\ Len(AllAfter(s, n)) = Len(s) - n
         /\ \A i \in 1 .. (Len(s) - n) : AllAfter(s, n)[i] = s[i + n]
<1>1. Len(s) \in Nat
      BY LenProperties
<1> QED BY <1>1, SubSeqProperties DEF AllAfter

LEMMA BeginsTransitive ==
  ASSUME NEW R, NEW S, NEW T, NEW r \in Seq(R), NEW s \in Seq(S), NEW t \in Seq(T),
         Begins(r, s), Begins(s, t)
  PROVE  Begins(r, t)
<1>1. Len(r) \in Nat /\ Len(s) \in Nat /\ Len(t) \in Nat
      BY LenProperties
<1> QED BY <1>1 DEF Begins

LEMMA BeginsAppend ==
  ASSUME NEW S, NEW T, NEW s \in Seq(S), NEW t \in Seq(T), NEW x \in T, Begins(s, t)
  PROVE  Begins(s, Append(t, x))
<1>1. Len(s) \in Nat /\ Len(t) \in Nat
      BY LenProperties
<1>2. Len(Append(t, x)) = Len(t) + 1 /\ \A i \in 1 .. Len(t) : Append(t, x)[i] = t[i]
      BY AppendProperties
<1> QED BY <1>1, <1>2 DEF Begins

(* Two beginnings of one sequence: the shorter begins the longer.          *)
LEMMA BeginsShorter ==
  ASSUME NEW R, NEW S, NEW T, NEW r \in Seq(R), NEW s \in Seq(S), NEW t \in Seq(T),
         Begins(r, t), Begins(s, t), Len(r) <= Len(s)
  PROVE  Begins(r, s)
<1>1. Len(r) \in Nat /\ Len(s) \in Nat /\ Len(t) \in Nat
      BY LenProperties
<1> QED BY <1>1 DEF Begins

(* The data driver takes at least one of the frames announced, the oldest. *)
LEMMA TakenFacts ==
  ASSUME NEW s \in Seq(Frames), s # << >>, NEW t \in Taken(s)
  PROVE  t \in Seq(Frames) /\ t # << >> /\ Begins(t, s)
<1>1. Len(s) \in Nat /\ Len(s) # 0
      BY EmptySeq, LenProperties
<1>2. 1 \in 0 .. Len(s)
      BY <1>1
<1>3. /\ FirstOf(s, 1) \in Seq(Frames) /\ FirstOf(s, 1) # << >>
      /\ Begins(FirstOf(s, 1), s)
      BY <1>2, FirstOfFacts
<1>4. Begins(s, s)
      BY <1>1 DEF Begins
<1> QED BY <1>3, <1>4 DEF Taken

(* What tasklet_schedule does to the few queues that occur.                *)
LEMMA ScheduleFacts ==
  ASSUME TaskletsInTurn
  PROVE  /\ tasklets = << >> => \A t : Schedule(t) = <<t>>
         /\ tasklets = <<"receive_dl">> =>
              Schedule("dl_complete") = <<"receive_dl", "dl_complete">>
<1>1. Range(<< >>) = {} /\ Range(<<"receive_dl">>) = {"receive_dl"}
      BY DEF Range
<1>2. \A t : Append(<< >>, t) = <<t>>
      OBVIOUS
<1>3. Append(<<"receive_dl">>, "dl_complete") = <<"receive_dl", "dl_complete">>
  <2> DEFINE one == <<"receive_dl">>
             S == {"receive_dl", "dl_complete"}
  <2>1. one \in Seq(S) /\ Len(one) = 1 /\ one[1] = "receive_dl"
        OBVIOUS
  <2>2. /\ Append(one, "dl_complete") \in Seq(S)
        /\ Len(Append(one, "dl_complete")) = 2
        /\ Append(one, "dl_complete")[1] = "receive_dl"
        /\ Append(one, "dl_complete")[2] = "dl_complete"
        BY <2>1, AppendProperties
  <2> DEFINE two == <<"receive_dl", "dl_complete">>
             app == Append(one, "dl_complete")
  <2>3. /\ two \in Seq(S) /\ Len(two) = 2
        /\ two[1] = "receive_dl" /\ two[2] = "dl_complete"
        OBVIOUS
  <2> HIDE DEF one, S, two, app
  <2>4. app \in Seq(S) /\ Len(app) = Len(two) /\ \A i \in 1 .. Len(app) : app[i] = two[i]
        BY <2>2, <2>3 DEF app
  <2>5. app = two
        BY <2>3, <2>4, SeqEqual
  <2> QED BY <2>5 DEF one, two, app
<1>4. /\ tasklets = << >> => \A t : Schedule(t) = <<t>>
      /\ tasklets = <<"receive_dl">> =>
           Schedule("dl_complete") = <<"receive_dl", "dl_complete">>
  <2>1. "dl_complete" \notin {"receive_dl"}
        OBVIOUS
  <2> QED BY <1>1, <1>2, <1>3, <2>1, Zenon DEF Schedule
<1> QED BY <1>4

(* The queues that occur are different.                                    *)
LEMMA QueuesDiffer ==
  /\ << >> # <<"bp_ready">> /\ << >> # <<"receive_dl">>
  /\ << >> # <<"dl_complete">> /\ << >> # <<"receive_dl", "dl_complete">>
  /\ <<"bp_ready">> # <<"receive_dl">> /\ <<"bp_ready">> # <<"dl_complete">>
  /\ <<"bp_ready">> # <<"receive_dl", "dl_complete">>
  /\ <<"receive_dl">> # <<"dl_complete">>
  /\ <<"receive_dl">> # <<"receive_dl", "dl_complete">>
  /\ <<"dl_complete">> # <<"receive_dl", "dl_complete">>
OBVIOUS

LEMMA QueuesTyped ==
  \A q \in {<< >>, <<"bp_ready">>, <<"receive_dl">>, <<"dl_complete">>,
            <<"receive_dl", "dl_complete">>} :
    q \in Seq({"bp_ready", "receive_dl", "dl_complete"})
<1> DEFINE S == {"bp_ready", "receive_dl", "dl_complete"}
<1>1. << >> \in Seq(S)
      OBVIOUS
<1>2. <<"bp_ready">> \in Seq(S)
      OBVIOUS
<1>3. <<"receive_dl">> \in Seq(S)
      OBVIOUS
<1>4. <<"dl_complete">> \in Seq(S)
      OBVIOUS
<1>5. <<"receive_dl", "dl_complete">> \in Seq(S)
      OBVIOUS
<1> QED BY <1>1, <1>2, <1>3, <1>4, <1>5, Zenon

(* The oldest frames that can be announced: they begin the FIFO, can be    *)
(* acknowledged, and reach as far as an earlier announcement did.          *)
LEMMA FrameInfoFacts ==
  ASSUME IInv, "b_bp_ready" \in hif
  PROVE  LET info == fifo_4ghif_get_frame_info
         IN  /\ info \in Seq(Frames) /\ Len(info) <= MAX_NB_DL_FRAMES
             /\ Begins(info, fifo_dl)
             /\ Len(info) <= fifo_ack_4ghif_ul_space_left
             /\ Begins(table, fifo_dl) /\ Len(table) <= fifo_ack_4ghif_ul_space_left
                  => Begins(table, info)
<1> DEFINE room == fifo_ack_4ghif_ul_space_left
           n == Lesser(Len(fifo_dl), Lesser(MAX_NB_DL_FRAMES, room))
           info == FirstOf(fifo_dl, n)
<1>1. /\ fifo_dl \in Seq(Frames \cup {INIT_REQ}) /\ Len(fifo_dl) \in Nat
      /\ table \in Seq(Frames) /\ Len(table) \in Nat /\ Len(table) <= MAX_NB_DL_FRAMES
      BY DEF IInv, TypeOK
<1>2. room \in Nat /\ MAX_NB_DL_FRAMES \in Nat
  <2>1. Len(ack_ul) \in Nat /\ Len(ack_ul) < FIFO_ACK_UL_MSG_NB
        BY DEF IInv, TypeOK, Announced
  <2> QED BY <2>1, HifDlAssumption DEF fifo_ack_4ghif_ul_space_left
<1>3. /\ n \in 0 .. Len(fifo_dl) /\ n <= MAX_NB_DL_FRAMES /\ n <= room
      /\ n = Len(fifo_dl) \/ n = MAX_NB_DL_FRAMES \/ n = room
  <2> HIDE DEF room
  <2> QED BY <1>1, <1>2 DEF Lesser
<1> HIDE DEF n, room
<1>4. /\ info \in Seq(Frames \cup {INIT_REQ}) /\ Len(info) = n /\ Begins(info, fifo_dl)
      /\ \A i \in 1 .. n : info[i] = fifo_dl[i]
      BY <1>1, <1>3, FirstOfFacts
<1>5. \A i \in 1 .. Len(fifo_dl) : fifo_dl[i] \in Frames
      BY <1>1, EmptySeq DEF IInv, InitReqFirst, TypeOK
<1>6. info \in Seq(Frames)
  <2>1. info \in [1 .. n -> Frames \cup {INIT_REQ}]
        BY <1>4, LenProperties
  <2>2. info \in [1 .. n -> Frames]
        BY <1>3, <1>4, <1>5, <2>1
  <2> QED BY <1>3, <2>2, IsASeq
<1>7. ASSUME Begins(table, fifo_dl), Len(table) <= room
      PROVE  Begins(table, info)
  <2>1. Len(table) <= n
        BY <1>1, <1>2, <1>3, <1>7 DEF Begins
  <2> QED BY <1>1, <1>4, <1>7, <2>1, BeginsShorter
<1>8. fifo_4ghif_get_frame_info = info
      BY DEF fifo_4ghif_get_frame_info, n, room
<1> QED BY <1>3, <1>4, <1>6, <1>7, <1>8 DEF room

----------------------------------------------------------------------------
LEMMA InitIInv == Init => IInv
<1> SUFFICES ASSUME Init PROVE IInv
    OBVIOUS
<1>1. TypeOK
      BY HifDlAssumption DEF Init, TypeOK, Frames, INIT_REQ
<1>2. TaskletsInTurn /\ ReadyFirst
      BY QueuesDiffer DEF Init, TaskletsInTurn, ReadyFirst, Processing, Transfer
<1>3. TransferPhases
      BY QueuesDiffer DEF Init, TransferPhases, BusyIffTransfer, Transfer, Completing
<1>4. Announced /\ InitReqFirst
      BY HifDlAssumption, QueuesDiffer
         DEF Init, Announced, Processing, Receiving, InitReqFirst
<1> QED BY <1>1, <1>2, <1>3, <1>4 DEF IInv

(* Processing of messages, by the mailbox ISR between any two steps of a   *)
(* handler or by the handler that ends a transfer.                         *)
LEMMA ProcessStep ==
  ASSUME IInv, fifo_4ghif_process_dl_msg,
         UNCHANGED <<dma, channel, ack_ul, rx_pi, rx_xfer, dd, expected, posted>>,
         mbox' \in {"irq", "none"},
         pc' = pc \/ (pc = "process" /\ pc' = "idle")
  PROVE  IInv'
<1> USE QueuesDiffer
<1>1. CASE UNCHANGED <<hif, fifo_dl, table, notified, tasklets>>
  <2>1. TypeOK' /\ TaskletsInTurn' /\ ReadyFirst'
        BY <1>1 DEF IInv, TypeOK, TaskletsInTurn, ReadyFirst, Processing, Transfer
  <2>2. TransferPhases' /\ InitReqFirst'
        BY <1>1 DEF IInv, TransferPhases, BusyIffTransfer, Transfer, Completing,
           InitReqFirst
  <2>3. Announced'
        BY <1>1 DEF IInv, Announced, Processing, Transfer, Receiving, Begins,
           fifo_ack_4ghif_ul_space_left
  <2> QED BY <2>1, <2>2, <2>3 DEF IInv
<1>2. CASE /\ MayProcess /\ "b_bp_ready" \notin hif /\ fifo_dl # << >>
           /\ fifo_dl' = Tail(fifo_dl)
           /\ hif' = hif \cup {"b_bp_ready", "b_process_dl_msg_on_going"}
           /\ tasklets' = Schedule("bp_ready")
           /\ UNCHANGED <<table, notified>>
  <2>1. /\ tasklets = << >> /\ tasklets' = <<"bp_ready">> /\ "b_ap_ready" \notin hif
        /\ pc = "idle" /\ pc' = "idle" /\ dd = {} /\ ~Transfer /\ table = << >>
        BY <1>2, ScheduleFacts DEF IInv, TaskletsInTurn, ReadyFirst, Processing,
           MayProcess
  <2>2. /\ Tail(fifo_dl) \in Seq(Frames \cup {INIT_REQ})
        /\ Len(fifo_dl) \in Nat /\ Len(Tail(fifo_dl)) = Len(fifo_dl) - 1
        /\ \A i \in 1 .. Len(Tail(fifo_dl)) : Tail(fifo_dl)[i] = fifo_dl[i + 1]
        BY <1>2, HeadTailProperties, LenProperties DEF IInv, TypeOK
  <2>3. TypeOK'
    <3>1. tasklets' \in Seq({"bp_ready", "receive_dl", "dl_complete"})
          BY <2>1, QueuesTyped
    <3>2. Len(fifo_dl') < FIFO_DL_MSG_NB
          BY <1>2, <2>2, HifDlAssumption DEF IInv, TypeOK
    <3> QED BY <1>2, <2>1, <2>2, <3>1, <3>2 DEF IInv, TypeOK
  <2>4. TaskletsInTurn' /\ ReadyFirst' /\ TransferPhases'
        BY <1>2, <2>1 DEF IInv, TaskletsInTurn, ReadyFirst, TransferPhases,
           BusyIffTransfer, Processing, Transfer, Completing
  <2>5. \A i \in 1 .. Len(fifo_dl') : fifo_dl'[i] \in Frames
    <3>1. ASSUME NEW i \in 1 .. Len(fifo_dl')
          PROVE  fifo_dl'[i] = fifo_dl[i + 1] /\ i + 1 \in 2 .. Len(fifo_dl)
          BY <1>2, <2>2
    <3> QED BY <3>1 DEF IInv, InitReqFirst
  <2>6. InitReqFirst'
    <3>1. posted' # INIT_REQ /\ INIT_REQ \notin Frames
          BY <1>2 DEF IInv, InitReqFirst, Frames, INIT_REQ
    <3>2. fifo_dl' # << >> => fifo_dl'[1] \in Frames
      <4>1. fifo_dl' # << >> => Len(fifo_dl') # 0
            BY <1>2, <2>2, EmptySeq
      <4> QED BY <1>2, <2>2, <2>5, <4>1
    <3>3. \A i \in 2 .. Len(fifo_dl') : fifo_dl'[i] \in Frames
          BY <1>2, <2>2, <2>5
    <3> QED BY <1>2, <3>1, <3>2, <3>3 DEF InitReqFirst
  <2>7. Announced'
    <3>1. Begins(<< >>, fifo_dl')
          BY <1>2, <2>2, LenProperties DEF Begins
    <3>2. channel # "running" /\ Len(ack_ul) \in Nat
          BY <2>1 DEF IInv, TransferPhases, TypeOK
    <3> QED BY <1>2, <2>1, <3>1, <3>2, HifDlAssumption
               DEF IInv, Announced, Receiving, fifo_ack_4ghif_ul_space_left
  <2> QED BY <2>3, <2>4, <2>6, <2>7 DEF IInv
<1>3. CASE /\ MayProcess /\ "b_bp_ready" \in hif
           /\ table' = fifo_4ghif_get_frame_info
           /\ \/ table' = << >> /\ UNCHANGED <<hif, notified, tasklets>>
              \/ /\ table' # << >>
                 /\ notified' = table'
                 /\ hif' = hif \cup {"b_process_dl_msg_on_going"}
                 /\ tasklets' = Schedule("receive_dl")
           /\ UNCHANGED fifo_dl
  <2>1. /\ tasklets = << >> /\ ~Processing /\ ~Transfer /\ "b_ap_ready" \in hif
        /\ pc \in {"idle", "process"} /\ channel # "running"
        BY <1>3 DEF IInv, TaskletsInTurn, ReadyFirst, TransferPhases, Processing,
           MayProcess
  <2>2. /\ table' \in Seq(Frames) /\ Len(table') <= MAX_NB_DL_FRAMES
        /\ Begins(table', fifo_dl) /\ Len(table') <= fifo_ack_4ghif_ul_space_left
        BY <1>3, FrameInfoFacts
  <2>3. InitReqFirst'
        BY <1>3 DEF IInv, InitReqFirst
  <2>4. CASE UNCHANGED <<hif, notified, tasklets>>
    <3>1. TypeOK' /\ TaskletsInTurn' /\ ReadyFirst'
          BY <1>3, <2>1, <2>2, <2>4 DEF IInv, TypeOK, TaskletsInTurn, ReadyFirst,
             Processing, Transfer
    <3>2. TransferPhases' /\ Announced'
          BY <1>3, <2>1, <2>4 DEF IInv, TransferPhases, Announced, BusyIffTransfer,
             Transfer, Completing, Processing, Receiving
    <3> QED BY <2>3, <3>1, <3>2 DEF IInv
  <2>5. CASE /\ table' # << >> /\ notified' = table'
             /\ hif' = hif \cup {"b_process_dl_msg_on_going"}
             /\ tasklets' = Schedule("receive_dl")
    <3>1. tasklets' = <<"receive_dl">>
          BY <2>1, <2>5, ScheduleFacts DEF IInv
    <3>2. TypeOK'
      <4>1. tasklets' \in Seq({"bp_ready", "receive_dl", "dl_complete"})
            BY <3>1, QueuesTyped
      <4> QED BY <1>3, <2>2, <2>5, <4>1 DEF IInv, TypeOK
    <3>3. TaskletsInTurn' /\ ReadyFirst' /\ TransferPhases'
          BY <2>1, <2>5, <3>1 DEF IInv, TaskletsInTurn, ReadyFirst, TransferPhases,
             BusyIffTransfer, Processing, Transfer, Completing
    <3>4. Begins(table', table')
          BY <2>2, LenProperties DEF Begins
    <3>5. Announced'
      <4>1. pc' \in {"idle", "process"} /\ channel' # "running"
            BY <2>1
      <4>2. fifo_ack_4ghif_ul_space_left' = fifo_ack_4ghif_ul_space_left
            BY DEF fifo_ack_4ghif_ul_space_left
      <4> QED BY <1>3, <2>1, <2>2, <2>5, <3>4, <4>1, <4>2 DEF IInv, Announced
    <3> QED BY <2>3, <3>2, <3>3, <3>5 DEF IInv
  <2> QED BY <1>3, <2>4, <2>5
<1> QED BY <1>1, <1>2, <1>3 DEF fifo_4ghif_process_dl_msg

(* The queues before and after a tasklet runs.                             *)
LEMMA RunsFacts ==
  ASSUME TaskletsInTurn
  PROVE  /\ Runs("bp_ready") => tasklets = <<"bp_ready">> /\ tasklets' = << >>
         /\ Runs("dl_complete") => tasklets = <<"dl_complete">> /\ tasklets' = << >>
         /\ Runs("receive_dl") =>
              \/ tasklets = <<"receive_dl">> /\ tasklets' = << >>
              \/ /\ tasklets = <<"receive_dl", "dl_complete">>
                 /\ tasklets' = <<"dl_complete">>
<1>1. /\ Head(<<"bp_ready">>) = "bp_ready" /\ Tail(<<"bp_ready">>) = << >>
      /\ Head(<<"receive_dl">>) = "receive_dl" /\ Tail(<<"receive_dl">>) = << >>
      /\ Head(<<"dl_complete">>) = "dl_complete" /\ Tail(<<"dl_complete">>) = << >>
      OBVIOUS
<1>2. /\ Head(<<"receive_dl", "dl_complete">>) = "receive_dl"
      /\ Tail(<<"receive_dl", "dl_complete">>) = <<"dl_complete">>
      OBVIOUS
<1>3. "bp_ready" # "receive_dl" /\ "bp_ready" # "dl_complete" /\ "receive_dl" # "dl_complete"
      OBVIOUS
<1> QED BY <1>1, <1>2, <1>3, Zenon DEF TaskletsInTurn, Runs

(* The sDMA ISR acknowledges what it has copied.                           *)
LEMMA SdmaStep ==
  ASSUME IInv, sdma_4ghif_dl_callback
  PROVE  IInv'
<1> USE QueuesDiffer
<1>1. /\ Transfer /\ ~Completing /\ Processing /\ "b_ap_ready" \in hif
      /\ tasklets \in {<< >>, <<"receive_dl">>}
      /\ channel' = "idle" /\ tasklets' = Schedule("dl_complete")
      /\ UNCHANGED <<hif, fifo_dl, table, notified, dma, mbox, pc, rx_pi, rx_xfer,
                     dd, expected, posted>>
      BY DEF sdma_4ghif_dl_callback, ddrv, IInv, TransferPhases, ReadyFirst,
         TaskletsInTurn, Completing
<1>2. \/ tasklets = << >> /\ tasklets' = <<"dl_complete">>
      \/ tasklets = <<"receive_dl">> /\ tasklets' = <<"receive_dl", "dl_complete">>
      BY <1>1, ScheduleFacts DEF IInv
<1>3. /\ Len(dma) \in 0 .. Len(table) /\ dma # << >>
      /\ table \in Seq(Frames) /\ Len(table) \in Nat
      /\ Len(dma) <= fifo_ack_4ghif_ul_space_left
      BY <1>1, LenProperties
         DEF sdma_4ghif_dl_callback, IInv, Announced, TypeOK, Begins, TransferPhases
<1>4. /\ ack_ul' \in Seq(Frames) /\ Len(ack_ul') = Len(ack_ul) + Len(dma)
      /\ Len(ack_ul) \in Nat
  <2> DEFINE acks == FirstOf(table, Len(dma))
  <2>1. acks \in Seq(Frames) /\ Len(acks) = Len(dma)
        BY <1>3, FirstOfFacts
  <2>2. ack_ul \in Seq(Frames) /\ ack_ul' = ack_ul \o acks
        BY DEF sdma_4ghif_dl_callback, IInv, TypeOK
  <2> HIDE DEF acks
  <2>3. ack_ul \o acks \in Seq(Frames) /\ Len(ack_ul \o acks) = Len(ack_ul) + Len(acks)
        BY <2>1, <2>2, ConcatProperties
  <2>4. Len(ack_ul) \in Nat
        BY <2>2, LenProperties
  <2> QED BY <2>1, <2>2, <2>3, <2>4
<1>5. TypeOK'
  <2>1. tasklets' \in Seq({"bp_ready", "receive_dl", "dl_complete"})
        BY <1>2, QueuesTyped
  <2> QED BY <1>1, <1>4, <2>1 DEF IInv, TypeOK
<1>6. TaskletsInTurn' /\ ReadyFirst'
      BY <1>1, <1>2 DEF IInv, TaskletsInTurn, ReadyFirst, Processing, Transfer,
         TransferPhases
<1>7. TransferPhases' /\ InitReqFirst'
      BY <1>1, <1>2 DEF IInv, TransferPhases, BusyIffTransfer, Transfer, Completing,
         InitReqFirst
<1>8. Announced'
  <2>1. Len(ack_ul') < FIFO_ACK_UL_MSG_NB
        BY <1>3, <1>4, HifDlAssumption DEF fifo_ack_4ghif_ul_space_left
  <2>2. Receiving' => notified' # << >>
        BY <1>1, <1>2 DEF IInv, Announced, Receiving
  <2> QED BY <1>1, <2>1, <2>2 DEF Announced, Transfer
<1> QED BY <1>5, <1>6, <1>7, <1>8 DEF IInv

(* The completion finds its transfer, and the data driver its RX_BUSY.     *)
LEMMA CompleteStep ==
  ASSUME IInv, dl_complete_tasklet_function
  PROVE  /\ IInv'
         /\ expected' = Nth(expected + Len(dma)) /\ dma' = << >> /\ dma \in Seq(Frames)
         /\ UNCHANGED <<fifo_dl, posted>>
<1> USE QueuesDiffer
<1>1. /\ tasklets = <<"dl_complete">> /\ tasklets' = << >> /\ pc = "idle"
      /\ pc' = "release" /\ dma' = << >> /\ hif' = hif \ {"b_sdma_dl_transfer_on_going"}
      /\ UNCHANGED <<fifo_dl, table, notified, channel, ack_ul, mbox, rx_pi, posted>>
      BY RunsFacts DEF dl_complete_tasklet_function, Runs, IInv
<1>2. /\ Completing /\ Transfer /\ Processing /\ channel # "running"
      /\ "RX_BUSY" \in dd /\ rx_xfer = dma /\ "b_ap_ready" \in hif
      BY <1>1 DEF Completing, IInv, TransferPhases, BusyIffTransfer, TaskletsInTurn,
         ReadyFirst, Transfer
<1>3. /\ expected' = Nth(expected + Cardinality(Delivered)) /\ rx_xfer' = << >>
      /\ dd' = dd \ {"RX_BUSY"}
      BY <1>2 DEF dl_complete_tasklet_function, lte_dd_4ghif_dl_complete_cb,
         NoLongerBusy
<1>4. Len(dma) \in Nat /\ Cardinality(Delivered) = Len(dma)
  <2>1. Len(dma) \in Nat
        BY DEF IInv, TypeOK
  <2>2. Delivered = 1 .. Len(dma)
        BY <1>2, <2>1 DEF Delivered
  <2>3. Cardinality(1 .. Len(dma)) = Len(dma)
    <3>1. Cardinality(1 .. Len(dma)) = IF 1 > Len(dma) THEN 0 ELSE Len(dma) - 1 + 1
          BY <2>1, FS_Interval
    <3> QED BY <2>1, <3>1
  <2> QED BY <2>1, <2>2, <2>3
<1>5. expected' = Nth(expected + Len(dma)) /\ expected' \in Frames
      BY <1>3, <1>4, HifDlAssumption DEF Nth, Frames, IInv, TypeOK
<1>6. TypeOK'
  <2>1. tasklets' \in Seq({"bp_ready", "receive_dl", "dl_complete"})
        BY <1>1, QueuesTyped
  <2> QED BY <1>1, <1>3, <1>5, <2>1 DEF IInv, TypeOK
<1>7. TaskletsInTurn' /\ ReadyFirst' /\ TransferPhases'
      BY <1>1, <1>2, <1>3 DEF IInv, TaskletsInTurn, ReadyFirst, TransferPhases,
         BusyIffTransfer, Processing, Transfer, Completing
<1>8. Announced'
      BY <1>1, <1>2 DEF IInv, Announced, Receiving
<1>9. InitReqFirst'
      BY <1>1, <1>2 DEF IInv, InitReqFirst, ReadyFirst
<1> QED BY <1>1, <1>5, <1>6, <1>7, <1>8, <1>9 DEF IInv, TypeOK

(* submit_dl has no reason to refuse, ...                                  *)
LEMMA SubmitAccepted == IInv => SubmitDlAccepted
<1> SUFFICES ASSUME IInv, pc = "submit_dl"
             PROVE  /\ Acceptable /\ table # << >>
                    /\ \A i \in 1 .. Len(table) : table[i] = fifo_dl[i]
    BY DEF SubmitDlAccepted
<1>1. Processing /\ ~Transfer /\ {"b_bp_ready", "b_ap_ready"} \subseteq hif
      BY DEF IInv, TaskletsInTurn, TransferPhases, ReadyFirst
<1>2. /\ Begins(table, fifo_dl) /\ rx_xfer # << >> /\ Begins(rx_xfer, table)
      BY <1>1 DEF IInv, Announced
<1>3. /\ Len(rx_xfer) \in Nat /\ Len(table) \in Nat /\ Len(rx_xfer) # 0
      BY <1>2, EmptySeq DEF IInv, TypeOK
<1>4. Acceptable
      BY <1>1, <1>2, <1>3 DEF Acceptable, Begins, Lesser, Processing, Transfer
<1>5. table # << >>
  <2>1. Len(table) # 0
        BY <1>2, <1>3 DEF Begins
  <2> QED BY <2>1
<1> QED BY <1>2, <1>4, <1>5 DEF Begins

(* ... and starts a transfer of the oldest frames.                         *)
LEMMA SubmitStep ==
  ASSUME IInv, IPC_4GHIF_submit_dl
  PROVE  /\ IInv'
         /\ dma = << >> /\ \E n \in 0 .. Len(fifo_dl) :
              dma' = FirstOf(fifo_dl, n) /\ fifo_dl' = AllAfter(fifo_dl, n)
         /\ UNCHANGED <<expected, posted>>
<1> USE QueuesDiffer
<1> DEFINE n == Len(rx_xfer)
<1>1. /\ Acceptable /\ pc = "submit_dl"
      /\ Processing /\ ~Transfer /\ {"b_bp_ready", "b_ap_ready"} \subseteq hif
      /\ channel # "running" /\ ~Completing /\ "RX_BUSY" \in dd /\ dma = << >>
      BY SubmitAccepted DEF SubmitDlAccepted, IPC_4GHIF_submit_dl, IInv,
         TaskletsInTurn, TransferPhases, ReadyFirst
<1>2. /\ Begins(table, fifo_dl) /\ Len(table) <= fifo_ack_4ghif_ul_space_left
      /\ rx_xfer # << >> /\ Begins(rx_xfer, table)
      BY <1>1 DEF IInv, Announced
<1>3. /\ table \in Seq(Frames) /\ Len(table) \in Nat /\ Len(table) <= MAX_NB_DL_FRAMES
      /\ fifo_dl \in Seq(Frames \cup {INIT_REQ}) /\ Len(fifo_dl) \in Nat
      /\ rx_xfer \in Seq(Frames) /\ Len(fifo_dl) < FIFO_DL_MSG_NB
      BY LenProperties DEF IInv, TypeOK
<1>4. n \in Nat /\ n > 0 /\ n <= Len(table) /\ Len(table) <= Len(fifo_dl)
      BY <1>2, <1>3, EmptySeq DEF Begins
<1> HIDE DEF n
<1>5. sdma_dl_packet_nb = n
      BY <1>3, <1>4 DEF sdma_dl_packet_nb, Lesser, n
<1>6. /\ hif' = hif \cup {"b_sdma_dl_transfer_on_going"}
      /\ dma' = FirstOf(table, n) /\ fifo_dl' = AllAfter(fifo_dl, n)
      /\ channel' = "running" /\ rx_xfer' = FirstOf(rx_xfer, n) /\ dd' = dd
      /\ pc' = "idle"
      /\ UNCHANGED <<table, notified, ack_ul, mbox, tasklets, rx_pi, posted, expected>>
      BY <1>1, <1>4, <1>5 DEF IPC_4GHIF_submit_dl, lte_dd_sdma_rx_answered, Passed
<1>7. /\ dma' \in Seq(Frames) /\ Len(dma') = n /\ dma' # << >>
      /\ \A i \in 1 .. n : dma'[i] = table[i]
      /\ Begins(dma', table)
      BY <1>3, <1>4, <1>6, FirstOfFacts
<1>8. dma' = FirstOf(fifo_dl, n) /\ n \in 0 .. Len(fifo_dl)
  <2>1. /\ FirstOf(fifo_dl, n) \in Seq(Frames \cup {INIT_REQ})
        /\ Len(FirstOf(fifo_dl, n)) = n /\ n \in 0 .. Len(fifo_dl)
        /\ \A i \in 1 .. n : FirstOf(fifo_dl, n)[i] = fifo_dl[i]
        BY <1>3, <1>4, FirstOfFacts
  <2>2. \A i \in 1 .. n : dma'[i] = fifo_dl[i]
        BY <1>2, <1>3, <1>4, <1>7 DEF Begins
  <2>3. dma' \in Seq(Frames \cup {INIT_REQ})
        BY <1>7, SeqMonotonic
  <2> QED BY <1>4, <1>7, <2>1, <2>2, <2>3, SeqEqual
<1>9. rx_xfer' = dma'
  <2> n \in 0 .. Len(rx_xfer)
      BY <1>4 DEF n
  <2>1. FirstOf(rx_xfer, n) \in Seq(Frames) /\ Len(FirstOf(rx_xfer, n)) = n
        BY <1>3, FirstOfFacts
  <2>2. \A i \in 1 .. n : FirstOf(rx_xfer, n)[i] = table[i]
    <3>1. \A i \in 1 .. n : FirstOf(rx_xfer, n)[i] = rx_xfer[i]
          BY <1>3, FirstOfFacts
    <3>2. \A i \in 1 .. n : rx_xfer[i] = table[i]
          BY <1>2 DEF Begins, n
    <3> QED BY <3>1, <3>2
  <2> QED BY <1>6, <1>7, <2>1, <2>2, SeqEqual
<1>10. /\ fifo_dl' \in Seq(Frames \cup {INIT_REQ}) /\ Len(fifo_dl') = Len(fifo_dl) - n
       /\ \A i \in 1 .. (Len(fifo_dl) - n) : fifo_dl'[i] = fifo_dl[i + n]
      BY <1>3, <1>6, <1>8, AllAfterFacts
<1>11. TypeOK'
  <2>1. Len(fifo_dl') < FIFO_DL_MSG_NB
        BY <1>3, <1>4, <1>10, HifDlAssumption
  <2> QED BY <1>6, <1>7, <1>9, <1>10, <2>1 DEF IInv, TypeOK
<1>12. TaskletsInTurn' /\ ReadyFirst'
      BY <1>1, <1>6 DEF IInv, TaskletsInTurn, ReadyFirst, Processing, Transfer
<1>13. TransferPhases'
      BY <1>1, <1>6, <1>7, <1>9 DEF TransferPhases, BusyIffTransfer, Transfer,
         Completing
<1>14. Announced'
  <2>1. Len(dma') <= fifo_ack_4ghif_ul_space_left' /\ Begins(dma', table')
    <3>1. fifo_ack_4ghif_ul_space_left' = fifo_ack_4ghif_ul_space_left
          BY <1>6 DEF fifo_ack_4ghif_ul_space_left
    <3>2. fifo_ack_4ghif_ul_space_left \in Int
          BY HifDlAssumption DEF fifo_ack_4ghif_ul_space_left, IInv, TypeOK
    <3> QED BY <1>2, <1>3, <1>4, <1>6, <1>7, <3>1, <3>2
  <2> QED BY <1>6, <2>1 DEF IInv, Announced, Transfer, Receiving
<1>15. InitReqFirst'
  <2>1. \A i \in 1 .. Len(fifo_dl) : fifo_dl[i] \in Frames
        BY <1>1, <1>3, EmptySeq DEF IInv, InitReqFirst, TypeOK
  <2>2. \A i \in 1 .. Len(fifo_dl') : fifo_dl'[i] \in Frames
        BY <1>3, <1>4, <1>10, <2>1
  <2>3. fifo_dl' # << >> => fifo_dl'[1] # INIT_REQ
    <3>1. fifo_dl' # << >> => Len(fifo_dl') # 0
          BY <1>10, EmptySeq
    <3>2. INIT_REQ \notin Frames
          BY DEF INIT_REQ, Frames
    <3> QED BY <1>3, <1>4, <1>10, <2>2, <3>1, <3>2
  <2>4. \A i \in 2 .. Len(fifo_dl') : fifo_dl'[i] \in Frames
        BY <1>3, <1>4, <1>10, <2>2
  <2>5. posted' # INIT_REQ
        BY <1>1, <1>6 DEF IInv, InitReqFirst
  <2> QED BY <1>1, <1>6, <2>3, <2>4, <2>5 DEF InitReqFirst
<1> QED BY <1>1, <1>6, <1>8, <1>11, <1>12, <1>13, <1>14, <1>15 DEF IInv

(* The poll of the watchdog announces no less than a pending receive_dl.   *)
LEMMA WatchdogStep ==
  ASSUME IInv, ul_dl_watchdog_func
  PROVE  IInv'
<1> USE QueuesDiffer
<1>1. /\ pc = "idle" /\ "b_ap_ready" \in hif /\ "b_bp_ready" \in hif /\ ~Transfer
      /\ channel # "running" /\ ~Completing
      /\ table' = fifo_4ghif_get_frame_info
      /\ UNCHANGED <<fifo_dl, notified, dma, channel, ack_ul, mbox, tasklets, rx_xfer,
                     dd, posted, expected>>
      BY DEF ul_dl_watchdog_func, IPC_4GHIF_get_dl_frames_nb, sdma, IInv, ReadyFirst,
         TransferPhases, BusyIffTransfer, Transfer
<1>2. /\ table' \in Seq(Frames) /\ Len(table') <= MAX_NB_DL_FRAMES
      /\ Begins(table', fifo_dl) /\ Len(table') <= fifo_ack_4ghif_ul_space_left
      BY <1>1, FrameInfoFacts
<1>3. Processing /\ Receiving => Begins(notified, table')
  <2> SUFFICES ASSUME Processing, Receiving PROVE Begins(notified, table')
      OBVIOUS
  <2>1. Begins(notified, table) /\ Begins(table, fifo_dl)
        /\ Len(table) <= fifo_ack_4ghif_ul_space_left
        BY <1>1 DEF IInv, Announced
  <2>2. Begins(table, table')
        BY <1>1, <2>1, FrameInfoFacts
  <2>3. notified \in Seq(Frames) /\ table \in Seq(Frames)
        BY DEF IInv, TypeOK
  <2> QED BY <1>2, <2>1, <2>2, <2>3, BeginsTransitive
<1>4. ~Processing => ~Receiving
      BY DEF IInv, TaskletsInTurn, Receiving
<1>5. InitReqFirst' /\ fifo_ack_4ghif_ul_space_left' = fifo_ack_4ghif_ul_space_left
  <2>1. "b_bp_ready" \in hif'
        BY <1>1 DEF ul_dl_watchdog_func, IPC_4GHIF_get_dl_frames_nb
  <2> QED BY <1>1, <2>1 DEF IInv, InitReqFirst, fifo_ack_4ghif_ul_space_left
<1>6. CASE table' = << >>
  <2>1. hif' = hif /\ rx_pi' = rx_pi /\ pc' = pc
        BY <1>6 DEF ul_dl_watchdog_func, IPC_4GHIF_get_dl_frames_nb
  <2>2. TypeOK' /\ TaskletsInTurn' /\ ReadyFirst'
        BY <1>1, <1>2, <2>1 DEF IInv, TypeOK, TaskletsInTurn, ReadyFirst, Processing,
           Transfer
  <2>3. TransferPhases'
        BY <1>1, <2>1 DEF IInv, TransferPhases, BusyIffTransfer, Transfer, Completing
  <2>4. Announced'
        BY <1>1, <1>2, <1>3, <1>5, <2>1
           DEF IInv, Announced, Processing, Transfer, Receiving
  <2> QED BY <1>5, <2>2, <2>3, <2>4 DEF IInv
<1>7. CASE table' # << >>
  <2>1. /\ hif' = hif \cup {"b_process_dl_msg_on_going"}
        /\ rx_pi' \in Taken(table') /\ pc' = "sdma_rx"
        BY <1>7 DEF ul_dl_watchdog_func, IPC_4GHIF_get_dl_frames_nb
  <2>2. /\ rx_pi' \in Seq(Frames) /\ rx_pi' # << >> /\ Begins(rx_pi', table')
        BY <1>2, <1>7, <2>1, TakenFacts
  <2>3. TypeOK' /\ TaskletsInTurn' /\ ReadyFirst'
        BY <1>1, <1>2, <2>1, <2>2 DEF IInv, TypeOK, TaskletsInTurn, ReadyFirst,
           Processing, Transfer
  <2>4. TransferPhases'
        BY <1>1, <2>1 DEF IInv, TransferPhases, BusyIffTransfer, Transfer, Completing
  <2>5. Announced'
    <3>1. Receiving' => Receiving /\ Processing
          BY <1>1, <1>4 DEF Receiving
    <3> QED BY <1>1, <1>2, <1>3, <1>5, <2>1, <2>2, <3>1
               DEF IInv, Announced, Transfer
  <2> QED BY <1>5, <2>3, <2>4, <2>5 DEF IInv
<1> QED BY <1>6, <1>7

(* The tasklet takes the frames of the last announcement, unless the poll  *)
(* has started a transfer of them: then RX_BUSY stops lte_dd_sdma_rx.      *)
LEMMA ReceiveStep ==
  ASSUME IInv, receive_dl_tasklet_function
  PROVE  IInv'
<1> USE QueuesDiffer
<1>1. /\ pc = "idle" /\ pc' = "sdma_rx" /\ Receiving /\ rx_pi' \in Taken(notified)
      /\ \/ tasklets = <<"receive_dl">> /\ tasklets' = << >>
         \/ /\ tasklets = <<"receive_dl", "dl_complete">>
            /\ tasklets' = <<"dl_complete">>
      /\ UNCHANGED <<hif, fifo_dl, table, notified, dma, channel, ack_ul, mbox,
                     rx_xfer, dd, posted, expected>>
      BY RunsFacts DEF receive_dl_tasklet_function, Runs, IInv, sdma, Receiving
<1>2. Processing /\ "b_ap_ready" \in hif /\ notified # << >> /\ notified \in Seq(Frames)
      BY <1>1 DEF IInv, TaskletsInTurn, ReadyFirst, Announced, TypeOK
<1>3. rx_pi' \in Seq(Frames) /\ rx_pi' # << >> /\ Begins(rx_pi', notified)
      BY <1>1, <1>2, TakenFacts
<1>4. TypeOK'
  <2>1. tasklets' \in Seq({"bp_ready", "receive_dl", "dl_complete"})
        BY <1>1, QueuesTyped
  <2> QED BY <1>1, <1>3, <2>1 DEF IInv, TypeOK
<1>5. TaskletsInTurn' /\ ReadyFirst'
      BY <1>1, <1>2 DEF IInv, TaskletsInTurn, ReadyFirst, Processing, Transfer
<1>6. TransferPhases' /\ InitReqFirst'
      BY <1>1 DEF IInv, TransferPhases, BusyIffTransfer, Transfer, Completing,
         InitReqFirst
<1>7. Announced'
  <2>1. ~Transfer => Begins(rx_pi', table)
    <3>1. ~Transfer => Begins(notified, table)
          BY <1>1, <1>2 DEF IInv, Announced
    <3>2. table \in Seq(Frames)
          BY DEF IInv, TypeOK
    <3> QED BY <1>2, <1>3, <3>1, <3>2, BeginsTransitive
  <2>2. fifo_ack_4ghif_ul_space_left' = fifo_ack_4ghif_ul_space_left /\ ~Receiving'
        BY <1>1 DEF fifo_ack_4ghif_ul_space_left, Receiving
  <2> QED BY <1>1, <1>2, <1>3, <2>1, <2>2
             DEF IInv, Announced, Processing, Transfer
<1> QED BY <1>4, <1>5, <1>6, <1>7 DEF IInv

(* Buffers are allocated for the frames lte_dd_sdma_rx was called for,     *)
(* oldest first.                                                           *)
LEMMA AllocStep ==
  ASSUME IInv, lte_dd_sdma_rx_alloc
  PROVE  IInv'
<1> USE QueuesDiffer
<1>1. /\ pc = "sdma_rx" /\ pc' = "submit_dl" /\ "RX_BUSY" \notin dd
      /\ dd' = dd \cup {"RX_BUSY"}
      /\ UNCHANGED <<hif, fifo_dl, table, notified, dma, channel, ack_ul, mbox,
                     tasklets, rx_pi, posted, expected>>
      BY DEF lte_dd_sdma_rx_alloc, sdma
<1>2. ~Transfer /\ Processing /\ "b_ap_ready" \in hif
      BY <1>1 DEF IInv, TaskletsInTurn, ReadyFirst, TransferPhases, BusyIffTransfer,
         Transfer
<1>3. /\ rx_pi \in Seq(Frames) /\ Begins(rx_pi, table) /\ table \in Seq(Frames)
      BY <1>1, <1>2 DEF IInv, Announced, TypeOK
<1>4. rx_xfer' \in Seq(Frames) /\ rx_xfer' # << >> /\ Begins(rx_xfer', table)
  <2>1. PICK n \in 1 .. Len(rx_pi) : rx_xfer' = FirstOf(rx_pi, n)
        BY DEF lte_dd_sdma_rx_alloc
  <2>2. n \in 0 .. Len(rx_pi) /\ n # 0
        BY <1>3, <2>1, LenProperties
  <2>3. rx_xfer' \in Seq(Frames) /\ rx_xfer' # << >> /\ Begins(rx_xfer', rx_pi)
        BY <1>3, <2>1, <2>2, FirstOfFacts
  <2> QED BY <1>3, <2>3, BeginsTransitive
<1>5. TypeOK' /\ TaskletsInTurn' /\ ReadyFirst'
      BY <1>1, <1>2, <1>4 DEF IInv, TypeOK, TaskletsInTurn, ReadyFirst, Processing,
         Transfer
<1>6. TransferPhases' /\ InitReqFirst'
      BY <1>1, <1>2 DEF IInv, TransferPhases, BusyIffTransfer, Transfer, Completing,
         InitReqFirst
<1>7. Announced'
      BY <1>1, <1>2, <1>4 DEF IInv, Announced, Processing, Transfer, Receiving,
         fifo_ack_4ghif_ul_space_left
<1> QED BY <1>5, <1>6, <1>7 DEF IInv

(* The BP posts behind what is announced.                                  *)
LEMMA PostStep ==
  ASSUME IInv, bp_post
  PROVE  IInv'
<1>1. /\ fifo_dl' = Append(fifo_dl, posted) /\ posted' = Nth(posted + 1)
      /\ mbox' = "irq" /\ Len(fifo_dl) < FIFO_DL_MSG_NB - 1
      /\ UNCHANGED <<hif, table, notified, dma, channel, ack_ul, tasklets, pc, rx_pi,
                     rx_xfer, dd, expected>>
      BY DEF bp_post, sdma, ddrv
<1>2. /\ fifo_dl \in Seq(Frames \cup {INIT_REQ}) /\ Len(fifo_dl) \in Nat
      /\ posted \in Frames \cup {INIT_REQ} /\ table \in Seq(Frames)
      BY LenProperties DEF IInv, TypeOK
<1>3. /\ fifo_dl' \in Seq(Frames \cup {INIT_REQ}) /\ Len(fifo_dl') = Len(fifo_dl) + 1
      /\ \A i \in 1 .. Len(fifo_dl) : fifo_dl'[i] = fifo_dl[i]
      /\ fifo_dl'[Len(fifo_dl) + 1] = posted
      BY <1>1, <1>2, AppendProperties
<1>4. posted' \in Frames /\ INIT_REQ \notin Frames
      BY <1>1, <1>2, HifDlAssumption DEF Nth, Frames, INIT_REQ
<1>5. TypeOK'
  <2>1. Len(fifo_dl') < FIFO_DL_MSG_NB
        BY <1>1, <1>2, <1>3, HifDlAssumption
  <2> QED BY <1>1, <1>3, <1>4, <2>1 DEF IInv, TypeOK
<1>6. TaskletsInTurn' /\ ReadyFirst' /\ TransferPhases'
      BY <1>1 DEF IInv, TaskletsInTurn, ReadyFirst, TransferPhases, BusyIffTransfer,
         Processing, Transfer, Completing
<1>7. Announced'
  <2>1. Begins(table, fifo_dl) => Begins(table, fifo_dl')
        BY <1>1, <1>2, BeginsAppend
  <2>2. fifo_ack_4ghif_ul_space_left' = fifo_ack_4ghif_ul_space_left
        BY <1>1 DEF fifo_ack_4ghif_ul_space_left
  <2> QED BY <1>1, <2>1, <2>2 DEF IInv, Announced, Processing, Transfer, Receiving
<1>8. InitReqFirst'
  <2>1. CASE posted = INIT_REQ
    <3>1. fifo_dl = << >> /\ "b_bp_ready" \notin hif
          BY <2>1 DEF IInv, InitReqFirst
    <3>2. Len(fifo_dl') = 1 /\ fifo_dl'[1] = INIT_REQ
          BY <1>3, <2>1, <3>1
    <3> QED BY <1>1, <1>4, <3>1, <3>2 DEF InitReqFirst
  <2>2. CASE posted # INIT_REQ
    <3>1. \A i \in 2 .. Len(fifo_dl') : fifo_dl'[i] \in Frames
          BY <1>2, <1>3, <2>2 DEF IInv, InitReqFirst
    <3>2. fifo_dl'[1] = INIT_REQ <=> "b_bp_ready" \notin hif
      <4>1. CASE fifo_dl = << >>
        <5>1. fifo_dl'[1] = posted /\ posted \in Frames
              BY <1>2, <1>3, <2>2, <4>1
        <5> QED BY <1>4, <2>2, <4>1, <5>1 DEF IInv, InitReqFirst
      <4>2. CASE fifo_dl # << >>
        <5>1. Len(fifo_dl) # 0
              BY <1>2, <4>2, EmptySeq
        <5>2. fifo_dl'[1] = fifo_dl[1]
              BY <1>2, <1>3, <5>1
        <5> QED BY <4>2, <5>2 DEF IInv, InitReqFirst
      <4> QED BY <4>1, <4>2
    <3> QED BY <1>1, <1>4, <3>1, <3>2 DEF InitReqFirst
  <2> QED BY <2>1, <2>2
<1> QED BY <1>5, <1>6, <1>7, <1>8 DEF IInv

(* The steps that move one handler or one flag.                            *)
LEMMA ReadyStep ==
  ASSUME IInv, bp_ready_tasklet_function
  PROVE  IInv'
<1> USE QueuesDiffer
<1>1. /\ tasklets = <<"bp_ready">> /\ tasklets' = << >> /\ pc = "idle"
      /\ pc' = "release" /\ hif' = hif \cup {"b_ap_ready"}
      /\ UNCHANGED <<fifo_dl, table, notified, dma, channel, ack_ul, mbox, rx_pi,
                     rx_xfer, dd, expected, posted>>
      BY RunsFacts DEF bp_ready_tasklet_function, Runs, IInv, sdma, ddrv
<1>2. /\ Processing /\ ~Transfer /\ "b_bp_ready" \in hif /\ ~Completing
      /\ channel # "running" /\ dd = {}
      BY <1>1 DEF IInv, TaskletsInTurn, ReadyFirst, TransferPhases, Completing,
         InitReqFirst, Processing
<1>3. TypeOK'
  <2>1. tasklets' \in Seq({"bp_ready", "receive_dl", "dl_complete"})
        BY <1>1, QueuesTyped
  <2> QED BY <1>1, <2>1 DEF IInv, TypeOK
<1>4. TaskletsInTurn' /\ ReadyFirst' /\ TransferPhases'
      BY <1>1, <1>2 DEF IInv, TaskletsInTurn, ReadyFirst, TransferPhases,
         BusyIffTransfer, Processing, Transfer, Completing
<1>5. Announced' /\ InitReqFirst'
      BY <1>1, <1>2 DEF IInv, Announced, InitReqFirst, Receiving
<1> QED BY <1>3, <1>4, <1>5 DEF IInv

LEMMA ReleaseStep ==
  ASSUME IInv, dl_complete_release
  PROVE  IInv'
<1> USE QueuesDiffer
<1>1. /\ pc = "release" /\ pc' = "process" /\ tasklets = << >>
      /\ hif' = hif \ {"b_process_dl_msg_on_going"}
      /\ UNCHANGED <<fifo_dl, table, notified, dma, channel, ack_ul, mbox, tasklets,
                     rx_pi, rx_xfer, dd, expected, posted>>
      BY DEF dl_complete_release, IInv, TaskletsInTurn, sdma, ddrv
<1>2. ~Transfer /\ "b_ap_ready" \in hif
      BY <1>1 DEF IInv, TransferPhases, ReadyFirst
<1>3. TypeOK' /\ TaskletsInTurn' /\ ReadyFirst'
      BY <1>1, <1>2 DEF IInv, TypeOK, TaskletsInTurn, ReadyFirst, Processing, Transfer
<1>4. TransferPhases' /\ InitReqFirst'
      BY <1>1, <1>2 DEF IInv, TransferPhases, BusyIffTransfer, Transfer, Completing,
         InitReqFirst
<1>5. Announced'
      BY <1>1, <1>2 DEF IInv, Announced, Processing, Receiving, TransferPhases
<1> QED BY <1>3, <1>4, <1>5 DEF IInv

(* lte_dd_sdma_rx without a transfer to start.                             *)
LEMMA NoTransferStep ==
  ASSUME IInv, lte_dd_sdma_rx_busy \/ lte_dd_sdma_rx_no_skb
  PROVE  IInv'
<1> USE QueuesDiffer
<1>1. /\ pc = "sdma_rx" /\ pc' = "idle"
      /\ dd' = dd \/ dd' = dd \cup {"RX_AVAIL"}
      /\ UNCHANGED <<hif, fifo_dl, table, notified, dma, channel, ack_ul, mbox,
                     tasklets, rx_pi, rx_xfer, expected, posted>>
      BY DEF lte_dd_sdma_rx_busy, lte_dd_sdma_rx_no_skb, NoSkbNoted, sdma, ddrv
<1>2. "b_ap_ready" \in hif
      BY <1>1 DEF IInv, ReadyFirst
<1>3. TypeOK' /\ TaskletsInTurn' /\ ReadyFirst'
      BY <1>1, <1>2 DEF IInv, TypeOK, TaskletsInTurn, ReadyFirst, Processing, Transfer
<1>4. TransferPhases' /\ InitReqFirst'
      BY <1>1 DEF IInv, TransferPhases, BusyIffTransfer, Transfer, Completing,
         InitReqFirst
<1>5. Announced'
      BY <1>1 DEF IInv, Announced, Processing, Transfer, Receiving,
         fifo_ack_4ghif_ul_space_left
<1> QED BY <1>3, <1>4, <1>5 DEF IInv

(* The BP only makes room for ACKs.                                        *)
LEMMA ReadAckStep ==
  ASSUME IInv, bp_read_ack
  PROVE  IInv'
<1>1. /\ ack_ul # << >> /\ ack_ul' = Tail(ack_ul)
      /\ UNCHANGED <<hif, fifo_dl, table, notified, dma, channel, mbox, tasklets, pc,
                     rx_pi, rx_xfer, dd, expected, posted>>
      BY DEF bp_read_ack, sdma, ddrv
<1>2. /\ ack_ul' \in Seq(Frames) /\ Len(ack_ul) \in Nat /\ Len(ack_ul') = Len(ack_ul) - 1
      BY <1>1, HeadTailProperties, LenProperties DEF IInv, TypeOK
<1>3. TypeOK' /\ TaskletsInTurn' /\ ReadyFirst'
      BY <1>1, <1>2 DEF IInv, TypeOK, TaskletsInTurn, ReadyFirst, Processing, Transfer
<1>4. TransferPhases' /\ InitReqFirst'
      BY <1>1 DEF IInv, TransferPhases, BusyIffTransfer, Transfer, Completing,
         InitReqFirst
<1>5. Announced'
  <2>1. /\ fifo_ack_4ghif_ul_space_left' >= fifo_ack_4ghif_ul_space_left
        /\ fifo_ack_4ghif_ul_space_left \in Int /\ fifo_ack_4ghif_ul_space_left' \in Int
        /\ Len(ack_ul') < FIFO_ACK_UL_MSG_NB
        BY <1>2, HifDlAssumption DEF fifo_ack_4ghif_ul_space_left, IInv, Announced
  <2>2. Len(table) \in Nat /\ Len(dma) \in Nat
        BY LenProperties DEF IInv, TypeOK
  <2>3. /\ Len(table) <= fifo_ack_4ghif_ul_space_left
             => Len(table) <= fifo_ack_4ghif_ul_space_left'
        /\ Len(dma) <= fifo_ack_4ghif_ul_space_left
             => Len(dma) <= fifo_ack_4ghif_ul_space_left'
        BY <2>1, <2>2
  <2> QED BY <1>1, <2>1, <2>3 DEF IInv, Announced, Processing, Transfer, Receiving
<1> QED BY <1>3, <1>4, <1>5 DEF IInv

LEMMA NextIInv == IInv /\ [Next]_vars => IInv'
<1> SUFFICES ASSUME IInv, [Next]_vars PROVE IInv'
    OBVIOUS
<1>1. CASE mailbox_ISR_4GHIF
      BY <1>1, ProcessStep DEF mailbox_ISR_4GHIF, sdma, ddrv
<1>2. CASE dl_complete_process
  <2>1. mbox' \in {"irq", "none"}
        BY <1>2 DEF dl_complete_process, IInv, TypeOK
  <2> QED BY <1>2, <2>1, ProcessStep DEF dl_complete_process, sdma, ddrv
<1>3. CASE UNCHANGED vars
  <2>1. TypeOK' /\ TaskletsInTurn' /\ ReadyFirst'
        BY <1>3 DEF vars, IInv, TypeOK, TaskletsInTurn, ReadyFirst, Processing, Transfer
  <2>2. TransferPhases' /\ InitReqFirst'
        BY <1>3 DEF vars, IInv, TransferPhases, BusyIffTransfer, Transfer, Completing,
           InitReqFirst
  <2>3. Announced'
        BY <1>3 DEF vars, IInv, Announced, Processing, Transfer, Receiving,
           fifo_ack_4ghif_ul_space_left
  <2> QED BY <2>1, <2>2, <2>3 DEF IInv
<1>4. CASE ul_dl_watchdog_func_idle
      BY <1>3, <1>4 DEF ul_dl_watchdog_func_idle
<1> QED BY <1>1, <1>2, <1>3, <1>4, SdmaStep, ReadyStep, ReceiveStep, CompleteStep,
           ReleaseStep, NoTransferStep, AllocStep, SubmitStep, WatchdogStep, PostStep,
           ReadAckStep DEF Next

(* The inductive invariant holds in every reachable state.                 *)
THEOREM DlInvariant == Spec => []IInv
BY InitIInv, NextIInv, PTL DEF Spec

(* The type invariant: in particular no more frames are announced than the *)
(* message table and the descriptor lists have room for.                   *)
THEOREM DlTypeCorrect == Spec => []TypeOK
<1>1. IInv => TypeOK
      BY DEF IInv
<1> QED BY <1>1, DlInvariant, PTL

(* sdma_4ghif_dl_callback acknowledges the frames it has copied and finds  *)
(* room for each ACK: its panic is not reachable.                          *)
THEOREM AcksAreCopied == Spec => []AcksCopiedFrames
<1>1. IInv => AcksCopiedFrames
  <2> SUFFICES ASSUME IInv, channel = "running"
               PROVE  /\ Len(dma) <= fifo_ack_4ghif_ul_space_left
                      /\ \A i \in 1 .. Len(dma) : i \in DOMAIN table /\ table[i] = dma[i]
      BY DEF AcksCopiedFrames
  <2>1. Begins(dma, table) /\ Len(dma) <= fifo_ack_4ghif_ul_space_left
        BY DEF IInv, Announced
  <2>2. DOMAIN table = 1 .. Len(table) /\ Len(table) \in Nat /\ Len(dma) \in Nat
        BY LenProperties DEF IInv, TypeOK
  <2> QED BY <2>1, <2>2 DEF Begins
<1> QED BY <1>1, DlInvariant, PTL

(* IPC_4GHIF_submit_dl is never refused, so a refusal never leaves         *)
(* b_process_dl_msg_on_going set for good.                                 *)
THEOREM SubmitNeverRefused == Spec => []SubmitDlAccepted
BY SubmitAccepted, DlInvariant, PTL

(* RX_BUSY of the data driver and the transfer flag of the HIF agree       *)
(* outside submit_dl.                                                      *)
THEOREM BusyAgrees == Spec => []BusyIffTransfer
<1>1. IInv => BusyIffTransfer
      BY DEF IInv, TransferPhases
<1> QED BY <1>1, DlInvariant, PTL

----------------------------------------------------------------------------
(* Frames are numbered modulo PktMod.                                      *)
LEMMA NthOfSum ==
  ASSUME NEW a \in Nat, NEW b \in Nat
  PROVE  Nth(Nth(a) + b) = Nth(a + b) /\ Nth(a) \in Frames
<1>1. PktMod \in Nat /\ PktMod > 0
      BY HifDlAssumption
<1>2. /\ ((a % PktMod) + b) % PktMod = (a + b) % PktMod
      /\ a % PktMod \in 0 .. (PktMod - 1)
      BY <1>1, RemainderOfSum, Zenon
<1> QED BY <1>2, Zenon DEF Nth, Frames

(* The frames of a way are numbered from e on, and p is the next number.   *)
Numbered(way, e, p) ==
  /\ \A i \in 1 .. Len(way) : way[i] = Nth(e + i - 1)
  /\ p # INIT_REQ => Nth(e + Len(way)) = p

LEMMA NumberedAppend ==
  ASSUME NEW way \in Seq(Frames), NEW e \in Frames, NEW p \in Frames,
         Numbered(way, e, p)
  PROVE  Numbered(Append(way, p), e, Nth(p + 1))
<1> DEFINE more == Append(way, p)
           n == Len(way)
<1>1. n \in Nat /\ e \in Nat /\ p # INIT_REQ
      BY LenProperties DEF Frames, INIT_REQ
<1>2. /\ Len(more) = n + 1 /\ \A i \in 1 .. n : more[i] = way[i]
      /\ more[n + 1] = p
      BY AppendProperties
<1>3. Nth(e + n) = p /\ \A i \in 1 .. n : way[i] = Nth(e + i - 1)
      BY <1>1 DEF Numbered
<1> HIDE DEF more, n
<1>4. \A i \in 1 .. Len(more) : more[i] = Nth(e + i - 1)
  <2> TAKE i \in 1 .. Len(more)
  <2>1. CASE i \in 1 .. n
        BY <1>2, <1>3, <2>1
  <2>2. CASE i = n + 1
    <3>1. e + i - 1 = e + n
          BY <1>1, <2>2
    <3> QED BY <1>2, <1>3, <2>2, <3>1
  <2> QED BY <1>1, <1>2, <2>1, <2>2
<1>5. Nth(e + Len(more)) = Nth(p + 1)
  <2>1. e + n \in Nat /\ e + Len(more) = (e + n) + 1
        BY <1>1, <1>2
  <2>2. Nth(Nth(e + n) + 1) = Nth((e + n) + 1)
        BY <2>1, NthOfSum
  <2> QED BY <1>3, <2>1, <2>2
<1> QED BY <1>4, <1>5 DEF Numbered, more

LEMMA NumberedRest ==
  ASSUME NEW d \in Seq(Frames), NEW s \in Seq(Frames), NEW e \in Frames, NEW p,
         Numbered(d \o s, e, p)
  PROVE  Numbered(s, Nth(e + Len(d)), p)
<1> DEFINE way == d \o s
           k == Len(d)
           n == Len(s)
<1>1. n \in Nat /\ k \in Nat /\ e \in Nat /\ e + k \in Nat
      BY LenProperties DEF Frames
<1>2. Len(way) = k + n /\ \A j \in 1 .. Len(way) : way[j] = IF j <= k THEN d[j] ELSE s[j - k]
      BY ConcatProperties
<1>3. /\ \A j \in 1 .. Len(way) : way[j] = Nth(e + j - 1)
      /\ p # INIT_REQ => Nth(e + Len(way)) = p
      BY DEF Numbered
<1> HIDE DEF way, k, n
<1>4. ASSUME NEW j \in Nat
      PROVE  Nth(Nth(e + k) + j) = Nth((e + k) + j) /\ Nth(e + k) \in Nat
  <2>1. Nth(Nth(e + k) + j) = Nth((e + k) + j) /\ Nth(e + k) \in Frames
        BY <1>1, NthOfSum, Zenon
  <2> QED BY <2>1 DEF Frames
<1>5. \A i \in 1 .. n : s[i] = Nth(Nth(e + k) + i - 1)
  <2> TAKE i \in 1 .. n
  <2>1. k + i \in 1 .. Len(way) /\ ~(k + i <= k) /\ (k + i) - k = i /\ i - 1 \in Nat
        BY <1>1, <1>2
  <2>2. s[i] = way[k + i]
        BY <1>2, <2>1
  <2>3. way[k + i] = Nth(e + (k + i) - 1)
        BY <1>3, <2>1
  <2>4. Nth(Nth(e + k) + (i - 1)) = Nth((e + k) + (i - 1)) /\ Nth(e + k) \in Nat
        BY <1>4, <2>1
  <2>5. /\ e + (k + i) - 1 = (e + k) + (i - 1)
        /\ Nth(e + k) + i - 1 = Nth(e + k) + (i - 1)
        BY <1>1, <2>1, <2>4
  <2> QED BY <2>2, <2>3, <2>4, <2>5
<1>6. p # INIT_REQ => Nth(Nth(e + k) + n) = p
  <2>1. Nth(Nth(e + k) + n) = Nth((e + k) + n) /\ e + Len(way) = (e + k) + n
        BY <1>1, <1>2, <1>4
  <2> QED BY <1>3, <2>1
<1> QED BY <1>5, <1>6 DEF Numbered, k, n

(* The frames posted and not yet passed by the read index.                 *)
Waiting ==
  IF fifo_dl # << >> /\ Head(fifo_dl) = INIT_REQ THEN Tail(fifo_dl) ELSE fifo_dl

LEMMA WaitingFacts ==
  ASSUME IInv
  PROVE  /\ Waiting \in Seq(Frames)
         /\ "b_bp_ready" \in hif => Waiting = fifo_dl
         /\ "b_bp_ready" \notin hif /\ fifo_dl # << >> => Waiting = Tail(fifo_dl)
         /\ "b_bp_ready" \notin hif /\ fifo_dl = << >> => Waiting = << >>
<1>1. fifo_dl \in Seq(Frames \cup {INIT_REQ}) /\ Len(fifo_dl) \in Nat
      BY LenProperties DEF IInv, TypeOK
<1>2. fifo_dl # << >> =>
        /\ Head(fifo_dl) = fifo_dl[1]
        /\ Tail(fifo_dl) \in Seq(Frames \cup {INIT_REQ})
        /\ Len(Tail(fifo_dl)) = Len(fifo_dl) - 1 /\ Len(fifo_dl) # 0
        /\ \A i \in 1 .. Len(Tail(fifo_dl)) : Tail(fifo_dl)[i] = fifo_dl[i + 1]
      BY <1>1, HeadTailProperties, EmptySeq
<1>3. fifo_dl # << >> => (Head(fifo_dl) = INIT_REQ <=> "b_bp_ready" \notin hif)
      BY <1>2 DEF IInv, InitReqFirst
<1>4. /\ "b_bp_ready" \in hif => Waiting = fifo_dl
      /\ "b_bp_ready" \notin hif /\ fifo_dl # << >> => Waiting = Tail(fifo_dl)
      /\ "b_bp_ready" \notin hif /\ fifo_dl = << >> => Waiting = << >>
      BY <1>3 DEF Waiting
<1>5. CASE fifo_dl = << >>
  <2>1. Waiting = << >>
        BY <1>5 DEF Waiting
  <2> QED BY <1>4, <2>1
<1>6. CASE fifo_dl # << >> /\ "b_bp_ready" \notin hif
  <2> DEFINE t == Tail(fifo_dl)
  <2>1. Len(t) \in Nat /\ t \in [1 .. Len(t) -> Frames \cup {INIT_REQ}]
        BY <1>2, <1>6, LenProperties
  <2>2. \A i \in 1 .. Len(t) : t[i] \in Frames
    <3> TAKE i \in 1 .. Len(t)
    <3>1. i + 1 \in 2 .. Len(fifo_dl) /\ t[i] = fifo_dl[i + 1]
          BY <1>1, <1>2, <1>6
    <3> QED BY <3>1 DEF IInv, InitReqFirst
  <2> HIDE DEF t
  <2>3. t \in [1 .. Len(t) -> Frames]
        BY <2>1, <2>2
  <2>4. t \in Seq(Frames)
        BY <2>1, <2>3, IsASeq
  <2> QED BY <1>4, <1>6, <2>4 DEF t
<1>7. CASE fifo_dl # << >> /\ "b_bp_ready" \in hif
  <2> DEFINE f == fifo_dl
  <2>1. Len(f) \in Nat /\ f \in [1 .. Len(f) -> Frames \cup {INIT_REQ}]
        BY <1>1, LenProperties
  <2>2. \A i \in 1 .. Len(f) : f[i] \in Frames
    <3> TAKE i \in 1 .. Len(f)
    <3>1. CASE i = 1
      <4>1. f[1] # INIT_REQ
            BY <1>7 DEF IInv, InitReqFirst
      <4>2. 1 \in 1 .. Len(f)
            BY <3>1
      <4>3. f[1] \in Frames \cup {INIT_REQ}
            BY <2>1, <4>2
      <4> QED BY <3>1, <4>1, <4>3
    <3>2. CASE i # 1
      <4>1. i \in 2 .. Len(fifo_dl)
            BY <1>1, <3>2
      <4> QED BY <4>1 DEF IInv, InitReqFirst
    <3> QED BY <3>1, <3>2
  <2> HIDE DEF f
  <2>3. f \in [1 .. Len(f) -> Frames]
        BY <2>1, <2>2
  <2>4. f \in Seq(Frames)
        BY <2>1, <2>3, IsASeq
  <2> QED BY <1>4, <1>7, <2>4 DEF f
<1> QED BY <1>4, <1>5, <1>6, <1>7

LEMMA InOrderNumbered == InOrder <=> Numbered(dma \o Waiting, expected, posted)
BY DEF InOrder, Numbered, Waiting

(* The steps that move frames: INIT_REQ is read, a transfer starts or      *)
(* completes, the BP posts.                                                *)
LEMMA InOrderProcess ==
  ASSUME IInv, IInv', InOrder, fifo_4ghif_process_dl_msg,
         UNCHANGED <<dma, expected, posted>>
  PROVE  InOrder'
<1>1. CASE fifo_dl' = fifo_dl
      BY <1>1 DEF InOrder
<1>2. CASE /\ "b_bp_ready" \notin hif /\ fifo_dl # << >> /\ fifo_dl' = Tail(fifo_dl)
           /\ "b_bp_ready" \in hif'
  <2>1. Waiting = Tail(fifo_dl)
        BY <1>2, WaitingFacts
  <2>2. Waiting' = fifo_dl'
    <3>1. fifo_dl' # << >> => fifo_dl'[1] # INIT_REQ
          BY <1>2 DEF IInv, InitReqFirst
    <3>2. fifo_dl' # << >> => Head(fifo_dl') = fifo_dl'[1]
          BY HeadTailProperties DEF IInv, TypeOK
    <3> QED BY <3>1, <3>2 DEF Waiting
  <2>3. Numbered(dma' \o Waiting', expected', posted')
        BY <1>2, <2>1, <2>2, InOrderNumbered
  <2> QED BY <2>3 DEF InOrder, Numbered, Waiting
<1> QED BY <1>1, <1>2 DEF fifo_4ghif_process_dl_msg

LEMMA InOrderComplete ==
  ASSUME IInv, InOrder, dl_complete_tasklet_function
  PROVE  InOrder'
<1>1. /\ expected' = Nth(expected + Len(dma)) /\ dma' = << >> /\ dma \in Seq(Frames)
      /\ UNCHANGED <<fifo_dl, posted>>
      BY CompleteStep
<1>2. Waiting \in Seq(Frames) /\ expected \in Frames /\ Waiting' = Waiting
      BY <1>1, WaitingFacts DEF IInv, TypeOK, Waiting
<1>3. Numbered(dma \o Waiting, expected, posted)
      BY InOrderNumbered
<1>4. Numbered(Waiting, Nth(expected + Len(dma)), posted)
      BY <1>1, <1>2, <1>3, NumberedRest
<1>5. << >> \o Waiting = Waiting
      BY <1>2, ConcatEmptySeq
<1>6. Numbered(dma' \o Waiting', expected', posted')
      BY <1>1, <1>2, <1>4, <1>5
<1> QED BY <1>6 DEF InOrder, Numbered, Waiting

LEMMA InOrderSubmit ==
  ASSUME IInv, InOrder, IPC_4GHIF_submit_dl
  PROVE  InOrder'
<1>1. /\ IInv' /\ dma = << >> /\ UNCHANGED <<expected, posted>>
      BY SubmitStep
<1>2. PICK n \in 0 .. Len(fifo_dl) :
        dma' = FirstOf(fifo_dl, n) /\ fifo_dl' = AllAfter(fifo_dl, n)
      BY SubmitStep
<1>3. "b_bp_ready" \in hif /\ "b_bp_ready" \in hif'
  <2>1. pc = "submit_dl"
        BY DEF IPC_4GHIF_submit_dl
  <2>2. "b_bp_ready" \in hif
        BY <2>1 DEF IInv, ReadyFirst
  <2> QED BY <2>2 DEF IPC_4GHIF_submit_dl
<1>4. Waiting = fifo_dl /\ fifo_dl \in Seq(Frames) /\ Len(fifo_dl) \in Nat
      BY <1>3, WaitingFacts, LenProperties
<1>5. Waiting' = fifo_dl'
  <2>1. fifo_dl' # << >> => fifo_dl'[1] # INIT_REQ
        BY <1>1, <1>3 DEF IInv, InitReqFirst
  <2>2. fifo_dl' # << >> => Head(fifo_dl') = fifo_dl'[1]
        BY <1>1, HeadTailProperties DEF IInv, TypeOK
  <2> QED BY <2>1, <2>2 DEF Waiting
<1>6. FirstOf(fifo_dl, n) \o AllAfter(fifo_dl, n) = fifo_dl
  <2> DEFINE f == FirstOf(fifo_dl, n)
             r == AllAfter(fifo_dl, n)
             both == f \o r
  <2>1. /\ f \in Seq(Frames) /\ Len(f) = n /\ n \in Nat
        /\ \A i \in 1 .. n : f[i] = fifo_dl[i]
        BY <1>4, FirstOfFacts
  <2>2. /\ r \in Seq(Frames) /\ Len(r) = Len(fifo_dl) - n
        /\ \A i \in 1 .. (Len(fifo_dl) - n) : r[i] = fifo_dl[i + n]
        BY <1>4, AllAfterFacts
  <2> HIDE DEF f, r
  <2>3. /\ both \in Seq(Frames) /\ Len(both) = Len(f) + Len(r)
        /\ \A i \in 1 .. (Len(f) + Len(r)) :
             both[i] = IF i <= Len(f) THEN f[i] ELSE r[i - Len(f)]
        BY <2>1, <2>2, ConcatProperties
  <2> HIDE DEF both
  <2>4. \A i \in 1 .. Len(fifo_dl) : both[i] = fifo_dl[i]
    <3> TAKE i \in 1 .. Len(fifo_dl)
    <3>1. CASE i <= n
          BY <1>4, <2>1, <2>2, <2>3, <3>1
    <3>2. CASE ~(i <= n)
      <4>1. i - n \in 1 .. (Len(fifo_dl) - n) /\ (i - n) + n = i
            BY <1>4, <2>1, <3>2
      <4> QED BY <1>4, <2>1, <2>2, <2>3, <3>2, <4>1
    <3> QED BY <3>1, <3>2
  <2>5. Len(both) = Len(fifo_dl)
        BY <1>4, <2>1, <2>2, <2>3
  <2>6. both = fifo_dl
        BY <1>4, <2>3, <2>4, <2>5, SeqEqual
  <2> QED BY <2>6 DEF f, r, both
<1>7. << >> \o fifo_dl = fifo_dl
      BY <1>4, ConcatEmptySeq
<1>8. dma' \o Waiting' = dma \o Waiting
      BY <1>1, <1>2, <1>4, <1>5, <1>6, <1>7
<1>9. Numbered(dma' \o Waiting', expected', posted')
      BY <1>1, <1>8, InOrderNumbered
<1> QED BY <1>9 DEF InOrder, Numbered, Waiting

LEMMA InOrderPost ==
  ASSUME IInv, InOrder, bp_post
  PROVE  InOrder'
<1> DEFINE way == dma \o Waiting
<1>1. /\ IInv' /\ fifo_dl' = Append(fifo_dl, posted) /\ posted' = Nth(posted + 1)
      /\ UNCHANGED <<dma, expected, hif>>
      BY PostStep DEF bp_post, sdma, ddrv
<1>2. /\ fifo_dl \in Seq(Frames \cup {INIT_REQ}) /\ posted \in Frames \cup {INIT_REQ}
      /\ dma \in Seq(Frames) /\ expected \in Frames /\ Waiting \in Seq(Frames)
      /\ way \in Seq(Frames)
      BY WaitingFacts, ConcatProperties DEF IInv, TypeOK
<1>3. Numbered(way, expected, posted)
      BY InOrderNumbered
<1>4. fifo_dl' # << >> /\ Head(fifo_dl') = fifo_dl'[1]
  <2>1. Len(fifo_dl') # 0 /\ fifo_dl' \in Seq(Frames \cup {INIT_REQ})
        BY <1>1, <1>2, AppendProperties, LenProperties
  <2>2. fifo_dl' # << >>
        BY <2>1
  <2> QED BY <2>1, <2>2, HeadTailProperties
<1>5. CASE posted = INIT_REQ
  <2>1. /\ fifo_dl = << >> /\ "b_bp_ready" \notin hif /\ expected = 0 /\ dma = << >>
        BY <1>5 DEF IInv, InitReqFirst, ReadyFirst, TransferPhases
  <2>2. Waiting' = << >>
    <3>1. fifo_dl' = <<INIT_REQ>>
          BY <1>1, <1>5, <2>1
    <3>2. Head(<<INIT_REQ>>) = INIT_REQ /\ Tail(<<INIT_REQ>>) = << >>
          OBVIOUS
    <3> QED BY <1>4, <3>1, <3>2 DEF Waiting
  <2>3. dma' \o Waiting' = << >> /\ posted' = Nth(0)
        BY <1>1, <1>5, <2>1, <2>2 DEF INIT_REQ
  <2>4. Numbered(<< >>, 0, Nth(0))
        BY DEF Numbered
  <2>5. Numbered(dma' \o Waiting', expected', posted')
        BY <1>1, <2>1, <2>3, <2>4
  <2> QED BY <2>5 DEF InOrder, Numbered, Waiting
<1>6. CASE posted # INIT_REQ
  <2>1. posted \in Frames
        BY <1>2, <1>6
  <2>2. Waiting' = Append(Waiting, posted)
    <3>1. CASE "b_bp_ready" \in hif
      <4>1. fifo_dl'[1] # INIT_REQ
            BY <1>1, <1>4, <3>1 DEF IInv, InitReqFirst
      <4>2. Waiting' = fifo_dl'
            BY <1>4, <4>1 DEF Waiting
      <4> QED BY <1>1, <3>1, <4>2, WaitingFacts
    <3>2. CASE "b_bp_ready" \notin hif
      <4>1. fifo_dl # << >>
            BY <1>6, <3>2 DEF IInv, InitReqFirst
      <4>2. fifo_dl'[1] = INIT_REQ
            BY <1>1, <1>4, <3>2 DEF IInv, InitReqFirst
      <4>3. Waiting' = Tail(fifo_dl')
            BY <1>4, <4>2 DEF Waiting
      <4>4. Tail(Append(fifo_dl, posted)) = Append(Tail(fifo_dl), posted)
        <5> DEFINE S == Frames \cup {INIT_REQ}
        <5>1. fifo_dl \in Seq(S) /\ posted \in S
              BY <1>2
        <5> HIDE DEF S
        <5> QED BY <4>1, <5>1
      <4> QED BY <1>1, <3>2, <4>1, <4>3, <4>4, WaitingFacts
    <3> QED BY <3>1, <3>2
  <2>3. dma \o Append(Waiting, posted) = Append(way, posted)
    <3> DEFINE w == Waiting
    <3>1. w \in Seq(Frames)
          BY <1>2
    <3> HIDE DEF w
    <3>2. dma \o Append(w, posted) = Append(dma \o w, posted)
          BY <1>2, <2>1, <3>1
    <3> QED BY <3>2 DEF w
  <2>4. Numbered(Append(way, posted), expected, Nth(posted + 1))
    <3> HIDE DEF way
    <3> QED BY <1>2, <1>3, <2>1, NumberedAppend
  <2>5. Numbered(dma' \o Waiting', expected', posted')
        BY <1>1, <2>2, <2>3, <2>4
  <2> QED BY <2>5 DEF InOrder, Numbered, Waiting
<1> QED BY <1>5, <1>6

(* Each frame of the BP reaches the network stack once and in order.       *)
THEOREM FramesInOrder == Spec => []InOrder
<1>1. Init => InOrder
  <2> SUFFICES ASSUME Init PROVE InOrder
      OBVIOUS
  <2>1. fifo_dl = << >> /\ dma = << >> /\ posted = INIT_REQ
        BY DEF Init
  <2>2. << >> \o << >> = << >>
        OBVIOUS
  <2> QED BY <2>1, <2>2 DEF InOrder
<1>2. IInv /\ InOrder /\ [Next]_vars => InOrder'
  <2> SUFFICES ASSUME IInv, InOrder, [Next]_vars PROVE InOrder'
      OBVIOUS
  <2>1. IInv'
        BY NextIInv
  <2>2. CASE UNCHANGED <<dma, fifo_dl, expected, posted>>
        BY <2>2 DEF InOrder
  <2>3. CASE mailbox_ISR_4GHIF \/ dl_complete_process
        BY <2>1, <2>3, InOrderProcess
           DEF mailbox_ISR_4GHIF, dl_complete_process, sdma, ddrv
  <2>4. CASE sdma_4ghif_dl_callback \/ bp_ready_tasklet_function
               \/ receive_dl_tasklet_function \/ dl_complete_release
        BY <2>2, <2>4 DEF sdma_4ghif_dl_callback, bp_ready_tasklet_function,
           receive_dl_tasklet_function, dl_complete_release, sdma, ddrv
  <2>5. CASE lte_dd_sdma_rx_busy \/ lte_dd_sdma_rx_no_skb \/ lte_dd_sdma_rx_alloc
        BY <2>2, <2>5 DEF lte_dd_sdma_rx_busy, lte_dd_sdma_rx_no_skb,
           lte_dd_sdma_rx_alloc, sdma, ddrv
  <2>6. CASE ul_dl_watchdog_func \/ ul_dl_watchdog_func_idle \/ bp_read_ack
               \/ UNCHANGED vars
        BY <2>2, <2>6 DEF ul_dl_watchdog_func, ul_dl_watchdog_func_idle, bp_read_ack,
           vars, sdma, ddrv
  <2> QED BY <2>3, <2>4, <2>5, <2>6, InOrderComplete, InOrderSubmit, InOrderPost
             DEF Next
<1> QED BY <1>1, <1>2, DlInvariant, PTL DEF Spec
==============================================================================
