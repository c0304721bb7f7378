------------------------------ MODULE QosAgent ------------------------------
(***************************************************************************)
(* drivers/lte/lte_classifier/lte_qos_agent.c: the PDN table gsQa_lte, its *)
(* bearers and packet filters, and the classifier QA_Cla, which walks the  *)
(* filters of a PDN in the order of precedence.                            *)
(*                                                                         *)
(* A management process writes the messages of the network to the device   *)
(* and runs their handlers; packets are classified in softirqs, between    *)
(* any two sections of a handler that hold mr_lock (which turns interrupts *)
(* off).  A step here is one such section with the unobserved bookkeeping  *)
(* around it: the classifier reads only the list and the PDN address.  The *)
(* filter nodes are cells of a heap, linked by next and prev as in the     *)
(* code; a step through a null or freed pointer, or a loop that never      *)
(* ends, halts the model.  kmalloc(GFP_KERNEL) of a node does not fail.    *)
(*                                                                         *)
(* A filter's contents are the one flow of packets it matches.  Messages   *)
(* are those of a network that keeps to the TFT rules (identifiers unique  *)
(* in a bearer, precedences unique in a PDN); of these, the ones the code  *)
(* cannot take are sent if they are in Beyond.  Responses to the network   *)
(* are left out: no state here depends on them.                            *)
(***************************************************************************)
EXTENDS Integers, SequencesExt, FiniteSetsExt

CONSTANTS
  MAX_PDNS,
  MAX_DEDICATED_BEARER_PER_PDN,
  MAX_FILTERS_PER_TFT,
  Nodes,           \* bound: heap cells for filter nodes
  NULL,
  DefaultIds,      \* EPS bearer ids the network uses for default bearers
  DedicatedIds,    \* and for dedicated ones
  NoId,            \* bearer id 0: a free entry, a packet that is dropped
  Addrs,           \* PDN addresses the network assigns
  NoAddr,          \* the address of a table never used
  Filters,         \* filters of messages: [pfid, prec, dir, flow]
  Flows,           \* flows of packets, numbers from 1
  MaxBatch,        \* bound: filters in one message
  Beyond           \* kinds of messages the code cannot take that are sent: a
                   \* subset of {"release_order", "mixed_replace",
                   \* "default_delete", "default_tft_delete", "no_address",
                   \* "register_again"}

ASSUME QosAgentAssumption ==
  /\ MAX_PDNS \in Nat \ {0}
  /\ MAX_DEDICATED_BEARER_PER_PDN \in Nat \ {0}
  /\ MAX_FILTERS_PER_TFT \in Nat \ {0}
  /\ IsFiniteSet(Nodes) /\ NULL \notin Nodes
  /\ DefaultIds \cap DedicatedIds = {}
  /\ NoId \notin DefaultIds \cup DedicatedIds
  /\ NoAddr \notin Addrs
  /\ \A f \in Filters : /\ f.pfid \in Nat \ {0}
                        /\ f.prec \in 0 .. 254
                        /\ f.dir \in {"DL", "UL", "BI"}
                        /\ f.flow \in Flows
  /\ Flows \subseteq Nat \ {0}
  /\ MaxBatch \in Nat \ {0}

VARIABLES
  tDefaultBearer,        \* [id, num, pf]: u8EpsBearerId (0: table free),
  tDedicatedBearer,      \*   u8NumFilters, tPacketFilters, by PDN (and index)
  u8NumDedicatedBearers,
  u8MatchAll,
  tClassifierTable,      \* heads of the lists
  u8PdnAddress,
  used,                  \* heap: allocated cells
  cell,                  \* heap: contents
  cmd,                   \* the handler that is running
  halted,                \* the kernel oopsed or loops for ever
  net,                   \* the network's bearers before the running message
  goal                   \* and after it

tables == <<tDefaultBearer, tDedicatedBearer, u8NumDedicatedBearers, u8MatchAll,
            u8PdnAddress>>
list == <<tClassifierTable, used, cell, halted>>
vars == <<tables, list, cmd, net, goal>>

Pdns == 0 .. (MAX_PDNS - 1)
Slots == 0 .. (MAX_FILTERS_PER_TFT - 1)
NodeNb == Cardinality(Nodes)
MATCH_ALL == 0
DEFAULT == -1

FreeCell == [eps |-> NoId, pfid |-> 0, prec |-> 0, dir |-> "none", flow |-> -1,
             next |-> NULL, prev |-> NULL]
EmptyTft == [id |-> NoId, num |-> 0, pf |-> [j \in Slots |-> NULL]]
NoCmd == [op |-> "none", ct |-> 0, idx |-> DEFAULT, b |-> NoId, fs |-> << >>,
          pfids |-> {}]

Init ==
  /\ tDefaultBearer = [ct \in Pdns |-> EmptyTft]
  /\ tDedicatedBearer = [ct \in Pdns |->
       [i \in 0 .. (MAX_DEDICATED_BEARER_PER_PDN - 1) |-> EmptyTft]]
  /\ u8NumDedicatedBearers = [ct \in Pdns |-> 0]
  /\ u8MatchAll = [ct \in Pdns |-> FALSE]
  /\ tClassifierTable = [ct \in Pdns |-> NULL]
  /\ u8PdnAddress = [ct \in Pdns |-> NoAddr]
  /\ used = {}
  /\ cell = [n \in Nodes |-> FreeCell]
  /\ cmd = NoCmd
  /\ halted = FALSE
  /\ net = {}
  /\ goal = {}

----------------------------------------------------------------------------
(* The list of a PDN and the heap as one value m, for the operations below.*)
Mem(ct) == [used |-> used, cell |-> cell, head |-> tClassifierTable[ct],
            ok |-> TRUE]

Halt(m) == [m EXCEPT !.ok = FALSE]

SetNext(m, n, x) ==
  IF n \in m.used THEN [m EXCEPT !.cell[n].next = x] ELSE Halt(m)

SetPrev(m, n, x) ==
  IF n \in m.used THEN [m EXCEPT !.cell[n].prev = x] ELSE Halt(m)

kfree(m, n) ==
  IF n \in m.used THEN [m EXCEPT !.used = @ \ {n}, !.cell[n] = FreeCell]
                  ELSE Halt(m)

(* The k-th node from the head; NULL once the list has ended.              *)
Walk(m) ==
  LET at[k \in 0 .. NodeNb] ==
        IF k = 0 THEN m.head
        ELSE IF at[k - 1] \in m.used THEN m.cell[at[k - 1]].next ELSE NULL
  IN  at

(* The nodes of a list, in order, and whether the list ends.               *)
NodesOf(m) == {Walk(m)[k] : k \in 0 .. NodeNb} \ {NULL}
Ends(m) == Walk(m)[NodeNb] = NULL

(* Mutant: the node after the new one keeps its back pointer.              *)
LinkForward(m, n, q, p) ==
  LET m1 == [m EXCEPT !.cell[n].next = p, !.cell[n].prev = q]
  IN  IF q = NULL THEN [m1 EXCEPT !.head = n] ELSE SetNext(m1, q, n)

(* Node n goes between q and p; without q it becomes the head.             *)
Link(m, n, q, p) ==
  LET m1 == [m EXCEPT !.cell[n].next = p, !.cell[n].prev = q]
      m2 == IF q = NULL THEN [m1 EXCEPT !.head = n] ELSE SetNext(m1, q, n)
  IN  IF p = NULL THEN m2 ELSE SetPrev(m2, p, n)

(* The search for the place of a filter stops at the end, or at a node     *)
(* whose precedence value is not smaller.                                  *)
Stops(m, prec, k) ==
  Walk(m)[k] = NULL \/ prec <= m.cell[Walk(m)[k]].prec

(* Insertion of n at its place.  An empty list, or a head that does not    *)
(* come before n, is the case k = 0.  A search that never stops halts.     *)
InsertSorted(m, n, prec) ==
  IF \E k \in 0 .. NodeNb : Stops(m, prec, k)
  THEN LET k == Min({i \in 0 .. NodeNb : Stops(m, prec, i)})
       IN  Link(m, n, IF k = 0 THEN NULL ELSE Walk(m)[k - 1], Walk(m)[k])
  ELSE Halt(m)

(* Mutant: the head is taken to have a successor.                          *)
UnlinkUntested(m, n) ==
  LET nx == m.cell[n].next
      pv == m.cell[n].prev
  IN  IF n = m.head THEN SetPrev([m EXCEPT !.head = nx], nx, NULL)
      ELSE IF nx = NULL THEN SetNext(m, pv, NULL)
      ELSE SetPrev(SetNext(m, pv, nx), nx, pv)

(* The unlinking code of Qa_Delete_Filter, Qa_Delete_Filter_Replace and    *)
(* Qa_Delete_Default_Bearer_MatchAll_TFT.                                  *)
Unlink(m, n) ==
  LET nx == m.cell[n].next
      pv == m.cell[n].prev
  IN  IF n = m.head
      THEN LET m1 == [m EXCEPT !.head = nx]
           IN  IF nx = NULL THEN m1 ELSE SetPrev(m1, nx, NULL)
      ELSE IF nx = NULL THEN SetNext(m, pv, NULL)
      ELSE SetPrev(SetNext(m, pv, nx), nx, pv)

(* The same in Qa_Bearer_Delete, which does not test for a last head.      *)
UnlinkOfBearer(m, n) ==
  IF n = m.head /\ m.cell[n].next = NULL THEN Halt(m) ELSE Unlink(m, n)

(* A handler's section ends: the lists are what m says.                    *)
Commit(ct, m) ==
  /\ used' = m.used
  /\ cell' = m.cell
  /\ tClassifierTable' = [tClassifierTable EXCEPT ![ct] = m.head]
  /\ halted' = ~m.ok

----------------------------------------------------------------------------
(* Bearers.  idx is an index of tDedicatedBearer, or DEFAULT.              *)
TftOf(ct, idx) ==
  IF idx = DEFAULT THEN tDefaultBearer[ct] ELSE tDedicatedBearer[ct][idx]

SetTft(ct, idx, t) ==
  IF idx = DEFAULT
  THEN /\ tDefaultBearer' = [tDefaultBearer EXCEPT ![ct] = t]
       /\ UNCHANGED tDedicatedBearer
  ELSE /\ tDedicatedBearer' = [tDedicatedBearer EXCEPT ![ct][idx] = t]
       /\ UNCHANGED tDefaultBearer

(* find_classifier_table: the first table with this default bearer.        *)
Tables(b) == {ct \in Pdns : tDefaultBearer[ct].id = b}

(* The search for a dedicated bearer looks at the first                    *)
(* u8NumDedicatedBearers entries, and ends behind them if it fails.        *)
BearerIndex(ct, b) ==
  Min({i \in 0 .. (u8NumDedicatedBearers[ct] - 1) : tDedicatedBearer[ct][i].id = b}
        \cup {u8NumDedicatedBearers[ct]})

(* The slots of a TFT that hold one of these filters.                      *)
SlotsWith(t, pfids) == {j \in Slots : t.pf[j] # NULL /\ cell[t.pf[j]].pfid \in pfids}

(* The handler returns: the network's message has been carried out.        *)
Done == cmd' = NoCmd /\ net' = goal /\ UNCHANGED goal

Idle == cmd = NoCmd /\ ~halted

----------------------------------------------------------------------------
(* The match-all filter of a new default bearer is the whole list.  The    *)
(* code leaves its identifier as kmalloc found it (0 here): nothing reads  *)
(* it while messages name filters of their bearer only.  w is what the     *)
(* table then has for the PDN's address a.  Whatever a table in use had is *)
(* written over, not freed.                                                *)
NewPdn(ct, b, a, w) ==
  /\ \E n \in Nodes \ used :
       /\ tDefaultBearer' = [tDefaultBearer EXCEPT ![ct] =
            [id |-> b, num |-> 1, pf |-> [@.pf EXCEPT ![0] = n]]]
       /\ tClassifierTable' = [tClassifierTable EXCEPT ![ct] = n]
       /\ used' = used \cup {n}
       /\ cell' = [cell EXCEPT ![n] = [FreeCell EXCEPT !.eps = b, !.prec = 255,
                                         !.dir = "BI", !.flow = MATCH_ALL]]
  /\ u8NumDedicatedBearers' = [u8NumDedicatedBearers EXCEPT ![ct] = 0]
  /\ u8MatchAll' = [u8MatchAll EXCEPT ![ct] = TRUE]
  /\ u8PdnAddress' = [u8PdnAddress EXCEPT ![ct] = w]
  /\ goal' = net \cup {[id |-> b, pdn |-> b, addr |-> a, tft |-> {}]}
  /\ net' = goal'
  /\ UNCHANGED <<tDedicatedBearer, cmd, halted>>

(* The network gives a new PDN an id and an address that are not in use.   *)
Fresh(b, a) ==
  /\ b \notin {x.id : x \in net}
  /\ a \notin {x.addr : x \in net}

(* Mutant: the free tables are searched from the end.                      *)
LastFreeTable == Max(Tables(NoId))

FreeTable == Min(Tables(NoId))

(* ESM_PDN_CONN_CNF: the first free table, if there is one.                *)
QA_Process_PdnConn_Cnf(b, a) ==
  /\ Idle
  /\ Fresh(b, a)
  /\ Tables(NoId) # {}
  /\ NewPdn(FreeTable, b, a, a)

(* REGISTER_CNF, or the allocation of a default bearer: always table 0,    *)
(* free or not (register_again).  A message without an address leaves the  *)
(* one the table had (no_address), perhaps that of a PDN long released.    *)
QA_ProcessRegConf_Lte(b, a) ==
  /\ Idle
  /\ Fresh(b, a)
  /\ 0 \in Tables(NoId) \/ "register_again" \in Beyond
  /\ \E w \in {a} \cup (IF "no_address" \in Beyond THEN {u8PdnAddress[0]} ELSE {}) :
       NewPdn(0, b, a, w)

----------------------------------------------------------------------------
(* What the network may ask for: sequences of filters of one message, ...  *)
Batches ==
  {fs \in UNION {[1 .. n -> Filters] : n \in 1 .. MaxBatch} :
     \A i, j \in DOMAIN fs : i # j => /\ fs[i].pfid # fs[j].pfid
                                      /\ fs[i].prec # fs[j].prec}

Pfids(S) == {f.pfid : f \in S}
Precs(S) == {f.prec : f \in S}

(* ... with precedences no other filter of the PDN has, kept being the     *)
(* filters of the bearer that stay.                                        *)
PrecsFree(x, fs, kept) ==
  Precs(ToSet(fs)) \cap
    Precs(kept \cup UNION {y.tft : y \in {z \in net : z.pdn = x.pdn /\ z # x}})
      = {}

(* Bound: filters are sent while there are cells for them.                 *)
CellsFor(fs) == Len(fs) <= Cardinality(Nodes \ used)

Goal(x, tft) == goal' = (net \ {x}) \cup {[x EXCEPT !.tft = tft]}

(* QA_Process_Bearer_Mod begins: the table is found by the linked bearer   *)
(* and a handler runs for the bearer at idx.                               *)
Begin(op, ct, idx, b, fs, pfids) ==
  cmd' = [op |-> op, ct |-> ct, idx |-> idx, b |-> b, fs |-> fs, pfids |-> pfids]

(* CREATE_NEW_TFT for a dedicated bearer: it takes the next entry.         *)
create_new_tft(d, b, fs) ==
  /\ Idle
  /\ d \in net /\ d.id = d.pdn
  /\ b \notin {x.id : x \in net}
  /\ CellsFor(fs)
  /\ PrecsFree(d, fs, d.tft)
  /\ \E ct \in Tables(d.id) :
       LET i == u8NumDedicatedBearers[ct]
       IN  /\ i < MAX_DEDICATED_BEARER_PER_PDN
           /\ tDedicatedBearer' = [tDedicatedBearer EXCEPT ![ct][i].id = b]
           /\ u8NumDedicatedBearers' = [u8NumDedicatedBearers EXCEPT ![ct] = i + 1]
           /\ Begin("add", ct, i, b, fs, {})
  /\ goal' = net \cup {[id |-> b, pdn |-> d.id, addr |-> d.addr, tft |-> ToSet(fs)]}
  /\ UNCHANGED <<tDefaultBearer, u8MatchAll, u8PdnAddress, list,
                 net>>

IndexOf(x, ct) == IF x.id = x.pdn THEN DEFAULT ELSE BearerIndex(ct, x.id)

(* ADD_PKT_FLTR (and CREATE_NEW_TFT for the default bearer).  The first    *)
(* filters of a default bearer replace its match-all filter.               *)
add_pkt_fltr(x, fs) ==
  /\ Idle
  /\ x \in net
  /\ CellsFor(fs)
  /\ Pfids(ToSet(fs)) \cap Pfids(x.tft) = {}
  /\ PrecsFree(x, fs, x.tft)
  /\ \E ct \in Tables(x.pdn) :
       Begin(IF x.id = x.pdn /\ u8MatchAll[ct] THEN "matchall" ELSE "add",
             ct, IndexOf(x, ct), x.id, fs, {})
  /\ Goal(x, x.tft \cup ToSet(fs))
  /\ UNCHANGED <<tables, list, net>>

(* REPLACE_PKT_FLTR.  A message that names a filter the bearer does not    *)
(* have cannot be handled and changes nothing for the network.             *)
replace_pkt_fltr(x, fs) ==
  LET gone == {f \in x.tft : f.pfid \in Pfids(ToSet(fs))}
      unknown == Pfids(ToSet(fs)) \ Pfids(x.tft)
  IN  /\ Idle
      /\ x \in net
      /\ x.tft # {}
      /\ unknown \in {{}, Pfids(ToSet(fs))} \/ "mixed_replace" \in Beyond
      /\ ToSet(fs) \cap x.tft = {}
      /\ PrecsFree(x, fs, x.tft \ gone)
      /\ \E ct \in Tables(x.pdn) : Begin("replace", ct, IndexOf(x, ct), x.id, fs, {})
      /\ IF unknown = {} THEN Goal(x, (x.tft \ gone) \cup ToSet(fs)) ELSE UNCHANGED goal
      /\ UNCHANGED <<tables, list, net>>

(* DELETE_PKT_FLTR.                                                        *)
delete_pkt_fltr(x, pfids) ==
  /\ Idle
  /\ x \in net
  /\ pfids # {}
  /\ x.id # x.pdn \/ "default_delete" \in Beyond
  /\ \E ct \in Tables(x.pdn) : Begin("delete", ct, IndexOf(x, ct), x.id, << >>, pfids)
  /\ Goal(x, {f \in x.tft : f.pfid \notin pfids})
  /\ UNCHANGED <<tables, list, net>>

----------------------------------------------------------------------------
(* Before the first filter of a default bearer its match-all filter goes.  *)
Qa_Delete_Default_Bearer_MatchAll_TFT ==
  LET ct == cmd.ct
      n == tDefaultBearer[ct].pf[0]
  IN  /\ ~halted
      /\ cmd.op = "matchall"
      /\ Commit(ct, kfree(Unlink(Mem(ct), n), n))
      /\ tDefaultBearer' = [tDefaultBearer EXCEPT ![ct].pf[0] = NULL, ![ct].num = 0]
      /\ u8MatchAll' = [u8MatchAll EXCEPT ![ct] = FALSE]
      /\ cmd' = [cmd EXCEPT !.op = "add"]
      /\ UNCHANGED <<tDedicatedBearer, u8NumDedicatedBearers, u8PdnAddress, net,
                     goal>>

(* One turn of Qa_Add_SortTFT: a new node is linked at its place and put   *)
(* into the first free slot.  Without a free slot the loop is left, the    *)
(* node staying in the list.                                               *)
Qa_Add_SortTFT ==
  LET ct == cmd.ct
      t == TftOf(ct, cmd.idx)
      f == Head(cmd.fs)
      free == {j \in Slots : t.pf[j] = NULL}
  IN  /\ ~halted
      /\ cmd.op = "add"
      /\ \E n \in Nodes \ used :
           LET m == [Mem(ct) EXCEPT !.used = @ \cup {n},
                       !.cell[n] = [FreeCell EXCEPT !.pfid = f.pfid, !.prec = f.prec,
                                      !.dir = f.dir, !.flow = f.flow, !.eps = cmd.b]]
           IN  /\ Commit(ct, InsertSorted(m, n, f.prec))
               /\ IF free = {} THEN UNCHANGED <<tDefaultBearer, tDedicatedBearer>>
                  ELSE SetTft(ct, cmd.idx,
                              [t EXCEPT !.pf[Min(free)] = n, !.num = @ + 1])
      /\ IF free = {} \/ Len(cmd.fs) = 1
         THEN Done
         ELSE /\ cmd' = [cmd EXCEPT !.fs = Tail(@)]
              /\ UNCHANGED <<net, goal>>
      /\ UNCHANGED <<u8NumDedicatedBearers, u8MatchAll, u8PdnAddress>>

(* One turn of the loop of Qa_Delete_Filter_Replace: a filter of the       *)
(* message is taken out of the list and overwritten.                       *)
Overwrite(m, t, b, f) ==
  LET n == t.pf[Min(SlotsWith(t, {f.pfid}))]
  IN  [Unlink(m, n) EXCEPT !.cell[n] =
         [FreeCell EXCEPT !.pfid = f.pfid, !.prec = f.prec, !.dir = f.dir,
            !.flow = f.flow, !.eps = b]]

Overwritten(m, t, b, fs) ==
  LET after[k \in 0 .. Len(fs)] ==
        IF k = 0 THEN m ELSE Overwrite(after[k - 1], t, b, fs[k])
  IN  after[Len(fs)]

(* Qa_Delete_Filter_Replace.  First it only looks: a filter that is not    *)
(* there stops the replacement.                                            *)
Qa_Delete_Filter_Replace ==
  LET ct == cmd.ct
      t == TftOf(ct, cmd.idx)
  IN  /\ ~halted
      /\ cmd.op = "replace"
      /\ IF \A i \in DOMAIN cmd.fs : SlotsWith(t, {cmd.fs[i].pfid}) # {}
         THEN Commit(ct, Overwritten(Mem(ct), t, cmd.b, cmd.fs))
         ELSE UNCHANGED list
      /\ cmd' = [cmd EXCEPT !.op = "sort"]
      /\ UNCHANGED <<tables, net, goal>>

(* One turn of the loop of Qa_Replace_SortTFT: a filter that is found is   *)
(* linked at its place, or left out if it has exactly the precedence of    *)
(* the head.  temp1 outlives its turn of the loop.                         *)
Resort(s, t, f) ==
  LET js == SlotsWith(t, {f.pfid})
      n == IF js = {} THEN s.temp1 ELSE t.pf[Min(js)]
      atHead == s.m.head # NULL /\ f.prec = s.m.cell[s.m.head].prec
  IN  [temp1 |-> n,
       m |-> IF n = NULL \/ atHead THEN s.m ELSE InsertSorted(s.m, n, f.prec)]

Resorted(m, t, fs) ==
  LET turn[k \in 0 .. Len(fs)] ==
        IF k = 0 THEN [temp1 |-> NULL, m |-> m] ELSE Resort(turn[k - 1], t, fs[k])
  IN  turn[Len(fs)].m

(* Qa_Replace_SortTFT, run whether or not the replacement was.             *)
Qa_Replace_SortTFT ==
  LET ct == cmd.ct
  IN  /\ ~halted
      /\ cmd.op = "sort"
      /\ Commit(ct, Resorted(Mem(ct), TftOf(ct, cmd.idx), cmd.fs))
      /\ Done
      /\ UNCHANGED tables

(* The memset of a filter: its links stay.                                 *)
Cleared(m, n) ==
  IF n \in m.used
  THEN [m EXCEPT !.cell[n] = [FreeCell EXCEPT !.next = m.cell[n].next,
                                               !.prev = m.cell[n].prev]]
  ELSE Halt(m)

(* A match-all filter at the end of the list.                              *)
Create_Match_All_Filter(m, n) ==
  InsertSorted([m EXCEPT !.used = @ \cup {n},
                  !.cell[n] = [FreeCell EXCEPT !.eps = cmd.b, !.prec = 255,
                                 !.dir = "BI", !.flow = MATCH_ALL]], n, 256)

(* Mutant: the node of a deleted filter is not freed.                      *)
DeletedNotFreed(m, n) == Unlink(m, n)

Deleted(m, n) == kfree(Unlink(m, n), n)

(* One turn of Qa_Delete_Filter that finds a filter to delete.  For the    *)
(* default bearer the memset meets the filter that dedicated bearer 0 has  *)
(* in the same slot, and the last filter gives way to a match-all filter.  *)
Qa_Delete_Filter ==
  LET ct == cmd.ct
      t == TftOf(ct, cmd.idx)
      j == Min(SlotsWith(t, cmd.pfids))
      n == t.pf[j]
      m1 == IF cmd.idx = DEFAULT
            THEN Cleared(Mem(ct), tDedicatedBearer[ct][0].pf[j]) ELSE Mem(ct)
      m2 == Deleted(m1, n)
      last == cmd.idx = DEFAULT /\ t.num = 1
      gone == [t EXCEPT !.pf[j] = NULL, !.num = @ - 1]
  IN  /\ ~halted
      /\ cmd.op = "delete"
      /\ SlotsWith(t, cmd.pfids) # {}
      /\ Commit(ct, IF last THEN Create_Match_All_Filter(m2, n) ELSE m2)
      /\ SetTft(ct, cmd.idx, IF last THEN [gone EXCEPT !.pf[0] = n] ELSE gone)
      /\ u8MatchAll' = [u8MatchAll EXCEPT ![ct] = @ \/ last]
      /\ UNCHANGED <<u8NumDedicatedBearers, u8PdnAddress, cmd, net, goal>>

(* The loop of Qa_Delete_Filter ends.                                      *)
Qa_Delete_Filter_end ==
  /\ ~halted
  /\ cmd.op = "delete"
  /\ SlotsWith(TftOf(cmd.ct, cmd.idx), cmd.pfids) = {}
  /\ Done
  /\ UNCHANGED <<tables, list>>

----------------------------------------------------------------------------
(* DELETE_EXISTING_TFT is handed to Qa_Bearer_Delete whatever bearer it    *)
(* names.  Of a default bearer the network then has only dropped the TFT   *)
(* (default_tft_delete); its PDN has no table any more, so that messages   *)
(* for it fail in find_classifier_table.  A dedicated bearer without TFT   *)
(* gets no packets and is for the classifier as good as released.          *)
AfterTftDelete(d) ==
  IF "default_tft_delete" \in Beyond /\ d.tft # {}
  THEN {(net \ {d}) \cup {[d EXCEPT !.tft = {}]}} ELSE {}

(* Qa_Bearer_Delete of a default bearer (a release, its confirmation, a    *)
(* detach, or DELETE_EXISTING_TFT): all of the PDN goes in one section,    *)
(* the address and the match-all flag of the table stay.                   *)
Qa_Bearer_Delete_default(d) ==
  /\ Idle
  /\ d \in net /\ d.id = d.pdn
  /\ \E ct \in Tables(d.id) :
       /\ tDefaultBearer' = [tDefaultBearer EXCEPT ![ct] = EmptyTft]
       /\ tDedicatedBearer' = [tDedicatedBearer EXCEPT ![ct] =
            [i \in DOMAIN @ |-> IF i < u8NumDedicatedBearers[ct] THEN EmptyTft
                                                                 ELSE @[i]]]
       /\ u8NumDedicatedBearers' = [u8NumDedicatedBearers EXCEPT ![ct] = 0]
       /\ Commit(ct, [used |-> used \ NodesOf(Mem(ct)),
                      cell |-> [n \in Nodes |-> IF n \in NodesOf(Mem(ct))
                                                THEN FreeCell ELSE cell[n]],
                      head |-> NULL,
                      ok |-> Ends(Mem(ct))])
  /\ goal' \in {{x \in net : x.pdn # d.id}} \cup AfterTftDelete(d)
  /\ net' = goal'
  /\ UNCHANGED <<u8MatchAll, u8PdnAddress, cmd>>

(* Qa_Bearer_Delete of a dedicated bearer (a release, its confirmation, or *)
(* DELETE_EXISTING_TFT) looks it up; not found, nothing is done.           *)
Qa_Bearer_Delete(x) ==
  /\ Idle
  /\ x \in net /\ x.id # x.pdn
  /\ goal' = net \ {x}
  /\ \E ct \in Tables(x.pdn) :
       LET i == BearerIndex(ct, x.id)
       IN  /\ i + 1 = u8NumDedicatedBearers[ct] \/ "release_order" \in Beyond
           /\ IF i = u8NumDedicatedBearers[ct]
              THEN net' = goal' /\ UNCHANGED cmd
              ELSE Begin("release", ct, i, x.id, << >>, {}) /\ UNCHANGED net
  /\ UNCHANGED <<tables, list>>

(* One turn of its loop over the recorded filters, ...                     *)
Qa_Bearer_Delete_filter ==
  LET t == TftOf(cmd.ct, cmd.idx)
      held == {j \in Slots : t.pf[j] # NULL}
      n == t.pf[Min(held)]
  IN  /\ ~halted
      /\ cmd.op = "release"
      /\ held # {}
      /\ Commit(cmd.ct, kfree(UnlinkOfBearer(Mem(cmd.ct), n), n))
      /\ SetTft(cmd.ct, cmd.idx, [t EXCEPT !.pf[Min(held)] = NULL])
      /\ UNCHANGED <<u8NumDedicatedBearers, u8MatchAll, u8PdnAddress, cmd, net, goal>>

(* Mutant: the entry of a released bearer is not cleared.                  *)
EntryStays(t) == t

(* ... and its end: the entry is cleared and counted out.  The entries     *)
(* behind it are not moved.                                                *)
Entry(t) == EmptyTft

Qa_Bearer_Delete_end ==
  LET t == TftOf(cmd.ct, cmd.idx)
  IN  /\ ~halted
      /\ cmd.op = "release"
      /\ \A j \in Slots : t.pf[j] = NULL
      /\ SetTft(cmd.ct, cmd.idx, Entry(t))
      /\ u8NumDedicatedBearers' = [u8NumDedicatedBearers EXCEPT ![cmd.ct] = @ - 1]
      /\ Done
      /\ UNCHANGED <<u8MatchAll, u8PdnAddress, list>>

Next ==
  \/ \E b \in DefaultIds, a \in Addrs : \/ QA_Process_PdnConn_Cnf(b, a)
                                       \/ QA_ProcessRegConf_Lte(b, a)
  \/ \E d \in net, b \in DedicatedIds, fs \in Batches : create_new_tft(d, b, fs)
  \/ \E x \in net, fs \in Batches : \/ add_pkt_fltr(x, fs)
                                   \/ replace_pkt_fltr(x, fs)
  \/ \E x \in net : \E pfids \in SUBSET Pfids(x.tft) : delete_pkt_fltr(x, pfids)
  \/ \E x \in net : Qa_Bearer_Delete_default(x) \/ Qa_Bearer_Delete(x)
  \/ Qa_Delete_Default_Bearer_MatchAll_TFT
  \/ Qa_Add_SortTFT
  \/ Qa_Delete_Filter_Replace
  \/ Qa_Replace_SortTFT
  \/ Qa_Delete_Filter
  \/ Qa_Delete_Filter_end
  \/ Qa_Bearer_Delete_filter
  \/ Qa_Bearer_Delete_end

Spec == Init /\ [][Next]_vars

----------------------------------------------------------------------------
(* Mutant: the last table with the address.                                *)
LastTable(a) ==
  LET found == {ct \in Pdns : u8PdnAddress[ct] = a}
  IN  IF found = {} THEN 0 ELSE Max(found)

(* QA_Cla, run by a softirq: the table of the packet's source address, the *)
(* first in which it is found, then the first uplink filter that matches.  *)
Table(a) ==
  LET found == {ct \in Pdns : u8PdnAddress[ct] = a}
  IN  IF found = {} THEN 0 ELSE Min(found)

(* The bearer of a packet; NoId drops it.                                  *)
QA_Cla(a, f) ==
  LET m == Mem(Table(a))
      At(k) == cell[Walk(m)[k]]
      hits == {k \in 0 .. NodeNb : /\ Walk(m)[k] # NULL
                                   /\ At(k).dir \in {"UL", "BI"}
                                   /\ At(k).flow \in {MATCH_ALL, f}}
  IN  IF hits # {} THEN At(Min(hits)).eps ELSE IF Ends(m) THEN NoId ELSE "never ends"

----------------------------------------------------------------------------
(* Types of the tables, the heap and the network's view.                   *)
Tft == [id : DefaultIds \cup DedicatedIds \cup {NoId}, num : 0 .. MAX_FILTERS_PER_TFT,
        pf : [Slots -> Nodes \cup {NULL}]]

(* The counts of bearers and filters stay within the arrays, whatever the  *)
(* handlers add and delete.                                                *)
TypeOK ==
  /\ tDefaultBearer \in [Pdns -> Tft]
  /\ tDedicatedBearer \in [Pdns -> [0 .. (MAX_DEDICATED_BEARER_PER_PDN - 1) -> Tft]]
  /\ u8NumDedicatedBearers \in [Pdns -> 0 .. MAX_DEDICATED_BEARER_PER_PDN]
  /\ u8MatchAll \in [Pdns -> BOOLEAN]
  /\ tClassifierTable \in [Pdns -> Nodes \cup {NULL}]
  /\ u8PdnAddress \in [Pdns -> Addrs \cup {NoAddr}]
  /\ used \subseteq Nodes
  /\ \A n \in Nodes \ used : cell[n] = FreeCell
  /\ halted \in BOOLEAN
  /\ cmd.op \in {"none", "matchall", "add", "replace", "sort", "delete", "release"}

(* No handler follows a null or freed pointer or loops for ever.  In       *)
(* particular Qa_Bearer_Delete, which takes the successor of the list's    *)
(* head for granted, never meets a list of one filter.                     *)
NoHalt == ~halted

(* Whenever a softirq can run QA_Cla, the list of every PDN ends, its      *)
(* nodes are allocated and linked both ways, and their precedences ascend. *)
ListSound ==
  \A ct \in Pdns :
    LET m == Mem(ct)
    IN  /\ Ends(m)
        /\ NodesOf(m) \subseteq used
        /\ \A n \in NodesOf(m) :
             LET nx == cell[n].next
             IN  /\ n = m.head => cell[n].prev = NULL
                 /\ nx # NULL => cell[nx].prev = n /\ cell[n].prec < cell[nx].prec

(* The nodes the bearers of a PDN have on record.                          *)
Recorded(ct) ==
  {t.pf[j] : t \in {tDefaultBearer[ct]} \cup
                     {tDedicatedBearer[ct][i] : i \in 0 .. (u8NumDedicatedBearers[ct] - 1)},
             j \in Slots} \ {NULL}

(* A filter is in a PDN's list if and only if a bearer of the PDN has it   *)
(* on record, and nothing else is allocated: no handler leaves a filter    *)
(* behind that nobody can delete.  While filters are replaced they are on  *)
(* record but in no list.                                                  *)
NodesAccounted ==
  cmd.op # "sort" =>
    /\ \A ct \in Pdns : NodesOf(Mem(ct)) = Recorded(ct)
    /\ used = UNION {Recorded(ct) : ct \in Pdns}

(* "Before modifying the table, make sure the request can be handled"      *)
(* (Qa_Replace_Filters): a replacement that names a filter the bearer does *)
(* not have is refused, and leaves the lists as they were.                 *)
RefusedUnmodified ==
  [][cmd.op \in {"replace", "sort"} /\ goal = net => UNCHANGED list]_vars

(* A packet finds the table of its own PDN: the address a released PDN     *)
(* leaves in a free table is never in front of the table of the PDN that   *)
(* has the address now.                                                    *)
AddressFindsPdn ==
  \A x \in net : tDefaultBearer[Table(x.addr)].id = x.pdn

(* The filters in force for a bearer: a default bearer without any takes   *)
(* every packet.                                                           *)
InForce(x) ==
  IF x.id = x.pdn /\ x.tft = {}
  THEN {[pfid |-> 0, prec |-> 255, dir |-> "BI", flow |-> MATCH_ALL]} ELSE x.tft

(* By the TFT rules, the filter that decides about a flow, and its bearer. *)
Winner(bearers, a, f) ==
  LET matches(x) == {[id |-> x.id, pf |-> g] :
                       g \in {h \in InForce(x) : /\ h.dir # "DL"
                                                /\ h.flow \in {MATCH_ALL, f}}}
      all == UNION {matches(x) : x \in {y \in bearers : y.addr = a}}
  IN  {w \in all : \A v \in all : w.pf.prec <= v.pf.prec}

(* A packet of a PDN goes to the bearer the installed filters name, also   *)
(* in the middle of a message that does not concern it: neither the order  *)
(* of the list, nor filters of released bearers, nor the address another   *)
(* PDN left behind in its table misdirect it.                              *)
ClassifiesAsInstalled ==
  \A x \in net, f \in Flows :
    LET w == Winner(net, x.addr, f)
    IN  w = Winner(goal, x.addr, f) =>
          QA_Cla(x.addr, f) = IF w = {} THEN NoId ELSE (CHOOSE h \in w : TRUE).id
=============================================================================
