--------------------------- MODULE QosAgentProofs ---------------------------
(***************************************************************************)
(* The QoS agent, for every number of PDNs, bearers, filters and cells.    *)
(*                                                                         *)
(* Part one: a packet finds the table of its own PDN, whatever messages    *)
(* about filters and dedicated bearers are in Beyond: of what goes wrong   *)
(* with those, nothing touches the PDN tables.  Registrations must bring   *)
(* an address and find table 0 free, and no TFT of a default bearer may be *)
(* deleted as a whole (PdnsByTheRules): each of these takes a live PDN's   *)
(* table away or gives it a wrong address.                                 *)
(*                                                                         *)
(* Part two: linked lists in the order of precedence, as values: what      *)
(* Link, Unlink, InsertSorted and Walk do to and find in them.             *)
(*                                                                         *)
(* Part three: the lists hold what the bearers record, the bearers what    *)
(* the network has asked for, and so packets are classified as the         *)
(* installed filters say.  This is for the messages the code can take      *)
(* (Beyond = {}): none of the six kinds that QosAgent lists for Beyond.    *)
(* The runs QosReleaseOrder, QosDefaultDelete and QosMixedReplace show     *)
(* that it fails for others.                                               *)
(***************************************************************************)
EXTENDS QosAgent, FiniteSetTheorems, WellFoundedInduction, TLAPS

(* No message takes a live PDN's table away or leaves it another address.  *)
PdnsByTheRules ==
  Beyond \cap {"no_address", "register_again", "default_tft_delete"} = {}

(* A table in use.                                                         *)
Live(ct) == tDefaultBearer[ct].id # NoId

(* Types of the entries; counts need not be in range here.                 *)
Table_pf == [Slots -> Nodes \cup {NULL}]
Tfts(ids) == [id : ids, num : Int, pf : Table_pf]
Ids == DefaultIds \cup DedicatedIds \cup {NoId}

(* The shapes of what a handler writes to the tables.  The entry of a      *)
(* default bearer is no dedicated one's and is not released as such.       *)
Shapes ==
  /\ tDefaultBearer \in [Pdns -> Tfts(Ids)]
  /\ u8PdnAddress = [ct \in Pdns |-> u8PdnAddress[ct]]
  /\ cmd = [op |-> cmd.op, ct |-> cmd.ct, idx |-> cmd.idx, b |-> cmd.b,
            fs |-> cmd.fs, pfids |-> cmd.pfids]
  /\ cmd.ct \in Pdns
  /\ cmd.op = "release" => cmd.idx # DEFAULT
  /\ u8NumDedicatedBearers \in [Pdns -> Int]

(* The bearers the network knows and the tables in use, with their default *)
(* bearers and addresses, are about the same PDNs.                         *)
AgreeOn(bearers, tfts, addrs) ==
  /\ \A x \in bearers :
       /\ x = [id |-> x.id, pdn |-> x.pdn, addr |-> x.addr, tft |-> x.tft]
       /\ x.pdn # NoId
       /\ \E ct \in Pdns : tfts[ct].id = x.pdn /\ addrs[ct] = x.addr
  /\ \A ct \in Pdns : tfts[ct].id # NoId =>
       \E x \in bearers : /\ x.id = tfts[ct].id
                          /\ x.pdn = tfts[ct].id
                          /\ x.addr = addrs[ct]

(* The same of the tables as they are.                                     *)
Agree(bearers) == AgreeOn(bearers, tDefaultBearer, u8PdnAddress)

(* No two tables are of one PDN, and no table in front of a live one, live *)
(* or free, has its address.                                               *)
AddressesApart ==
  \A c, d \in Pdns : c # d /\ Live(c) =>
    /\ tDefaultBearer[d].id # tDefaultBearer[c].id
    /\ d < c => u8PdnAddress[d] # u8PdnAddress[c]

(* The inductive invariant.  A PDN takes the first free table, so that the *)
(* tables in front of it are live, with other addresses; they keep those   *)
(* when they become free, and get an address again only when no live PDN   *)
(* has it.                                                                 *)
IInv == Shapes /\ Agree(net) /\ Agree(goal) /\ AddressesApart

----------------------------------------------------------------------------
(* A set of naturals has a smallest element.                               *)
LEMMA FirstOf ==
  ASSUME NEW S, S \subseteq Nat, S # {}
  PROVE  Min(S) \in S /\ \A i \in S : Min(S) <= i
<1>1. PICK x \in S : \A y \in S : ~ (<<y, x>> \in OpToRel(<, Nat))
  BY WFMin, NatLessThanWellFounded, Zenon
<1>2. \A i, j \in Nat : i < j => <<i, j>> \in OpToRel(<, Nat)
  BY DEF OpToRel
<1>3. \A y \in S : ~ (y < x)
  BY <1>1, <1>2, Zenon
<1>4. \A y \in S : x <= y
  BY <1>3
<1> QED
  BY <1>4 DEF Min

(* The first of some slots is one of them.                                 *)
LEMMA FirstSlot ==
  ASSUME NEW S, S \subseteq Slots, S # {}
  PROVE  Min(S) \in Slots
<1>1. S \subseteq Nat
  BY QosAgentAssumption DEF Slots
<1> QED
  BY <1>1, FirstOf

(* A dedicated bearer that is found has an index.                          *)
LEMMA FoundIndex ==
  ASSUME NEW ct \in Pdns, NEW b, u8NumDedicatedBearers \in [Pdns -> Int],
         BearerIndex(ct, b) # u8NumDedicatedBearers[ct]
  PROVE  BearerIndex(ct, b) # DEFAULT
<1> DEFINE k == u8NumDedicatedBearers[ct]
           S == {i \in 0 .. (k - 1) : tDedicatedBearer[ct][i].id = b} \cup {k}
<1>1. BearerIndex(ct, b) = Min(S)
  BY DEF BearerIndex
<1>2. k \in Int
  OBVIOUS
<1>3. CASE k < 0
  <2>1. S = {k}
    BY <1>2, <1>3
  <2>2. Min({k}) = k
    BY <1>2 DEF Min
  <2> QED
    BY <1>1, <2>1, <2>2
<1>4. CASE k >= 0
  <2>1. S \subseteq Nat /\ S # {}
    BY <1>2, <1>4
  <2>2. Min(S) \in S
    BY <2>1, FirstOf
  <2>3. Min(S) \in Nat
    BY <2>1, <2>2
  <2> QED
    BY <1>1, <2>3 DEF DEFAULT
<1> QED
  BY <1>2, <1>3, <1>4

(* No table is in use at first.                                            *)
LEMMA InitIInv == Init => IInv
BY QosAgentAssumption
   DEF Init, IInv, Shapes, Agree, AgreeOn, AddressesApart, Live, Pdns, EmptyTft,
       NoCmd, Tfts, Table_pf, Ids

(* Agreement outlives what the handlers do to the tables of default        *)
(* bearers and what the network's messages do to its set of bearers.       *)
LEMMA AgreeTables ==
  ASSUME NEW S, NEW tfts, NEW tfts2, NEW addrs, AgreeOn(S, tfts, addrs),
         \A ct \in Pdns : tfts2[ct].id = tfts[ct].id
  PROVE  AgreeOn(S, tfts2, addrs)
BY DEF AgreeOn

(* A message that changes a bearer's TFT keeps the agreement.              *)
LEMMA AgreeNewTft ==
  ASSUME NEW S, NEW tfts, NEW addrs, AgreeOn(S, tfts, addrs), NEW x \in S, NEW t
  PROVE  AgreeOn((S \ {x}) \cup {[x EXCEPT !.tft = t]}, tfts, addrs)
<1> DEFINE y == [x EXCEPT !.tft = t]
<1>1. y = [id |-> x.id, pdn |-> x.pdn, addr |-> x.addr, tft |-> t]
  BY DEF AgreeOn
<1>2. /\ y = [id |-> y.id, pdn |-> y.pdn, addr |-> y.addr, tft |-> y.tft]
      /\ y.id = x.id /\ y.pdn = x.pdn /\ y.addr = x.addr
  BY <1>1
<1> HIDE DEF y
<1>3. AgreeOn((S \ {x}) \cup {y}, tfts, addrs)
  BY <1>2 DEF AgreeOn
<1> QED
  BY <1>3 DEF y

(* So does one that adds a dedicated bearer to a PDN, ...                  *)
LEMMA AgreeNewBearer ==
  ASSUME NEW S, NEW tfts, NEW addrs, AgreeOn(S, tfts, addrs),
         NEW d \in S, d.id = d.pdn, NEW b, NEW t
  PROVE  AgreeOn(S \cup {[id |-> b, pdn |-> d.id, addr |-> d.addr, tft |-> t]},
                 tfts, addrs)
<1> DEFINE y == [id |-> b, pdn |-> d.id, addr |-> d.addr, tft |-> t]
<1>1. /\ y = [id |-> y.id, pdn |-> y.pdn, addr |-> y.addr, tft |-> y.tft]
      /\ y.pdn = d.pdn /\ y.addr = d.addr
  OBVIOUS
<1> HIDE DEF y
<1>2. AgreeOn(S \cup {y}, tfts, addrs)
  BY <1>1 DEF AgreeOn
<1> QED
  BY <1>2 DEF y

(* ... and one that releases a dedicated bearer.                           *)
LEMMA AgreeNoBearer ==
  ASSUME NEW S, NEW tfts, NEW addrs, AgreeOn(S, tfts, addrs),
         NEW x \in S, x.id # x.pdn
  PROVE  AgreeOn(S \ {x}, tfts, addrs)
BY DEF AgreeOn

(* A handler that leaves the PDNs' identities and addresses alone keeps    *)
(* the invariant, if the network's sets of bearers still agree.            *)
LEMMA StepTables ==
  ASSUME IInv, Shapes', u8PdnAddress' = u8PdnAddress,
         \A ct \in Pdns : tDefaultBearer'[ct].id = tDefaultBearer[ct].id,
         Agree(net'), Agree(goal')
  PROVE  IInv'
<1>1. AgreeOn(net', tDefaultBearer', u8PdnAddress)
  BY AgreeTables DEF Agree
<1>2. AgreeOn(goal', tDefaultBearer', u8PdnAddress)
  BY AgreeTables DEF Agree
<1>3. AddressesApart'
  BY DEF IInv, AddressesApart, Live
<1> QED
  BY <1>1, <1>2, <1>3 DEF IInv, Agree

(* A table taken by a new PDN, all tables in front of it being live.       *)
LEMMA StepNewPdn ==
  ASSUME IInv, NEW ct \in Pdns, NEW b \in DefaultIds, NEW a \in Addrs,
         tDefaultBearer[ct].id = NoId, \A d \in Pdns : d < ct => Live(d),
         Fresh(b, a), NewPdn(ct, b, a, a)
  PROVE  IInv'
<1> USE QosAgentAssumption
<1>1. b # NoId
  OBVIOUS
<1>2. PICK n \in Nodes : tDefaultBearer' = [tDefaultBearer EXCEPT ![ct] =
                  [id |-> b, num |-> 1, pf |-> [@.pf EXCEPT ![0] = n]]]
  BY DEF NewPdn
<1>3. /\ u8PdnAddress' = [u8PdnAddress EXCEPT ![ct] = a]
      /\ goal' = net \cup {[id |-> b, pdn |-> b, addr |-> a, tft |-> {}]}
      /\ net' = goal'
      /\ u8NumDedicatedBearers' = [u8NumDedicatedBearers EXCEPT ![ct] = 0]
      /\ cmd' = cmd
  BY DEF NewPdn
<1>4. Shapes'
  <2>1. [tDefaultBearer[ct].pf EXCEPT ![0] = n] \in Table_pf
    BY DEF IInv, Shapes, Tfts, Table_pf
  <2>2. tDefaultBearer' \in [Pdns -> Tfts(Ids)]
    BY <1>2, <2>1 DEF IInv, Shapes, Tfts, Ids
  <2>3. u8NumDedicatedBearers' \in [Pdns -> Int]
    BY <1>3 DEF IInv, Shapes
  <2> QED
    BY <1>3, <2>2, <2>3 DEF IInv, Shapes
<1>5. /\ tDefaultBearer'[ct].id = b /\ u8PdnAddress'[ct] = a
      /\ \A c \in Pdns \ {ct} : /\ tDefaultBearer'[c].id = tDefaultBearer[c].id
                                /\ u8PdnAddress'[c] = u8PdnAddress[c]
  BY <1>2, <1>3 DEF IInv, Shapes
<1>6. Agree(net)'
  <2> DEFINE new == [id |-> b, pdn |-> b, addr |-> a, tft |-> {}]
  <2>1. net' = net \cup {new}
    BY <1>3
  <2>2. new.id = b /\ new.pdn = b /\ new.addr = a /\ new.tft = {}
    OBVIOUS
  <2> HIDE DEF new
  <2>3. ASSUME NEW x \in net
        PROVE  /\ x = [id |-> x.id, pdn |-> x.pdn, addr |-> x.addr, tft |-> x.tft]
               /\ x.pdn # NoId
               /\ \E c \in Pdns : /\ tDefaultBearer'[c].id = x.pdn
                                  /\ u8PdnAddress'[c] = x.addr
    BY <1>5 DEF IInv, Agree, AgreeOn
  <2>4. ASSUME NEW c \in Pdns, Live(c)'
        PROVE  \E x \in net' : /\ x.id = tDefaultBearer'[c].id
                               /\ x.pdn = tDefaultBearer'[c].id
                               /\ x.addr = u8PdnAddress'[c]
    <3>1. CASE c = ct
      BY <3>1, <1>5, <2>1, <2>2
    <3>2. CASE c # ct
      <4>1. /\ tDefaultBearer'[c].id = tDefaultBearer[c].id
            /\ u8PdnAddress'[c] = u8PdnAddress[c]
        BY <3>2, <1>5
      <4>2. \E x \in net : /\ x.id = tDefaultBearer[c].id
                           /\ x.pdn = tDefaultBearer[c].id
                           /\ x.addr = u8PdnAddress[c]
        BY <4>1, <2>4 DEF IInv, Agree, AgreeOn, Live
      <4> QED
        BY <4>1, <4>2, <2>1
    <3> QED
      BY <3>1, <3>2
  <2>5. ASSUME NEW x \in net'
        PROVE  /\ x = [id |-> x.id, pdn |-> x.pdn, addr |-> x.addr, tft |-> x.tft]
               /\ x.pdn # NoId
               /\ \E c \in Pdns : /\ tDefaultBearer'[c].id = x.pdn
                                  /\ u8PdnAddress'[c] = x.addr
    <3>1. CASE x \in net
      BY <3>1, <2>3
    <3>2. CASE x = new
      BY <3>2, <2>2, <1>1, <1>5 DEF new
    <3> QED
      BY <3>1, <3>2, <2>1
  <2> QED
    BY <2>4, <2>5 DEF Agree, AgreeOn, Live
<1>7. \A c \in Pdns : Live(c) => tDefaultBearer[c].id # b /\ u8PdnAddress[c] # a
  BY DEF IInv, Agree, AgreeOn, Fresh, Live
<1>8. AddressesApart'
  BY <1>1, <1>5, <1>7 DEF IInv, AddressesApart, Live, Pdns
<1> QED
  BY <1>3, <1>4, <1>6, <1>8 DEF IInv, Agree

(* The table of a released PDN becomes free and keeps its address.         *)
LEMMA StepRelease ==
  ASSUME PdnsByTheRules, IInv, NEW d, Qa_Bearer_Delete_default(d)
  PROVE  IInv'
<1>1. PICK ct \in Pdns : /\ tDefaultBearer[ct].id = d.id
                         /\ tDefaultBearer' = [tDefaultBearer EXCEPT ![ct] = EmptyTft]
  BY DEF Qa_Bearer_Delete_default, Tables
<1>2. /\ d \in net /\ d.id = d.pdn
      /\ goal' = {x \in net : x.pdn # d.id} /\ net' = goal'
      /\ u8PdnAddress' = u8PdnAddress /\ cmd' = cmd
  <2>1. AfterTftDelete(d) = {}
    BY DEF AfterTftDelete, PdnsByTheRules
  <2> QED
    BY <2>1 DEF Qa_Bearer_Delete_default
<1>3. Shapes'
  <2>1. tDefaultBearer' \in [Pdns -> Tfts(Ids)]
    BY <1>1 DEF IInv, Shapes, EmptyTft, Tfts, Table_pf, Ids
  <2>2. u8NumDedicatedBearers' \in [Pdns -> Int]
    <3>1. PICK c \in Pdns :
            u8NumDedicatedBearers' = [u8NumDedicatedBearers EXCEPT ![c] = 0]
      BY DEF Qa_Bearer_Delete_default, Tables
    <3>2. u8NumDedicatedBearers \in [Pdns -> Int]
      BY DEF IInv, Shapes
    <3> QED
      BY <3>1, <3>2
  <2> QED
    BY <1>2, <2>1, <2>2 DEF IInv, Shapes
<1>4. /\ tDefaultBearer'[ct].id = NoId
      /\ \A c \in Pdns \ {ct} : tDefaultBearer'[c].id = tDefaultBearer[c].id
  BY <1>1 DEF IInv, Shapes, EmptyTft
<1>5. AddressesApart'
  BY <1>2, <1>4 DEF IInv, AddressesApart, Live
<1>6. d.id # NoId
  BY <1>2 DEF IInv, Agree, AgreeOn
<1>7. \A c \in Pdns \ {ct} : tDefaultBearer[c].id # d.id
  BY <1>1, <1>6 DEF IInv, AddressesApart, Live
<1>8. ASSUME NEW x \in net'
      PROVE  /\ x = [id |-> x.id, pdn |-> x.pdn, addr |-> x.addr, tft |-> x.tft]
             /\ x.pdn # NoId
             /\ \E c \in Pdns : /\ tDefaultBearer'[c].id = x.pdn
                                /\ u8PdnAddress'[c] = x.addr
  <2>1. x \in net /\ x.pdn # d.id
    BY <1>2
  <2> QED
    BY <1>1, <1>2, <1>4, <2>1 DEF IInv, Agree, AgreeOn
<1>9. ASSUME NEW c \in Pdns, tDefaultBearer'[c].id # NoId
      PROVE  \E x \in net' : /\ x.id = tDefaultBearer'[c].id
                             /\ x.pdn = tDefaultBearer'[c].id
                             /\ x.addr = u8PdnAddress'[c]
  <2>1. c # ct /\ tDefaultBearer'[c].id = tDefaultBearer[c].id
    BY <1>4, <1>9
  <2>2. PICK x \in net : /\ x.id = tDefaultBearer[c].id
                         /\ x.pdn = tDefaultBearer[c].id
                         /\ x.addr = u8PdnAddress[c]
    BY <1>9, <2>1 DEF IInv, Agree, AgreeOn
  <2>3. x \in net'
    BY <1>2, <1>7, <2>1, <2>2
  <2> QED
    BY <1>2, <2>1, <2>2, <2>3
<1> QED
  BY <1>2, <1>3, <1>5, <1>8, <1>9 DEF IInv, Agree, AgreeOn

(* The tables of default bearers after a step: records, of the same PDNs.  *)
TablesKept ==
  /\ tDefaultBearer' \in [Pdns -> Tfts(Ids)]
  /\ \A ct \in Pdns : tDefaultBearer'[ct].id = tDefaultBearer[ct].id

(* A handler that writes a TFT of the bearer's own id keeps them.          *)
LEMMA SetTftKeeps ==
  ASSUME Shapes, NEW ct \in Pdns, NEW idx, NEW t, SetTft(ct, idx, t),
         idx = DEFAULT => t \in Tfts({tDefaultBearer[ct].id})
  PROVE  TablesKept
<1>1. CASE idx = DEFAULT
  <2>1. tDefaultBearer' = [tDefaultBearer EXCEPT ![ct] = t]
    BY <1>1 DEF SetTft
  <2>2. t.id = tDefaultBearer[ct].id /\ t \in Tfts(Ids)
    BY <1>1 DEF Tfts, Shapes
  <2> QED
    BY <1>1, <2>1, <2>2 DEF Shapes, TablesKept
<1>2. CASE idx # DEFAULT
  BY <1>2 DEF SetTft, Shapes, TablesKept
<1> QED
  BY <1>1, <1>2

(* A message of the network starts a handler, and changes no table.        *)
LEMMA StepMessage ==
  ASSUME IInv, NEW op, NEW ct \in Pdns, NEW idx, NEW b, NEW fs, NEW pfids,
         Begin(op, ct, idx, b, fs, pfids),
         op = "release" => idx # DEFAULT, u8NumDedicatedBearers' \in [Pdns -> Int],
         UNCHANGED <<tDefaultBearer, u8PdnAddress, net>>, Agree(goal')
  PROVE  IInv'
<1>1. Shapes'
  BY DEF IInv, Shapes, Begin
<1> QED
  BY <1>1, StepTables DEF IInv

(* A step of a handler, which goes on or returns.                          *)
LEMMA StepHandler ==
  ASSUME IInv, TablesKept, u8PdnAddress' = u8PdnAddress,
         u8NumDedicatedBearers' \in [Pdns -> Int],
         \/ Done
         \/ /\ UNCHANGED <<net, goal>>
            /\ \/ UNCHANGED cmd
               \/ \E op : op # "release" /\ cmd' = [cmd EXCEPT !.op = op]
               \/ \E fs : cmd' = [cmd EXCEPT !.fs = fs]
  PROVE  IInv'
<1>1. /\ cmd' = [op |-> cmd'.op, ct |-> cmd'.ct, idx |-> cmd'.idx, b |-> cmd'.b,
                fs |-> cmd'.fs, pfids |-> cmd'.pfids]
      /\ cmd'.ct \in Pdns
      /\ cmd'.op = "release" => cmd'.idx # DEFAULT
  BY QosAgentAssumption DEF IInv, Shapes, Done, NoCmd, Pdns
<1>2. Shapes'
  BY <1>1 DEF IInv, Shapes, TablesKept
<1>3. Agree(net') /\ Agree(goal')
  BY DEF IInv, Done
<1> QED
  BY <1>2, <1>3, StepTables DEF TablesKept

(* What the handlers write into the entry of a default bearer.             *)
LEMMA WrittenTft ==
  ASSUME NEW ids, NEW t \in Tfts(ids), NEW j, NEW x \in Nodes \cup {NULL}, NEW k \in Int
  PROVE  /\ [t EXCEPT !.pf[j] = x] \in Tfts({t.id})
         /\ [t EXCEPT !.pf[j] = x, !.num = k] \in Tfts({t.id})
<1>1. [t.pf EXCEPT ![j] = x] \in Table_pf
  BY DEF Tfts, Table_pf
<1> QED
  BY <1>1 DEF Tfts

(* Every message and every step of a handler preserves the invariant.      *)
LEMMA StepIInv ==
  ASSUME PdnsByTheRules, IInv, [Next]_vars
  PROVE  IInv'
<1> USE QosAgentAssumption
<1>1. ASSUME NEW b \in DefaultIds, NEW a \in Addrs, QA_Process_PdnConn_Cnf(b, a)
      PROVE  IInv'
  <2>1. /\ FreeTable \in Tables(NoId)
        /\ \A ct \in Tables(NoId) : FreeTable <= ct
    BY <1>1, FirstOf DEF QA_Process_PdnConn_Cnf, FreeTable, Tables, Pdns
  <2>2. FreeTable \in Pdns /\ tDefaultBearer[FreeTable].id = NoId
    BY <2>1 DEF Tables
  <2>3. \A d \in Pdns : d < FreeTable => Live(d)
    BY <2>1, <2>2 DEF Tables, Live, Pdns
  <2> QED
    BY <1>1, <2>2, <2>3, StepNewPdn DEF QA_Process_PdnConn_Cnf
<1>2. ASSUME NEW b \in DefaultIds, NEW a \in Addrs, QA_ProcessRegConf_Lte(b, a)
      PROVE  IInv'
  <2>1. /\ 0 \in Pdns /\ tDefaultBearer[0].id = NoId
        /\ \A d \in Pdns : ~ (d < 0)
    BY <1>2 DEF QA_ProcessRegConf_Lte, PdnsByTheRules, Tables, Pdns
  <2>2. Fresh(b, a) /\ NewPdn(0, b, a, a)
    BY <1>2 DEF QA_ProcessRegConf_Lte, PdnsByTheRules
  <2> QED
    BY <2>1, <2>2, StepNewPdn
<1>3. ASSUME NEW d \in net, NEW b \in DedicatedIds, NEW fs, create_new_tft(d, b, fs)
      PROVE  IInv'
  <2>1. PICK ct \in Pdns : Begin("add", ct, u8NumDedicatedBearers[ct], b, fs, {})
    BY <1>3 DEF create_new_tft, Tables
  <2>2. Agree(goal')
    BY <1>3, AgreeNewBearer DEF create_new_tft, IInv, Agree
  <2>3. u8NumDedicatedBearers' \in [Pdns -> Int]
    <3>1. PICK c \in Pdns : u8NumDedicatedBearers' =
            [u8NumDedicatedBearers EXCEPT ![c] = u8NumDedicatedBearers[c] + 1]
      BY <1>3 DEF create_new_tft, Tables
    <3> QED
      BY <3>1 DEF IInv, Shapes
  <2> QED
    BY <1>3, <2>1, <2>2, <2>3, StepMessage DEF create_new_tft
<1>4. ASSUME NEW x \in net, NEW fs, add_pkt_fltr(x, fs)
      PROVE  IInv'
  <2>1. \E ct \in Pdns : \E op, idx : op # "release" /\ Begin(op, ct, idx, x.id, fs, {})
    BY <1>4 DEF add_pkt_fltr, Tables
  <2>2. Agree(goal')
    BY <1>4, AgreeNewTft DEF add_pkt_fltr, Goal, IInv, Agree
  <2> QED
    BY <1>4, <2>1, <2>2, StepMessage DEF add_pkt_fltr, tables, IInv, Shapes
<1>5. ASSUME NEW x \in net, NEW fs, replace_pkt_fltr(x, fs)
      PROVE  IInv'
  <2>1. \E ct \in Pdns : \E op, idx : op # "release" /\ Begin(op, ct, idx, x.id, fs, {})
    BY <1>5 DEF replace_pkt_fltr, Tables
  <2>2. (\E tft : Goal(x, tft)) \/ UNCHANGED goal
    BY <1>5 DEF replace_pkt_fltr
  <2>3. ASSUME NEW tft, Goal(x, tft)
        PROVE  Agree(goal')
    BY <2>3, AgreeNewTft DEF Goal, IInv, Agree
  <2>4. Agree(goal')
    BY <2>2, <2>3 DEF IInv
  <2> QED
    BY <1>5, <2>1, <2>4, StepMessage DEF replace_pkt_fltr, tables, IInv, Shapes
<1>6. ASSUME NEW x \in net, NEW pfids, delete_pkt_fltr(x, pfids)
      PROVE  IInv'
  <2>1. \E ct \in Pdns : \E idx : Begin("delete", ct, idx, x.id, << >>, pfids)
    BY <1>6 DEF delete_pkt_fltr, Tables
  <2>2. Agree(goal')
    BY <1>6, AgreeNewTft DEF delete_pkt_fltr, Goal, IInv, Agree
  <2> QED
    BY <1>6, <2>1, <2>2, StepMessage DEF delete_pkt_fltr, tables, IInv, Shapes
<1>7. ASSUME NEW x \in net, Qa_Bearer_Delete(x)
      PROVE  IInv'
  <2>1. Agree(goal')
    BY <1>7, AgreeNoBearer DEF Qa_Bearer_Delete, IInv, Agree
  <2>2. UNCHANGED <<tDefaultBearer, u8PdnAddress, u8NumDedicatedBearers>>
    BY <1>7 DEF Qa_Bearer_Delete, tables
  <2>3. CASE net' = goal' /\ UNCHANGED cmd
    <3>1. Shapes'
      BY <2>2, <2>3 DEF IInv, Shapes
    <3> QED
      BY <2>1, <2>2, <2>3, <3>1, StepTables
  <2>4. CASE \E ct \in Pdns : \E idx : /\ Begin("release", ct, idx, x.id, << >>, {})
                                  /\ idx # DEFAULT
                                  /\ UNCHANGED net
    BY <2>1, <2>2, <2>4, StepMessage DEF IInv, Shapes
  <2> QED
    BY <1>7, <2>3, <2>4, FoundIndex DEF Qa_Bearer_Delete, Tables, IInv, Shapes
<1>8. CASE Qa_Delete_Default_Bearer_MatchAll_TFT
  <2> DEFINE t == tDefaultBearer[cmd.ct]
             u == [t EXCEPT !.pf[0] = NULL, !.num = 0]
  <2>1. tDefaultBearer' = [tDefaultBearer EXCEPT ![cmd.ct] = u]
    BY <1>8 DEF Qa_Delete_Default_Bearer_MatchAll_TFT, IInv, Shapes
  <2>2. u \in Tfts({t.id})
    <3>1. t \in Tfts(Ids) /\ NULL \in Nodes \cup {NULL} /\ 0 \in Int
      BY DEF IInv, Shapes
    <3> QED
      BY <3>1, WrittenTft
  <2> HIDE DEF u
  <2>3. TablesKept
    BY <2>1, <2>2 DEF IInv, Shapes, TablesKept, Tfts
  <2> QED
    BY <1>8, <2>3, StepHandler DEF Qa_Delete_Default_Bearer_MatchAll_TFT, IInv, Shapes
<1>9. CASE Qa_Add_SortTFT
  <2> DEFINE t == TftOf(cmd.ct, cmd.idx)
  <2>1. TablesKept
    <3>1. CASE UNCHANGED <<tDefaultBearer, tDedicatedBearer>>
      BY <3>1 DEF IInv, Shapes, TablesKept
    <3>2. CASE \E j \in Slots, n \in Nodes :
                 SetTft(cmd.ct, cmd.idx, [t EXCEPT !.pf[j] = n, !.num = @ + 1])
      <4>1. PICK j \in Slots, n \in Nodes :
              SetTft(cmd.ct, cmd.idx, [t EXCEPT !.pf[j] = n, !.num = @ + 1])
        BY <3>2
      <4>2. cmd.idx = DEFAULT =>
              [t EXCEPT !.pf[j] = n, !.num = @ + 1] \in Tfts({tDefaultBearer[cmd.ct].id})
        <5>1. SUFFICES ASSUME cmd.idx = DEFAULT
                       PROVE  [t EXCEPT !.pf[j] = n, !.num = t.num + 1] \in Tfts({t.id})
          BY DEF TftOf
        <5>2. t \in Tfts(Ids) /\ t.num + 1 \in Int
          BY <5>1 DEF TftOf, IInv, Shapes, Tfts
        <5> QED
          BY <5>2, WrittenTft
      <4> QED
        BY <4>1, <4>2, SetTftKeeps DEF IInv, Shapes
    <3>3. \A S : S \subseteq Slots /\ S # {} => Min(S) \in Slots
      BY FirstSlot
    <3> QED
      BY <1>9, <3>1, <3>2, <3>3 DEF Qa_Add_SortTFT
  <2>2. Done \/ \E fs : /\ cmd' = [cmd EXCEPT !.fs = fs]
                        /\ UNCHANGED <<net, goal>>
    BY <1>9 DEF Qa_Add_SortTFT
  <2> QED
    BY <1>9, <2>1, <2>2, StepHandler DEF Qa_Add_SortTFT, IInv, Shapes
<1>10. CASE Qa_Delete_Filter_Replace
  <2>1. TablesKept
    BY <1>10 DEF Qa_Delete_Filter_Replace, tables, IInv, Shapes, TablesKept
  <2> QED
    BY <1>10, <2>1, StepHandler DEF Qa_Delete_Filter_Replace, tables, IInv, Shapes
<1>11. CASE Qa_Replace_SortTFT
  <2>1. TablesKept
    BY <1>11 DEF Qa_Replace_SortTFT, tables, IInv, Shapes, TablesKept
  <2> QED
    BY <1>11, <2>1, StepHandler DEF Qa_Replace_SortTFT, tables, IInv, Shapes
<1>12. CASE Qa_Delete_Filter
  <2> DEFINE t == TftOf(cmd.ct, cmd.idx)
             gone(j) == [t EXCEPT !.pf[j] = NULL, !.num = @ - 1]
  <2>1. PICK j \in Slots : \/ SetTft(cmd.ct, cmd.idx, gone(j))
                           \/ SetTft(cmd.ct, cmd.idx, [gone(j) EXCEPT !.pf[0] = t.pf[j]])
    <3>1. Min(SlotsWith(t, cmd.pfids)) \in Slots
      <4>1. /\ SlotsWith(t, cmd.pfids) # {}
            /\ SlotsWith(t, cmd.pfids) \subseteq Slots
        BY <1>12 DEF Qa_Delete_Filter, SlotsWith
      <4> QED
        BY <4>1, FirstSlot
    <3> QED
      BY <1>12, <3>1 DEF Qa_Delete_Filter
  <2>2. TablesKept
    <3> DEFINE i == tDefaultBearer[cmd.ct].id
    <3>1. cmd.idx = DEFAULT => /\ gone(j) \in Tfts({i})
                               /\ [gone(j) EXCEPT !.pf[0] = t.pf[j]] \in Tfts({i})
      <4>1. SUFFICES ASSUME cmd.idx = DEFAULT
                     PROVE  /\ gone(j) \in Tfts({i})
                            /\ [gone(j) EXCEPT !.pf[0] = t.pf[j]] \in Tfts({i})
        OBVIOUS
      <4>2. /\ t \in Tfts(Ids) /\ t.num - 1 \in Int /\ t.id = i
            /\ t.pf[j] \in Nodes \cup {NULL}
        BY <4>1 DEF TftOf, IInv, Shapes, Tfts, Table_pf
      <4>3. gone(j) \in Tfts({i})
        BY <4>2, WrittenTft
      <4> HIDE DEF gone
      <4>4. gone(j).id = i
        BY <4>3 DEF Tfts
      <4>5. 0 \in Int
        OBVIOUS
      <4>6. [gone(j) EXCEPT !.pf[0] = t.pf[j]] \in Tfts({gone(j).id})
        BY <4>2, <4>3, <4>5, WrittenTft
      <4> QED
        BY <4>3, <4>4, <4>6
    <3> HIDE DEF gone
    <3>3. CASE SetTft(cmd.ct, cmd.idx, gone(j))
      BY <3>1, <3>3, SetTftKeeps DEF IInv, Shapes
    <3>4. CASE SetTft(cmd.ct, cmd.idx, [gone(j) EXCEPT !.pf[0] = t.pf[j]])
      BY <3>1, <3>4, SetTftKeeps DEF IInv, Shapes
    <3> QED
      BY <2>1, <3>3, <3>4
  <2> QED
    BY <1>12, <2>2, StepHandler DEF Qa_Delete_Filter, IInv, Shapes
<1>13. CASE Qa_Delete_Filter_end
  <2>1. TablesKept
    BY <1>13 DEF Qa_Delete_Filter_end, tables, IInv, Shapes, TablesKept
  <2> QED
    BY <1>13, <2>1, StepHandler DEF Qa_Delete_Filter_end, tables, IInv, Shapes
<1>14. CASE Qa_Bearer_Delete_filter
  <2>1. cmd.idx # DEFAULT
    BY <1>14 DEF Qa_Bearer_Delete_filter, IInv, Shapes
  <2>2. UNCHANGED tDefaultBearer
    BY <1>14, <2>1 DEF Qa_Bearer_Delete_filter, SetTft
  <2>3. TablesKept
    BY <2>2 DEF IInv, Shapes, TablesKept
  <2> QED
    BY <1>14, <2>3, StepHandler DEF Qa_Bearer_Delete_filter, IInv, Shapes
<1>15. CASE Qa_Bearer_Delete_end
  <2>1. cmd.idx # DEFAULT
    BY <1>15 DEF Qa_Bearer_Delete_end, IInv, Shapes
  <2>2. UNCHANGED tDefaultBearer
    BY <1>15, <2>1 DEF Qa_Bearer_Delete_end, SetTft
  <2>3. TablesKept
    BY <2>2 DEF IInv, Shapes, TablesKept
  <2> QED
    BY <1>15, <2>3, StepHandler DEF Qa_Bearer_Delete_end, IInv, Shapes
<1>16. CASE UNCHANGED vars
  BY <1>16 DEF vars, tables, list, IInv, Shapes, Agree, AddressesApart, Live
<1> QED
  BY <1>1, <1>2, <1>3, <1>4, <1>5, <1>6, <1>7, <1>8, <1>9, <1>10, <1>11, <1>12,
     <1>13, <1>14, <1>15, <1>16, StepRelease DEF Next

(* For every number of tables: whatever PDNs come and go, the first table  *)
(* with a packet's source address is that of the PDN that has the address. *)
(* That holds if each registration has an address and comes while table 0  *)
(* is free, and no TFT of a default bearer is deleted as a whole; releases *)
(* in any order, deleted default filters and mixed replacements may come.  *)
THEOREM PacketFindsPdn ==
  ASSUME PdnsByTheRules
  PROVE  Spec => []AddressFindsPdn
<1>1. IInv => AddressFindsPdn
  <2> SUFFICES ASSUME IInv, NEW x \in net
               PROVE  tDefaultBearer[Table(x.addr)].id = x.pdn
    BY DEF AddressFindsPdn
  <2> DEFINE found == {ct \in Pdns : u8PdnAddress[ct] = x.addr}
  <2>1. PICK c \in Pdns : /\ tDefaultBearer[c].id = x.pdn
                          /\ u8PdnAddress[c] = x.addr
                          /\ Live(c)
    BY DEF IInv, Agree, AgreeOn, Live
  <2>2. found # {} /\ found \subseteq Nat
    BY <2>1, QosAgentAssumption DEF Pdns
  <2>3. Min(found) \in found /\ Min(found) <= c
    BY <2>1, <2>2, FirstOf
  <2>4. Min(found) = c
    BY <2>1, <2>3 DEF IInv, AddressesApart, Pdns
  <2> QED
    BY <2>1, <2>2, <2>4 DEF Table
<1>2. IInv /\ [Next]_vars => IInv'
  BY StepIInv
<1> QED
  BY <1>1, <1>2, InitIInv, PTL DEF Spec

----------------------------------------------------------------------------
(* Part two: lists. A list is known by its nodes L: the links lead from    *)
(* each node of L to the next one in the order of precedence.              *)

(* Types of the heap.                                                      *)
Ref == Nodes \cup {NULL}
Cell == [eps : Ids, pfid : Nat, prec : Nat, dir : {"none", "DL", "UL", "BI"},
         flow : Int, next : Ref, prev : Ref]
Memory == [used : SUBSET Nodes, cell : [Nodes -> Cell], head : Ref, ok : BOOLEAN]

(* In the cells c, node x comes after n, and before it, in the order of    *)
(* precedence of the nodes L; NULL is behind the last and before the first.*)
After(c, L, n, x) ==
  IF x = NULL THEN \A y \in L : c[y].prec <= c[n].prec
  ELSE /\ x \in L /\ c[n].prec < c[x].prec
       /\ \A y \in L : c[y].prec <= c[n].prec \/ c[x].prec <= c[y].prec

Before(c, L, n, x) ==
  IF x = NULL THEN \A y \in L : c[n].prec <= c[y].prec
  ELSE /\ x \in L /\ c[x].prec < c[n].prec
       /\ \A y \in L : c[y].prec <= c[x].prec \/ c[n].prec <= c[y].prec

(* The list from h has the nodes L: the links lead from each node to the   *)
(* ones next to it in the order of precedence.                             *)
Linked(h, c, L) ==
  /\ \A n, y \in L : c[n].prec = c[y].prec => n = y
  /\ IF L = {} THEN h = NULL ELSE h \in L /\ \A y \in L : c[h].prec <= c[y].prec
  /\ \A n \in L : After(c, L, n, c[n].next) /\ Before(c, L, n, c[n].prev)

(* Two heaps hold the same filters; their links may differ.                *)
SameFilters(c, d) ==
  \A n \in Nodes : /\ c[n].eps = d[n].eps /\ c[n].pfid = d[n].pfid
                   /\ c[n].prec = d[n].prec /\ c[n].dir = d[n].dir
                   /\ c[n].flow = d[n].flow

(* A list depends on the cells of its nodes only.                          *)
LEMMA LinkedFrame ==
  ASSUME NEW h, NEW c, NEW d, NEW L, Linked(h, c, L),
         \A n \in L : /\ d[n].prec = c[n].prec /\ d[n].next = c[n].next
                      /\ d[n].prev = c[n].prev
  PROVE  Linked(h, d, L)
BY DEF Linked, After, Before

(* What the assignments of a link do.                                      *)
LEMMA SetNextFacts ==
  ASSUME NEW m \in Memory, NEW n \in m.used, NEW x \in Ref
  PROVE  LET r == SetNext(m, n, x)
         IN  /\ r \in Memory /\ r.used = m.used /\ r.head = m.head /\ r.ok = m.ok
             /\ SameFilters(r.cell, m.cell)
             /\ \A y \in Nodes : /\ r.cell[y].prev = m.cell[y].prev
                                 /\ r.cell[y].next = IF y = n THEN x ELSE m.cell[y].next
<1> DEFINE r == SetNext(m, n, x)
           c == [m.cell EXCEPT ![n].next = x]
<1>1. n \in Nodes /\ m.cell \in [Nodes -> Cell]
      BY DEF Memory
<1>2. /\ c \in [Nodes -> Cell] /\ SameFilters(c, m.cell)
      /\ \A y \in Nodes : /\ c[y].prev = m.cell[y].prev
                          /\ c[y].next = IF y = n THEN x ELSE m.cell[y].next
      BY <1>1 DEF Cell, SameFilters
<1>3. r = [m EXCEPT !.cell = c]
      BY DEF SetNext, Memory
<1> HIDE DEF c
<1>4. /\ r \in Memory /\ r.used = m.used /\ r.head = m.head /\ r.ok = m.ok
      /\ r.cell = c
      BY <1>2, <1>3 DEF Memory
<1> HIDE DEF r
<1>5. QED BY <1>2, <1>4 DEF r

(* ... and of one back.                                                    *)
LEMMA SetPrevFacts ==
  ASSUME NEW m \in Memory, NEW n \in m.used, NEW x \in Ref
  PROVE  LET r == SetPrev(m, n, x)
         IN  /\ r \in Memory /\ r.used = m.used /\ r.head = m.head /\ r.ok = m.ok
             /\ SameFilters(r.cell, m.cell)
             /\ \A y \in Nodes : /\ r.cell[y].next = m.cell[y].next
                                 /\ r.cell[y].prev = IF y = n THEN x ELSE m.cell[y].prev
<1> DEFINE r == SetPrev(m, n, x)
           c == [m.cell EXCEPT ![n].prev = x]
<1>1. n \in Nodes /\ m.cell \in [Nodes -> Cell]
      BY DEF Memory
<1>2. /\ c \in [Nodes -> Cell] /\ SameFilters(c, m.cell)
      /\ \A y \in Nodes : /\ c[y].next = m.cell[y].next
                          /\ c[y].prev = IF y = n THEN x ELSE m.cell[y].prev
      BY <1>1 DEF Cell, SameFilters
<1>3. r = [m EXCEPT !.cell = c]
      BY DEF SetPrev, Memory
<1> HIDE DEF c
<1>4. /\ r \in Memory /\ r.used = m.used /\ r.head = m.head /\ r.ok = m.ok
      /\ r.cell = c
      BY <1>2, <1>3 DEF Memory
<1> HIDE DEF r
<1>5. QED BY <1>2, <1>4 DEF r

(* A new head.                                                             *)
LEMMA SetHeadFacts ==
  ASSUME NEW m \in Memory, NEW x \in Ref
  PROVE  LET r == [m EXCEPT !.head = x]
         IN  /\ r \in Memory /\ r.used = m.used /\ r.head = x /\ r.ok = m.ok
             /\ r.cell = m.cell
BY DEF Memory

(* What Link does to the links.                                            *)
LEMMA LinkAssigns ==
  ASSUME NEW m \in Memory, NEW n \in m.used, NEW q \in m.used \cup {NULL},
         NEW p \in m.used \cup {NULL}, q # n, p # n
  PROVE  LET r == Link(m, n, q, p)
         IN  /\ r \in Memory /\ r.used = m.used /\ r.ok = m.ok
             /\ r.head = IF q = NULL THEN n ELSE m.head
             /\ SameFilters(r.cell, m.cell)
             /\ \A y \in Nodes :
                  /\ r.cell[y].next = IF y = n THEN p ELSE IF y = q THEN n
                                      ELSE m.cell[y].next
                  /\ r.cell[y].prev = IF y = n THEN q ELSE IF y = p THEN n
                                      ELSE m.cell[y].prev
<1> DEFINE m1 == [m EXCEPT !.cell[n].next = p, !.cell[n].prev = q]
           m2 == IF q = NULL THEN [m1 EXCEPT !.head = n] ELSE SetNext(m1, q, n)
           r == IF p = NULL THEN m2 ELSE SetPrev(m2, p, n)
           c == [m.cell EXCEPT ![n] = [@ EXCEPT !.next = p, !.prev = q]]
<1>1. /\ n \in Nodes /\ m.cell \in [Nodes -> Cell] /\ p \in Ref /\ q \in Ref
      /\ n \in Ref /\ m.used \subseteq Nodes /\ NULL \notin Nodes
      BY QosAgentAssumption DEF Memory, Ref
<1>2. /\ c \in [Nodes -> Cell] /\ SameFilters(c, m.cell)
      /\ \A y \in Nodes : /\ c[y].next = IF y = n THEN p ELSE m.cell[y].next
                          /\ c[y].prev = IF y = n THEN q ELSE m.cell[y].prev
      BY <1>1 DEF Cell, SameFilters
<1>3. m1 = [m EXCEPT !.cell = c]
  <2>1. [[m.cell EXCEPT ![n].next = p] EXCEPT ![n].prev = q] = c
        BY <1>1 DEF Cell
  <2>2. m1 = [m EXCEPT !.cell = [[m.cell EXCEPT ![n].next = p] EXCEPT ![n].prev = q]]
        BY DEF Memory
  <2> QED BY <2>1, <2>2
<1> HIDE DEF c
<1>4. /\ m1 \in Memory /\ m1.used = m.used /\ m1.head = m.head /\ m1.ok = m.ok
      /\ m1.cell = c
      BY <1>2, <1>3 DEF Memory
<1> HIDE DEF m1
<1>5. /\ m2 \in Memory /\ m2.used = m.used /\ m2.ok = m.ok
      /\ m2.head = IF q = NULL THEN n ELSE m.head
      /\ SameFilters(m2.cell, c)
      /\ \A y \in Nodes : /\ m2.cell[y].prev = c[y].prev
                          /\ m2.cell[y].next = IF y = q THEN n ELSE c[y].next
  <2>1. CASE q = NULL
    <3>1. /\ m2 \in Memory /\ m2.used = m1.used /\ m2.head = n /\ m2.ok = m1.ok
          /\ m2.cell = m1.cell
          BY <1>1, <1>4, <2>1, SetHeadFacts
    <3> QED BY <1>1, <1>4, <2>1, <3>1 DEF SameFilters
  <2>2. CASE q # NULL
    <3>1. q \in m1.used
          BY <1>4, <2>2
    <3>2. m2 = SetNext(m1, q, n)
          BY <2>2
    <3> HIDE DEF m2
    <3> QED BY <1>1, <1>4, <2>2, <3>1, <3>2, SetNextFacts
  <2> QED BY <2>1, <2>2
<1> HIDE DEF m2
<1>6. /\ r \in Memory /\ r.used = m.used /\ r.ok = m.ok /\ r.head = m2.head
      /\ SameFilters(r.cell, m2.cell)
      /\ \A y \in Nodes : /\ r.cell[y].next = m2.cell[y].next
                          /\ r.cell[y].prev = IF y = p THEN n ELSE m2.cell[y].prev
  <2>1. CASE p = NULL
        BY <1>1, <1>5, <2>1 DEF SameFilters
  <2>2. CASE p # NULL
    <3>1. p \in m2.used
          BY <1>5, <2>2
    <3>2. r = SetPrev(m2, p, n)
          BY <2>2
    <3> HIDE DEF r
    <3> QED BY <1>1, <1>5, <2>2, <3>1, <3>2, SetPrevFacts
  <2> QED BY <2>1, <2>2
<1> HIDE DEF r
<1>7. /\ r \in Memory /\ r.used = m.used /\ r.ok = m.ok
      /\ r.head = IF q = NULL THEN n ELSE m.head
      /\ SameFilters(r.cell, m.cell)
      /\ \A y \in Nodes :
           /\ r.cell[y].next = IF y = n THEN p ELSE IF y = q THEN n
                               ELSE m.cell[y].next
           /\ r.cell[y].prev = IF y = n THEN q ELSE IF y = p THEN n
                               ELSE m.cell[y].prev
      BY <1>2, <1>5, <1>6 DEF SameFilters
<1>8. Link(m, n, q, p) = r
      BY DEF Link, r, m2, m1
<1> QED BY <1>7, <1>8

(* Node n linked between its neighbours in the order of precedence.        *)
LEMMA LinkFacts ==
  ASSUME NEW m \in Memory, NEW L, L \subseteq m.used, Linked(m.head, m.cell, L),
         NEW n \in m.used \ L, NEW q \in L \cup {NULL}, NEW p \in L \cup {NULL},
         \A y \in L : m.cell[y].prec # m.cell[n].prec,
         Before(m.cell, L, n, q), After(m.cell, L, n, p)
  PROVE  LET r == Link(m, n, q, p)
         IN  /\ r \in Memory /\ r.used = m.used /\ r.ok = m.ok
             /\ Linked(r.head, r.cell, L \cup {n})
             /\ SameFilters(r.cell, m.cell)
             /\ \A y \in Nodes \ (L \cup {n}) :
                  r.cell[y].next = m.cell[y].next /\ r.cell[y].prev = m.cell[y].prev
<1> DEFINE r == Link(m, n, q, p)
           c == m.cell
           d == r.cell
           K == L \cup {n}
<1>1. /\ NULL \notin Nodes /\ L \subseteq Nodes /\ n \in Nodes /\ n \notin L
      /\ K \subseteq Nodes
      /\ \A y \in Nodes : c[y].prec \in Nat
      BY QosAgentAssumption DEF Memory, Cell
<1>2. /\ r \in Memory /\ r.used = m.used /\ r.ok = m.ok
      /\ r.head = IF q = NULL THEN n ELSE m.head
      /\ SameFilters(d, c)
      /\ \A y \in Nodes :
           /\ d[y].next = IF y = n THEN p ELSE IF y = q THEN n ELSE c[y].next
           /\ d[y].prev = IF y = n THEN q ELSE IF y = p THEN n ELSE c[y].prev
  <2>1. q \in m.used \cup {NULL} /\ p \in m.used \cup {NULL} /\ q # n /\ p # n
        BY <1>1
  <2> QED BY <2>1, LinkAssigns
<1> HIDE DEF r, c
<1>3. \A y \in Nodes : d[y].prec = c[y].prec
      BY <1>2 DEF SameFilters
<1> HIDE DEF d
<1>4. /\ \A x, y \in L : c[x].prec = c[y].prec => x = y
      /\ IF L = {} THEN m.head = NULL
         ELSE m.head \in L /\ \A y \in L : c[m.head].prec <= c[y].prec
      /\ \A y \in L : After(c, L, y, c[y].next) /\ Before(c, L, y, c[y].prev)
      /\ \A y \in L : c[y].prec # c[n].prec
      /\ Before(c, L, n, q) /\ After(c, L, n, p)
      BY DEF Linked, c
<1>5. \A x, y \in K : d[x].prec = d[y].prec => x = y
      BY <1>1, <1>3, <1>4
<1>6. K # {} /\ r.head \in K /\ \A y \in K : d[r.head].prec <= d[y].prec
  <2>1. CASE q = NULL
        BY <1>1, <1>2, <1>3, <1>4, <2>1 DEF Before
  <2>2. CASE q # NULL
        BY <1>1, <1>2, <1>3, <1>4, <2>2 DEF Before
  <2> QED BY <2>1, <2>2
<1>7. ASSUME NEW y \in K
      PROVE  After(d, K, y, d[y].next)
  <2>1. CASE y = n
        BY <1>1, <1>2, <1>3, <1>4, <2>1 DEF After
  <2>2. CASE y = q /\ y # n
        BY <1>1, <1>2, <1>3, <1>4, <2>2 DEF After, Before
  <2>3. CASE y # n /\ y # q
    <3>1. y \in L /\ d[y].next = c[y].next /\ After(c, L, y, c[y].next)
          BY <1>1, <1>2, <1>4, <2>3
    <3>2. d[y].prec = c[y].prec /\ c[y].prec \in Nat /\ c[n].prec \in Nat
          BY <1>1, <1>3
    <3>3. CASE c[y].next = NULL
      <4>1. \A x \in L : c[x].prec <= c[y].prec
            BY <3>1, <3>3 DEF After
      <4>2. q = NULL \/ c[q].prec < c[y].prec
            BY <1>1, <1>4, <2>3, <3>1, <4>1
      <4>3. c[n].prec < c[y].prec
        <5>1. c[n].prec <= c[y].prec
              BY <1>1, <1>4, <3>1, <4>2 DEF Before
        <5>2. c[n].prec # c[y].prec
              BY <1>4, <3>1
        <5> QED BY <3>2, <5>1, <5>2
      <4> QED BY <1>1, <1>3, <3>1, <3>3, <4>1, <4>3 DEF After
    <3>4. CASE c[y].next # NULL
      <4> DEFINE x == c[y].next
      <4>1. /\ x \in L /\ c[y].prec < c[x].prec
            /\ \A z \in L : c[z].prec <= c[y].prec \/ c[x].prec <= c[z].prec
            BY <3>1, <3>4 DEF After
      <4> HIDE DEF x
      <4>2. ~ (c[y].prec < c[n].prec /\ c[n].prec < c[x].prec)
        <5>1. SUFFICES ASSUME c[y].prec < c[n].prec, c[n].prec < c[x].prec
                       PROVE  FALSE
              OBVIOUS
        <5>2. q # NULL
              BY <1>1, <1>4, <3>1, <5>1 DEF Before
        <5>3. q \in L /\ c[y].prec <= c[q].prec /\ c[q].prec < c[n].prec
              BY <1>1, <1>4, <3>1, <5>1, <5>2 DEF Before
        <5>4. c[q].prec # c[y].prec
              BY <1>4, <2>3, <3>1, <5>3
        <5> QED BY <1>1, <4>1, <5>1, <5>3, <5>4, <3>1
      <4>3. c[n].prec <= c[y].prec \/ c[x].prec <= c[n].prec
            BY <1>1, <4>1, <4>2, <3>2
      <4>4. d[y].next = x /\ x # NULL
            BY <3>1, <3>4 DEF x
      <4> QED BY <1>1, <1>3, <3>1, <4>1, <4>3, <4>4 DEF After
    <3> QED BY <3>3, <3>4
  <2> QED BY <2>1, <2>2, <2>3
<1>8. ASSUME NEW y \in K
      PROVE  Before(d, K, y, d[y].prev)
  <2>1. CASE y = n
        BY <1>1, <1>2, <1>3, <1>4, <2>1 DEF Before
  <2>2. CASE y = p /\ y # n
        BY <1>1, <1>2, <1>3, <1>4, <2>2 DEF After, Before
  <2>3. CASE y # n /\ y # p
    <3>1. y \in L /\ d[y].prev = c[y].prev /\ Before(c, L, y, c[y].prev)
          BY <1>1, <1>2, <1>4, <2>3
    <3>2. d[y].prec = c[y].prec /\ c[y].prec \in Nat /\ c[n].prec \in Nat
          BY <1>1, <1>3
    <3>3. CASE c[y].prev = NULL
      <4>1. \A x \in L : c[y].prec <= c[x].prec
            BY <3>1, <3>3 DEF Before
      <4>2. p = NULL \/ c[y].prec < c[p].prec
            BY <1>1, <1>4, <2>3, <3>1, <4>1
      <4>3. c[y].prec < c[n].prec
        <5>1. c[y].prec <= c[n].prec
              BY <1>1, <1>4, <3>1, <4>2 DEF After
        <5>2. c[n].prec # c[y].prec
              BY <1>4, <3>1
        <5> QED BY <3>2, <5>1, <5>2
      <4> QED BY <1>1, <1>3, <3>1, <3>3, <4>1, <4>3 DEF Before
    <3>4. CASE c[y].prev # NULL
      <4> DEFINE x == c[y].prev
      <4>1. /\ x \in L /\ c[x].prec < c[y].prec
            /\ \A z \in L : c[z].prec <= c[x].prec \/ c[y].prec <= c[z].prec
            BY <3>1, <3>4 DEF Before
      <4> HIDE DEF x
      <4>2. ~ (c[x].prec < c[n].prec /\ c[n].prec < c[y].prec)
        <5>1. SUFFICES ASSUME c[x].prec < c[n].prec, c[n].prec < c[y].prec
                       PROVE  FALSE
              OBVIOUS
        <5>2. p # NULL
              BY <1>1, <1>4, <3>1, <5>1 DEF After
        <5>3. p \in L /\ c[p].prec <= c[y].prec /\ c[n].prec < c[p].prec
              BY <1>1, <1>4, <3>1, <5>1, <5>2 DEF After
        <5>4. c[p].prec # c[y].prec
              BY <1>4, <2>3, <3>1, <5>3
        <5> QED BY <1>1, <4>1, <5>1, <5>3, <5>4, <3>1
      <4>3. c[n].prec <= c[x].prec \/ c[y].prec <= c[n].prec
            BY <1>1, <4>1, <4>2, <3>2
      <4>4. d[y].prev = x /\ x # NULL
            BY <3>1, <3>4 DEF x
      <4> QED BY <1>1, <1>3, <3>1, <4>1, <4>3, <4>4 DEF Before
    <3> QED BY <3>3, <3>4
  <2> QED BY <2>1, <2>2, <2>3
<1>9. Linked(r.head, d, K)
      BY <1>5, <1>6, <1>7, <1>8 DEF Linked
<1>10. \A y \in Nodes \ K : d[y].next = c[y].next /\ d[y].prev = c[y].prev
  <2>1. p \in K \cup {NULL} /\ q \in K \cup {NULL}
        OBVIOUS
  <2> QED BY <1>1, <1>2, <2>1
<1> QED BY <1>2, <1>9, <1>10 DEF r, c, d

(* The neighbours of a node of a list, and of its neighbours.              *)
LEMMA NeighbourFacts ==
  ASSUME NEW m \in Memory, NEW L, L \subseteq m.used, Linked(m.head, m.cell, L),
         NEW n \in L
  PROVE  LET nx == m.cell[n].next
             pv == m.cell[n].prev
         IN  /\ nx \in L \cup {NULL} /\ pv \in L \cup {NULL} /\ nx # n /\ pv # n
             /\ n = m.head <=> pv = NULL
             /\ nx # NULL => m.cell[nx].prev = n
             /\ pv # NULL => m.cell[pv].next = n
             /\ nx # NULL => nx # pv
<1> DEFINE c == m.cell
           nx == c[n].next
           pv == c[n].prev
<1>1. /\ NULL \notin Nodes /\ L \subseteq Nodes /\ NULL \notin L
      /\ \A y \in L : c[y].prec \in Nat
      BY QosAgentAssumption DEF Memory, Cell
<1> HIDE DEF c
<1>2. /\ \A x, y \in L : c[x].prec = c[y].prec => x = y
      /\ m.head \in L /\ \A y \in L : c[m.head].prec <= c[y].prec
      /\ \A y \in L : After(c, L, y, c[y].next) /\ Before(c, L, y, c[y].prev)
      BY DEF Linked, c
<1>3. After(c, L, n, nx) /\ Before(c, L, n, pv)
      BY <1>2
<1> HIDE DEF nx, pv
<1>4. /\ nx \in L \cup {NULL} /\ pv \in L \cup {NULL} /\ nx # n /\ pv # n
      /\ nx # NULL => nx # pv
      BY <1>1, <1>3 DEF After, Before
<1>5. n = m.head <=> pv = NULL
      BY <1>1, <1>2, <1>3 DEF Before
<1>6. ASSUME nx # NULL
      PROVE  c[nx].prev = n
  <2> DEFINE z == c[nx].prev
  <2>1. nx \in L /\ c[n].prec < c[nx].prec /\ Before(c, L, nx, z)
        BY <1>2, <1>3, <1>6 DEF After
  <2> HIDE DEF z
  <2>2. z # NULL
        BY <1>1, <2>1 DEF Before
  <2>3. z \in L /\ c[z].prec < c[nx].prec /\ c[n].prec <= c[z].prec
        BY <1>1, <2>1, <2>2 DEF Before
  <2>4. c[z].prec <= c[n].prec
        BY <1>1, <1>3, <1>6, <2>1, <2>3 DEF After
  <2>5. c[z].prec = c[n].prec
        BY <1>1, <2>3, <2>4
  <2> QED BY <1>2, <2>3, <2>5 DEF z
<1>7. ASSUME pv # NULL
      PROVE  c[pv].next = n
  <2> DEFINE z == c[pv].next
  <2>1. pv \in L /\ c[pv].prec < c[n].prec /\ After(c, L, pv, z)
        BY <1>2, <1>3, <1>7 DEF Before
  <2> HIDE DEF z
  <2>2. z # NULL
        BY <1>1, <2>1 DEF After
  <2>3. z \in L /\ c[pv].prec < c[z].prec /\ c[z].prec <= c[n].prec
        BY <1>1, <2>1, <2>2 DEF After
  <2>4. c[n].prec <= c[z].prec
        BY <1>1, <1>3, <1>7, <2>1, <2>3 DEF Before
  <2>5. c[z].prec = c[n].prec
        BY <1>1, <2>3, <2>4
  <2> QED BY <1>2, <2>3, <2>5 DEF z
<1> QED BY <1>4, <1>5, <1>6, <1>7 DEF nx, pv, c

(* What Unlink does to the links of a list.                                *)
LEMMA UnlinkAssigns ==
  ASSUME NEW m \in Memory, NEW L, L \subseteq m.used, Linked(m.head, m.cell, L),
         NEW n \in L
  PROVE  LET nx == m.cell[n].next
             pv == m.cell[n].prev
             r == Unlink(m, n)
         IN  /\ r \in Memory /\ r.used = m.used /\ r.ok = m.ok
             /\ r.head = IF pv = NULL THEN nx ELSE m.head
             /\ SameFilters(r.cell, m.cell)
             /\ \A y \in Nodes :
                  /\ r.cell[y].next = IF y = pv THEN nx ELSE m.cell[y].next
                  /\ r.cell[y].prev = IF y = nx THEN pv ELSE m.cell[y].prev
<1> DEFINE nx == m.cell[n].next
           pv == m.cell[n].prev
           r == Unlink(m, n)
<1>1. /\ NULL \notin Nodes /\ m.used \subseteq Nodes /\ m.cell \in [Nodes -> Cell]
      BY QosAgentAssumption DEF Memory
<1>2. /\ nx \in m.used \cup {NULL} /\ pv \in m.used \cup {NULL}
      /\ n = m.head <=> pv = NULL
      /\ nx \in Ref /\ pv \in Ref
      BY <1>1, NeighbourFacts DEF Ref
<1>3. r = IF n = m.head
          THEN IF nx = NULL THEN [m EXCEPT !.head = nx]
               ELSE SetPrev([m EXCEPT !.head = nx], nx, NULL)
          ELSE IF nx = NULL THEN SetNext(m, pv, NULL)
          ELSE SetPrev(SetNext(m, pv, nx), nx, pv)
      BY DEF Unlink
<1> HIDE DEF r, nx, pv
<1>4. CASE pv = NULL
  <2> DEFINE h == [m EXCEPT !.head = nx]
  <2>1. /\ h \in Memory /\ h.used = m.used /\ h.head = nx /\ h.ok = m.ok
        /\ h.cell = m.cell
        BY <1>2, SetHeadFacts
  <2>2. r = IF nx = NULL THEN h ELSE SetPrev(h, nx, NULL)
        BY <1>2, <1>3, <1>4
  <2> HIDE DEF h
  <2>3. CASE nx = NULL
        BY <1>1, <1>4, <2>1, <2>2, <2>3 DEF SameFilters, r, nx, pv
  <2>4. CASE nx # NULL
    <3>1. nx \in h.used /\ NULL \in Ref
          BY <1>2, <2>1, <2>4 DEF Ref
    <3>2. r = SetPrev(h, nx, NULL)
          BY <2>2, <2>4
    <3>3. /\ r \in Memory /\ r.used = h.used /\ r.head = h.head /\ r.ok = h.ok
          /\ SameFilters(r.cell, h.cell)
          /\ \A y \in Nodes : /\ r.cell[y].next = h.cell[y].next
                              /\ r.cell[y].prev = IF y = nx THEN NULL ELSE h.cell[y].prev
          BY <2>1, <3>1, <3>2, SetPrevFacts
    <3> QED BY <1>1, <1>4, <2>1, <3>3 DEF r, nx, pv
  <2> QED BY <2>3, <2>4
<1>5. CASE pv # NULL
  <2> DEFINE h == SetNext(m, pv, nx)
  <2>1. /\ h \in Memory /\ h.used = m.used /\ h.head = m.head /\ h.ok = m.ok
        /\ SameFilters(h.cell, m.cell)
        /\ \A y \in Nodes : /\ h.cell[y].prev = m.cell[y].prev
                            /\ h.cell[y].next = IF y = pv THEN nx ELSE m.cell[y].next
        BY <1>2, <1>5, SetNextFacts
  <2>2. r = IF nx = NULL THEN h ELSE SetPrev(h, nx, pv)
        BY <1>2, <1>3, <1>5
  <2> HIDE DEF h
  <2>3. CASE nx = NULL
    <3>1. r = h
          BY <2>2, <2>3
    <3> QED BY <1>1, <1>5, <2>1, <2>3, <3>1 DEF r, nx, pv
  <2>4. CASE nx # NULL
    <3>1. nx \in h.used
          BY <1>2, <2>1, <2>4
    <3>2. r = SetPrev(h, nx, pv)
          BY <2>2, <2>4
    <3>3. /\ r \in Memory /\ r.used = h.used /\ r.head = h.head /\ r.ok = h.ok
          /\ SameFilters(r.cell, h.cell)
          /\ \A y \in Nodes : /\ r.cell[y].next = h.cell[y].next
                              /\ r.cell[y].prev = IF y = nx THEN pv ELSE h.cell[y].prev
          BY <1>2, <2>1, <3>1, <3>2, SetPrevFacts
    <3>4. SameFilters(r.cell, m.cell)
          BY <2>1, <3>3 DEF SameFilters
    <3> QED BY <1>1, <1>5, <2>1, <3>3, <3>4 DEF r, nx, pv
  <2> QED BY <2>3, <2>4
<1> QED BY <1>4, <1>5

(* A node taken out of its list.                                           *)
LEMMA UnlinkFacts ==
  ASSUME NEW m \in Memory, NEW L, L \subseteq m.used, Linked(m.head, m.cell, L),
         NEW n \in L
  PROVE  LET r == Unlink(m, n)
         IN  /\ r \in Memory /\ r.used = m.used /\ r.ok = m.ok
             /\ Linked(r.head, r.cell, L \ {n})
             /\ SameFilters(r.cell, m.cell)
             /\ \A y \in Nodes \ L :
                  r.cell[y].next = m.cell[y].next /\ r.cell[y].prev = m.cell[y].prev
<1> DEFINE r == Unlink(m, n)
           c == m.cell
           d == r.cell
           K == L \ {n}
           nx == c[n].next
           pv == c[n].prev
<1>1. /\ NULL \notin Nodes /\ L \subseteq Nodes /\ NULL \notin L
      /\ \A y \in L : c[y].prec \in Nat
      BY QosAgentAssumption DEF Memory, Cell
<1>2. /\ r \in Memory /\ r.used = m.used /\ r.ok = m.ok
      /\ r.head = IF pv = NULL THEN nx ELSE m.head
      /\ SameFilters(d, c)
      /\ \A y \in Nodes :
           /\ d[y].next = IF y = pv THEN nx ELSE c[y].next
           /\ d[y].prev = IF y = nx THEN pv ELSE c[y].prev
      BY UnlinkAssigns
<1>3. /\ nx \in L \cup {NULL} /\ pv \in L \cup {NULL} /\ nx # n /\ pv # n
      /\ n = m.head <=> pv = NULL
      /\ nx # NULL => nx # pv
      BY NeighbourFacts
<1> HIDE DEF r, c
<1>4. \A y \in Nodes : d[y].prec = c[y].prec
      BY <1>2 DEF SameFilters
<1> HIDE DEF d
<1>5. /\ \A x, y \in L : c[x].prec = c[y].prec => x = y
      /\ m.head \in L /\ \A y \in L : c[m.head].prec <= c[y].prec
      /\ \A y \in L : After(c, L, y, c[y].next) /\ Before(c, L, y, c[y].prev)
      BY DEF Linked, c
<1>6. After(c, L, n, nx) /\ Before(c, L, n, pv)
      BY <1>5
<1> HIDE DEF nx, pv
<1>7. IF K = {} THEN r.head = NULL
      ELSE r.head \in K /\ \A y \in K : d[r.head].prec <= d[y].prec
  <2>1. CASE pv # NULL
        BY <1>1, <1>2, <1>3, <1>4, <1>5, <2>1
  <2>2. CASE pv = NULL /\ nx = NULL
    <3>1. ASSUME NEW y \in K PROVE FALSE
      <4>1. c[y].prec <= c[n].prec /\ c[n].prec <= c[y].prec
            BY <1>6, <2>2 DEF After, Before
      <4> QED BY <1>1, <1>5, <4>1
    <3> QED BY <1>2, <2>2, <3>1
  <2>3. CASE pv = NULL /\ nx # NULL
    <3>1. nx \in K /\ r.head = nx
          BY <1>2, <1>3, <2>3
    <3>2. ASSUME NEW y \in K PROVE c[nx].prec <= c[y].prec
      <4>1. c[y].prec <= c[n].prec \/ c[nx].prec <= c[y].prec
            BY <1>6, <2>3 DEF After
      <4>2. c[n].prec <= c[y].prec /\ c[n].prec # c[y].prec
            BY <1>5, <1>6, <2>3 DEF Before
      <4> QED BY <1>1, <4>1, <4>2
    <3> QED BY <1>1, <1>4, <3>1, <3>2
  <2> QED BY <2>1, <2>2, <2>3
<1>8. ASSUME NEW y \in K
      PROVE  After(d, K, y, d[y].next)
  <2>1. CASE y = pv
    <3>1. /\ d[y].next = nx /\ c[y].prec < c[n].prec
          /\ \A z \in L : c[z].prec <= c[y].prec \/ c[n].prec <= c[z].prec
          BY <1>1, <1>2, <1>6, <2>1 DEF Before
    <3>2. ASSUME NEW z \in K
          PROVE  c[z].prec <= c[y].prec \/ c[n].prec < c[z].prec
      <4>1. c[z].prec # c[n].prec
            BY <1>5
      <4> QED BY <1>1, <3>1, <4>1
    <3>3. CASE nx = NULL
      <4>1. \A z \in K : c[z].prec <= c[n].prec
            BY <1>6, <3>3 DEF After
      <4>2. \A z \in K : c[z].prec <= c[y].prec
            BY <1>1, <3>2, <4>1
      <4> QED BY <1>1, <1>4, <3>1, <3>3, <4>2 DEF After
    <3>4. CASE nx # NULL
      <4>1. /\ nx \in K /\ c[n].prec < c[nx].prec
            /\ \A z \in L : c[z].prec <= c[n].prec \/ c[nx].prec <= c[z].prec
            BY <1>3, <1>6, <3>4 DEF After
      <4>2. \A z \in K : c[z].prec <= c[y].prec \/ c[nx].prec <= c[z].prec
            BY <1>1, <3>2, <4>1
      <4>3. c[y].prec < c[nx].prec
            BY <1>1, <3>1, <4>1
      <4> QED BY <1>1, <1>4, <3>1, <3>4, <4>1, <4>2, <4>3 DEF After
    <3> QED BY <3>3, <3>4
  <2>2. CASE y # pv
    <3>1. /\ d[y].next = c[y].next /\ After(c, L, y, c[y].next)
          BY <1>1, <1>2, <1>5, <2>2
    <3>2. c[y].next # n
      <4>1. ASSUME c[y].next = n PROVE FALSE
        <5>1. /\ c[y].prec < c[n].prec
              /\ \A z \in L : c[z].prec <= c[y].prec \/ c[n].prec <= c[z].prec
              BY <1>1, <3>1, <4>1 DEF After
        <5>2. pv \in L /\ c[pv].prec < c[n].prec /\ c[y].prec <= c[pv].prec
              BY <1>1, <1>3, <1>6, <5>1 DEF Before
        <5>3. c[pv].prec = c[y].prec
              BY <1>1, <5>1, <5>2
        <5> QED BY <1>5, <2>2, <5>2, <5>3
      <4> QED BY <4>1
    <3> QED BY <1>1, <1>4, <3>1, <3>2 DEF After
  <2> QED BY <2>1, <2>2
<1>9. ASSUME NEW y \in K
      PROVE  Before(d, K, y, d[y].prev)
  <2>1. CASE y = nx
    <3>1. /\ d[y].prev = pv /\ c[n].prec < c[y].prec
          /\ \A z \in L : c[z].prec <= c[n].prec \/ c[y].prec <= c[z].prec
          BY <1>1, <1>2, <1>6, <2>1 DEF After
    <3>2. ASSUME NEW z \in K
          PROVE  c[z].prec < c[n].prec \/ c[y].prec <= c[z].prec
      <4>1. c[z].prec # c[n].prec
            BY <1>5
      <4> QED BY <1>1, <3>1, <4>1
    <3>3. CASE pv = NULL
      <4>1. \A z \in K : c[n].prec <= c[z].prec
            BY <1>6, <3>3 DEF Before
      <4>2. \A z \in K : c[y].prec <= c[z].prec
            BY <1>1, <3>2, <4>1
      <4> QED BY <1>1, <1>4, <3>1, <3>3, <4>2 DEF Before
    <3>4. CASE pv # NULL
      <4>1. /\ pv \in K /\ c[pv].prec < c[n].prec
            /\ \A z \in L : c[z].prec <= c[pv].prec \/ c[n].prec <= c[z].prec
            BY <1>3, <1>6, <3>4 DEF Before
      <4>2. \A z \in K : c[z].prec <= c[pv].prec \/ c[y].prec <= c[z].prec
            BY <1>1, <3>2, <4>1
      <4>3. c[pv].prec < c[y].prec
            BY <1>1, <3>1, <4>1
      <4> QED BY <1>1, <1>4, <3>1, <3>4, <4>1, <4>2, <4>3 DEF Before
    <3> QED BY <3>3, <3>4
  <2>2. CASE y # nx
    <3>1. /\ d[y].prev = c[y].prev /\ Before(c, L, y, c[y].prev)
          BY <1>1, <1>2, <1>5, <2>2
    <3>2. c[y].prev # n
      <4>1. ASSUME c[y].prev = n PROVE FALSE
        <5>1. /\ c[n].prec < c[y].prec
              /\ \A z \in L : c[z].prec <= c[n].prec \/ c[y].prec <= c[z].prec
              BY <1>1, <3>1, <4>1 DEF Before
        <5>2. nx \in L /\ c[n].prec < c[nx].prec /\ c[nx].prec <= c[y].prec
              BY <1>1, <1>3, <1>6, <5>1 DEF After
        <5>3. c[nx].prec = c[y].prec
              BY <1>1, <5>1, <5>2
        <5> QED BY <1>5, <2>2, <5>2, <5>3
      <4> QED BY <4>1
    <3> QED BY <1>1, <1>4, <3>1, <3>2 DEF Before
  <2> QED BY <2>1, <2>2
<1>10. Linked(r.head, d, K)
  <2>1. \A x, y \in K : d[x].prec = d[y].prec => x = y
        BY <1>1, <1>4, <1>5
  <2> QED BY <1>7, <1>8, <1>9, <2>1 DEF Linked
<1>11. \A y \in Nodes \ L : d[y].next = c[y].next /\ d[y].prev = c[y].prev
      BY <1>1, <1>2, <1>3
<1> QED BY <1>2, <1>10, <1>11 DEF r, c, d

(* g records a walk of k steps along a list.                               *)
Steps(g, m, k) ==
  g = [i \in 0 .. k |->
         IF i = 0 THEN m.head
         ELSE IF g[i - 1] \in m.used THEN m.cell[g[i - 1]].next ELSE NULL]

(* A walk can have any length: a smallest length that it cannot have would *)
(* be one more than a length that it can.                                  *)
LEMMA StepsExist ==
  ASSUME NEW m, NEW nb \in Nat
  PROVE  \E g : Steps(g, m, nb)
<1> DEFINE Bad == {k \in Nat : ~\E g : Steps(g, m, k)}
<1>1. ASSUME Bad # {} PROVE FALSE
  <2>1. PICK k \in Bad : \A i \in Bad : k <= i
        BY <1>1, FirstOf
  <2>2. CASE k = 0
    <3>1. Steps([i \in 0 .. 0 |-> m.head], m, 0)
          BY DEF Steps
    <3> QED BY <2>2, <3>1
  <2>3. CASE k # 0
    <3>1. k - 1 \in Nat /\ k \in Nat
          BY <2>3
    <3>2. k - 1 \notin Bad
          BY <2>1, <3>1
    <3>3. PICK g : Steps(g, m, k - 1)
          BY <3>1, <3>2
    <3> DEFINE h == [i \in 0 .. k |->
                       IF i = 0 THEN m.head
                       ELSE IF g[i - 1] \in m.used THEN m.cell[g[i - 1]].next ELSE NULL]
    <3>4. \A i \in 0 .. (k - 1) : h[i] = g[i]
      <4> TAKE i \in 0 .. (k - 1)
      <4> DEFINE next == IF i = 0 THEN m.head
                         ELSE IF g[i - 1] \in m.used THEN m.cell[g[i - 1]].next
                         ELSE NULL
      <4>1. i \in 0 .. k
            BY <3>1
      <4>2. h[i] = next
            BY <4>1
      <4>3. g[i] = next
            BY <3>3, Zenon DEF Steps
      <4> QED BY <4>2, <4>3
    <3>5. \A i \in 0 .. k : i # 0 => i - 1 \in 0 .. (k - 1)
          BY <3>1
    <3>6. Steps(h, m, k)
          BY <3>4, <3>5 DEF Steps
    <3> QED BY <3>6
  <2> QED BY <2>2, <2>3
<1> QED BY <1>1

(* The heap is finite.                                                     *)
LEMMA NodeNbType == NodeNb \in Nat
BY QosAgentAssumption, FS_CardinalityType DEF NodeNb

(* The walk of a list, step by step.                                       *)
LEMMA WalkDef ==
  ASSUME NEW m
  PROVE  /\ Walk(m)[0] = m.head
         /\ \A k \in 1 .. NodeNb :
              Walk(m)[k] = IF Walk(m)[k - 1] \in m.used
                           THEN m.cell[Walk(m)[k - 1]].next ELSE NULL
<1> DEFINE g == CHOOSE g : Steps(g, m, NodeNb)
<1>1. Steps(g, m, NodeNb)
      BY StepsExist, NodeNbType
<1>2. Walk(m) = g
      BY DEF Walk, Steps
<1> HIDE DEF g
<1>3. 0 \in 0 .. NodeNb /\ \A k \in 1 .. NodeNb : k \in 0 .. NodeNb /\ k # 0
      BY NodeNbType
<1>4. g[0] = m.head
      BY <1>1, <1>3, Zenon DEF Steps
<1>5. \A k \in 1 .. NodeNb :
        g[k] = IF g[k - 1] \in m.used THEN m.cell[g[k - 1]].next ELSE NULL
      BY <1>1, <1>3, Zenon DEF Steps
<1> QED BY <1>2, <1>4, <1>5

(* The nodes of a list that are before n.                                  *)
Lower(c, L, n) == {y \in L : c[y].prec < c[n].prec}

(* The k-th node of a walk is the one with k nodes before it.              *)
LEMMA WalkFacts ==
  ASSUME NEW m \in Memory, NEW L, L \subseteq m.used, Linked(m.head, m.cell, L)
  PROVE  \A k \in 0 .. NodeNb :
           IF k < Cardinality(L)
           THEN Walk(m)[k] \in L /\ Cardinality(Lower(m.cell, L, Walk(m)[k])) = k
           ELSE Walk(m)[k] = NULL
<1> DEFINE c == m.cell
           w == Walk(m)
           N == Cardinality(L)
           Good(k) == IF k < N THEN w[k] \in L /\ Cardinality(Lower(c, L, w[k])) = k
                               ELSE w[k] = NULL
           Bad == {k \in 0 .. NodeNb : ~Good(k)}
<1>1. /\ NULL \notin Nodes /\ L \subseteq Nodes /\ NULL \notin L /\ IsFiniteSet(L)
      /\ NULL \notin m.used
      /\ \A y \in L : c[y].prec \in Nat
      BY QosAgentAssumption, FS_Subset DEF Memory, Cell
<1>2. NodeNb \in Nat /\ N \in Nat
      BY <1>1, NodeNbType, FS_CardinalityType
<1>3. /\ \A x, y \in L : c[x].prec = c[y].prec => x = y
      /\ IF L = {} THEN m.head = NULL
         ELSE m.head \in L /\ \A y \in L : c[m.head].prec <= c[y].prec
      /\ \A y \in L : After(c, L, y, c[y].next)
      BY DEF Linked
<1> HIDE DEF c
<1>4. ASSUME Bad # {} PROVE FALSE
  <2>1. Bad \subseteq Nat
        BY <1>2
  <2>2. PICK k \in Bad : \A i \in Bad : k <= i
        BY <1>4, <2>1, FirstOf
  <2>3. k # 0
    <3>1. w[0] = m.head
          BY WalkDef
    <3>2. CASE L = {}
      <4>1. N = 0
            BY <3>2, FS_EmptySet
      <4> QED BY <1>3, <2>2, <3>1, <3>2, <4>1
    <3>3. CASE L # {}
      <4>1. N # 0
            BY <1>1, <3>3, FS_EmptySet
      <4>2. Lower(c, L, m.head) = {}
            BY <1>1, <1>3, <3>3 DEF Lower
      <4>3. Cardinality(Lower(c, L, m.head)) = 0
            BY <4>2, FS_EmptySet
      <4>4. Good(0)
            BY <1>2, <1>3, <3>1, <3>3, <4>1, <4>3
      <4> QED BY <2>2, <4>4
    <3> QED BY <3>2, <3>3
  <2>4. k \in 1 .. NodeNb /\ k - 1 \in 0 .. NodeNb /\ ~(k <= k - 1)
        BY <1>2, <2>2, <2>3
  <2>5. Good(k - 1)
        BY <2>2, <2>4
  <2> DEFINE v == w[k - 1]
  <2>6. w[k] = IF v \in m.used THEN m.cell[v].next ELSE NULL
        BY <2>4, WalkDef
  <2> HIDE DEF w
  <2>7. CASE ~ (k - 1 < N)
    <3>1. v = NULL /\ ~ (k < N)
          BY <1>2, <2>4, <2>5, <2>7
    <3>2. w[k] = NULL
          BY <1>1, <2>6, <3>1
    <3> QED BY <2>2, <3>1, <3>2
  <2>8. CASE k - 1 < N
    <3>1. v \in L /\ Cardinality(Lower(c, L, v)) = k - 1
          BY <2>5, <2>8
    <3> HIDE DEF v
    <3>2. w[k] = c[v].next
          BY <2>6, <3>1 DEF c
    <3> DEFINE x == c[v].next
    <3>3. After(c, L, v, x)
          BY <1>3, <3>1
    <3> HIDE DEF x
    <3>4. v \notin Lower(c, L, v) /\ IsFiniteSet(Lower(c, L, v))
      <4>1. Lower(c, L, v) \in SUBSET L
            BY DEF Lower
      <4>2. v \notin Lower(c, L, v)
            BY <1>1, <3>1 DEF Lower
      <4> QED BY <1>1, <4>1, <4>2, FS_Subset
    <3>5. Cardinality(Lower(c, L, v) \cup {v}) = k
      <4>1. Cardinality(Lower(c, L, v) \cup {v}) = Cardinality(Lower(c, L, v)) + 1
            BY <3>4, FS_AddElement
      <4> QED BY <2>4, <3>1, <4>1
    <3>6. CASE x = NULL
      <4>1. L = Lower(c, L, v) \cup {v}
        <5>1. ASSUME NEW y \in L PROVE y \in Lower(c, L, v) \cup {v}
          <6>1. c[y].prec <= c[v].prec
                BY <3>3, <3>6 DEF After
          <6>2. c[y].prec # c[v].prec \/ y = v
                BY <1>3, <3>1
          <6> QED BY <1>1, <3>1, <6>1, <6>2 DEF Lower
        <5> QED BY <3>1, <5>1 DEF Lower
      <4>2. N = k
            BY <3>5, <4>1
      <4> HIDE DEF N
      <4>3. Good(k)
            BY <2>4, <3>2, <3>6, <4>2 DEF x
      <4> QED BY <2>2, <4>3
    <3>7. CASE x # NULL
      <4>1. /\ x \in L /\ c[v].prec < c[x].prec
            /\ \A y \in L : c[y].prec <= c[v].prec \/ c[x].prec <= c[y].prec
            BY <3>3, <3>7 DEF After
      <4>2. Lower(c, L, x) = Lower(c, L, v) \cup {v}
        <5>1. ASSUME NEW y \in L
              PROVE  c[y].prec < c[x].prec <=> c[y].prec < c[v].prec \/ y = v
          <6>1. c[y].prec = c[v].prec => y = v
                BY <1>3, <3>1
          <6> QED BY <1>1, <3>1, <4>1, <6>1
        <5> QED BY <3>1, <5>1 DEF Lower
      <4>3. Cardinality(Lower(c, L, x)) = k
            BY <3>5, <4>2
      <4>4. k < N
        <5>1. Lower(c, L, x) \in SUBSET (L \ {x})
              BY <1>1, <4>1 DEF Lower
        <5>2. IsFiniteSet(L \ {x}) /\ Cardinality(L \ {x}) = N - 1
              BY <1>1, <4>1, FS_RemoveElement
        <5>3. k <= N - 1
              BY <4>3, <5>1, <5>2, FS_Subset
        <5> QED BY <1>2, <2>4, <5>3
      <4> HIDE DEF N
      <4>5. Good(k)
            BY <3>2, <4>1, <4>3, <4>4 DEF x
      <4> QED BY <2>2, <4>5
    <3> QED BY <3>6, <3>7
  <2> QED BY <2>7, <2>8
<1>5. \A k \in 0 .. NodeNb : Good(k)
      BY <1>4
<1> QED BY <1>5 DEF c

(* The walk meets the nodes of the list, in the order of precedence, and   *)
(* then ends.                                                              *)
LEMMA WalkOrder ==
  ASSUME NEW m \in Memory, NEW L, L \subseteq m.used, Linked(m.head, m.cell, L)
  PROVE  /\ NodesOf(m) = L /\ Ends(m)
         /\ \A k \in 0 .. NodeNb : Walk(m)[k] \in L \cup {NULL}
         /\ \A n \in L : \E k \in 0 .. NodeNb : Walk(m)[k] = n
         /\ \A i, j \in 0 .. NodeNb :
              /\ i < j /\ Walk(m)[j] # NULL => Walk(m)[i] # NULL
              /\ i < j /\ Walk(m)[j] # NULL =>
                   m.cell[Walk(m)[i]].prec < m.cell[Walk(m)[j]].prec
<1> DEFINE c == m.cell
           w == Walk(m)
           N == Cardinality(L)
<1>1. /\ NULL \notin Nodes /\ L \subseteq Nodes /\ NULL \notin L /\ IsFiniteSet(L)
      /\ \A y \in L : c[y].prec \in Nat
      /\ IsFiniteSet(Nodes)
      BY QosAgentAssumption, FS_Subset DEF Memory, Cell
<1>2. NodeNb \in Nat /\ N \in Nat /\ N <= NodeNb
      BY <1>1, NodeNbType, FS_CardinalityType, FS_Subset DEF NodeNb
<1>3. \A k \in 0 .. NodeNb :
        IF k < N THEN w[k] \in L /\ Cardinality(Lower(c, L, w[k])) = k
                 ELSE w[k] = NULL
      BY WalkFacts
<1>4. \A x, y \in L : c[x].prec = c[y].prec => x = y
      BY DEF Linked
<1>5. \A n \in L : IsFiniteSet(Lower(c, L, n)) /\ Cardinality(Lower(c, L, n)) \in Nat
  <2> TAKE n \in L
  <2>1. Lower(c, L, n) \in SUBSET L
        BY DEF Lower
  <2> QED BY <1>1, <2>1, FS_Subset, FS_CardinalityType
<1> HIDE DEF w, N
<1>6. ASSUME NEW a \in L, NEW b \in L, c[a].prec <= c[b].prec
      PROVE  Cardinality(Lower(c, L, a)) <= Cardinality(Lower(c, L, b))
  <2>1. Lower(c, L, a) \in SUBSET Lower(c, L, b)
        BY <1>1, <1>6 DEF Lower
  <2> QED BY <1>5, <2>1, FS_Subset
<1>7. \A i, j \in 0 .. NodeNb :
        i < j /\ w[j] # NULL => w[i] # NULL /\ c[w[i]].prec < c[w[j]].prec
  <2> TAKE i, j \in 0 .. NodeNb
  <2>1. SUFFICES ASSUME i < j, w[j] # NULL
                 PROVE  w[i] # NULL /\ c[w[i]].prec < c[w[j]].prec
        OBVIOUS
  <2>2. j < N /\ i < N
        BY <1>2, <1>3, <2>1
  <2>3. /\ w[i] \in L /\ Cardinality(Lower(c, L, w[i])) = i
        /\ w[j] \in L /\ Cardinality(Lower(c, L, w[j])) = j
        BY <1>3, <2>2
  <2>4. ~ (c[w[j]].prec <= c[w[i]].prec)
        BY <1>2, <1>6, <2>1, <2>3
  <2> QED BY <1>1, <2>3, <2>4
<1>8. \A n \in L : \E k \in 0 .. NodeNb : w[k] = n
  <2> TAKE n \in L
  <2> DEFINE k == Cardinality(Lower(c, L, n))
  <2>1. k \in Nat /\ k < N
    <3>1. Lower(c, L, n) \in SUBSET (L \ {n})
          BY <1>1 DEF Lower
    <3>2. IsFiniteSet(L \ {n}) /\ Cardinality(L \ {n}) = N - 1
          BY <1>1, FS_RemoveElement DEF N
    <3>3. k <= N - 1
          BY <3>1, <3>2, FS_Subset
    <3> QED BY <1>2, <1>5, <3>3
  <2>2. k \in 0 .. NodeNb
        BY <1>2, <2>1
  <2>3. w[k] \in L /\ Cardinality(Lower(c, L, w[k])) = k
        BY <1>3, <2>1, <2>2
  <2>4. w[k] = n
    <3> DEFINE v == w[k]
    <3>1. v \in L /\ Cardinality(Lower(c, L, v)) = Cardinality(Lower(c, L, n))
          BY <2>3
    <3> HIDE DEF v
    <3>2. ASSUME NEW a \in L, NEW b \in L, c[a].prec < c[b].prec
          PROVE  Cardinality(Lower(c, L, a)) # Cardinality(Lower(c, L, b))
      <4>1. /\ Lower(c, L, a) \in SUBSET Lower(c, L, b)
            /\ a \in Lower(c, L, b) /\ a \notin Lower(c, L, a)
            BY <1>1, <3>2 DEF Lower
      <4> QED BY <1>5, <4>1, FS_Subset
    <3>3. c[v].prec = c[n].prec
          BY <1>1, <3>1, <3>2
    <3> QED BY <1>4, <3>1, <3>3 DEF v
  <2> QED BY <2>2, <2>4
<1>9. \A k \in 0 .. NodeNb : w[k] \in L \cup {NULL}
      BY <1>3
<1>10. NodesOf(m) = L
      BY <1>1, <1>8, <1>9 DEF NodesOf, w
<1>11. Ends(m)
  <2>1. NodeNb \in 0 .. NodeNb /\ ~ (NodeNb < N)
        BY <1>2
  <2> QED BY <1>3, <2>1 DEF Ends, w
<1> QED BY <1>7, <1>8, <1>9, <1>10, <1>11 DEF w

(* A filter is put where its precedence belongs.                           *)
LEMMA InsertFacts ==
  ASSUME NEW m \in Memory, NEW L, L \subseteq m.used, Linked(m.head, m.cell, L),
         NEW n \in m.used \ L, \A y \in L : m.cell[y].prec # m.cell[n].prec
  PROVE  LET r == InsertSorted(m, n, m.cell[n].prec)
         IN  /\ r \in Memory /\ r.used = m.used /\ r.ok = m.ok
             /\ Linked(r.head, r.cell, L \cup {n})
             /\ SameFilters(r.cell, m.cell)
             /\ \A y \in Nodes \ (L \cup {n}) :
                  r.cell[y].next = m.cell[y].next /\ r.cell[y].prev = m.cell[y].prev
<1> DEFINE c == m.cell
           w == Walk(m)
           prec == c[n].prec
           S == {i \in 0 .. NodeNb : Stops(m, prec, i)}
           k == Min(S)
           q == IF k = 0 THEN NULL ELSE w[k - 1]
           p == w[k]
<1>1. /\ NULL \notin Nodes /\ L \subseteq Nodes /\ NULL \notin L
      /\ \A y \in Nodes : c[y].prec \in Nat
      /\ n \in Nodes /\ prec \in Nat /\ NodeNb \in Nat
      BY QosAgentAssumption, NodeNbType DEF Memory, Cell
<1>2. /\ w[NodeNb] = NULL
      /\ \A i \in 0 .. NodeNb : w[i] \in L \cup {NULL}
      BY WalkOrder DEF Ends
<1>3. \A i \in 0 .. NodeNb : Stops(m, prec, i) <=> w[i] = NULL \/ prec <= c[w[i]].prec
      BY DEF Stops
<1>4. S # {} /\ S \subseteq Nat
      BY <1>1, <1>2, <1>3
<1>5. k \in S /\ \A i \in S : k <= i
      BY <1>4, FirstOf
<1>6. InsertSorted(m, n, prec) = Link(m, n, q, p)
      BY <1>4 DEF InsertSorted
<1>7. /\ w[0] = m.head
      /\ \A i \in 1 .. NodeNb : w[i] = IF w[i - 1] \in m.used THEN c[w[i - 1]].next
                                                               ELSE NULL
      BY WalkDef
<1>8. /\ IF L = {} THEN m.head = NULL
         ELSE m.head \in L /\ \A y \in L : c[m.head].prec <= c[y].prec
      /\ \A y \in L : After(c, L, y, c[y].next)
      BY DEF Linked
<1> HIDE DEF w, S, k, c, prec
<1>9. k \in 0 .. NodeNb /\ (p = NULL \/ prec <= c[p].prec) /\ p \in L \cup {NULL}
      BY <1>2, <1>3, <1>5 DEF S
<1>10. p # NULL => p \in L /\ prec < c[p].prec
  <2>1. p # NULL => c[p].prec # prec
        BY <1>9 DEF c, prec
  <2> QED BY <1>1, <1>9, <2>1
<1>11. ASSUME k = 0
       PROVE  /\ q \in L \cup {NULL} /\ p \in L \cup {NULL}
              /\ Before(c, L, n, q) /\ After(c, L, n, p)
  <2>1. q = NULL /\ p = m.head
        BY <1>7, <1>11
  <2>2. \A y \in L : prec < c[y].prec
        BY <1>1, <1>8, <1>10, <2>1
  <2>3. Before(c, L, n, q)
        BY <1>1, <2>1, <2>2 DEF Before, prec
  <2>4. After(c, L, n, p)
        BY <1>1, <1>8, <1>10, <2>1, <2>2 DEF After, prec
  <2>5. q \in L \cup {NULL} /\ p \in L \cup {NULL}
        BY <1>9, <2>1
  <2> QED BY <2>3, <2>4, <2>5
<1>12. ASSUME k # 0
       PROVE  /\ q \in L \cup {NULL} /\ p \in L \cup {NULL}
              /\ Before(c, L, n, q) /\ After(c, L, n, p)
  <2>1. k \in 1 .. NodeNb /\ k - 1 \in 0 .. NodeNb /\ ~ (k <= k - 1)
        BY <1>1, <1>9, <1>12
  <2>2. q = w[k - 1] /\ k - 1 \notin S
        BY <1>5, <1>12, <2>1
  <2>3. q \in L /\ c[q].prec < prec
        BY <1>1, <1>2, <1>3, <2>1, <2>2 DEF S
  <2>4. p = c[q].next
        BY <1>7, <2>1, <2>2, <2>3
  <2>5. After(c, L, q, p)
        BY <1>8, <2>3, <2>4
  <2> HIDE DEF q, p
  <2>6. Before(c, L, n, q)
        BY <1>1, <1>10, <2>3, <2>5 DEF Before, After, prec
  <2>7. After(c, L, n, p)
        BY <1>1, <1>10, <2>3, <2>5 DEF After, prec
  <2>8. q \in L \cup {NULL} /\ p \in L \cup {NULL}
        BY <1>9, <2>3 DEF p
  <2> QED BY <2>6, <2>7, <2>8 DEF q, p
<1>13. q \in L \cup {NULL} /\ p \in L \cup {NULL}
      BY <1>11, <1>12
<1>14. Before(m.cell, L, n, q) /\ After(m.cell, L, n, p)
      BY <1>11, <1>12 DEF c
<1> HIDE DEF q, p
<1>15. LET r == Link(m, n, q, p)
       IN  /\ r \in Memory /\ r.used = m.used /\ r.ok = m.ok
           /\ Linked(r.head, r.cell, L \cup {n})
           /\ SameFilters(r.cell, m.cell)
           /\ \A y \in Nodes \ (L \cup {n}) :
                 r.cell[y].next = m.cell[y].next /\ r.cell[y].prev = m.cell[y].prev
      BY <1>13, <1>14, LinkFacts
<1> QED BY <1>6, <1>15 DEF c, prec

----------------------------------------------------------------------------
(* Part three: what lists and entries hold while messages are handled. The *)
(* invariant LInv relates three things at every softirq: what the network  *)
(* has asked for, what the entries record, and what the lists hold. A turn *)
(* of a handler's loop writes one entry (Turn) and one list; the lemmas    *)
(* below say once what such a turn has to show.                            *)

----------------------------------------------------------------------------
(* What the lists and the tables hold.  A cell holds a filter; an entry    *)
(* of a bearer has some of its slots filled.                               *)
Holds(c, n, f) ==
  /\ c[n].pfid = f.pfid /\ c[n].prec = f.prec
  /\ c[n].dir = f.dir /\ c[n].flow = f.flow

(* The slots of an entry that are filled.                                  *)
Held(t) == {j \in Slots : t.pf[j] # NULL}

(* The entries of a PDN in use, the default bearer's first.                *)
Entries(ct) == {DEFAULT} \cup (0 .. (u8NumDedicatedBearers[ct] - 1))

(* The filters the slots of t must and may hold; no two of one identifier. *)
HasFilters(t, c, must, may) ==
  /\ \A j \in Held(t) : c[t.pf[j]].eps = t.id /\ \E f \in may : Holds(c, t.pf[j], f)
  /\ \A f \in must : \E j \in Held(t) : Holds(c, t.pf[j], f)
  /\ \A j, k \in Held(t) : c[t.pf[j]].pfid = c[t.pf[k]].pfid => j = k

(* The bearers the tables are about: a handler that puts filters in works  *)
(* from what will be, one that takes filters out from what has been.       *)
Now == IF cmd.op \in {"add", "sort"} THEN goal ELSE net

(* Filters still to be added may not be there, ...                         *)
May(x) ==
  IF cmd.op = "add" /\ x.id = cmd.b THEN InForce(x) \ ToSet(cmd.fs) ELSE InForce(x)

(* ... filters that are being deleted or released need not.                *)
Must(x) ==
  IF cmd.op = "delete" /\ x.id = cmd.b THEN {f \in x.tft : f.pfid \notin cmd.pfids}
  ELSE IF cmd.op = "release" /\ x.id = cmd.b THEN {} ELSE May(x)

(* The TFT rules the network keeps.                                        *)
NetSound(S) ==
  /\ \A x \in S : /\ x.tft \subseteq Filters /\ x.pdn \in DefaultIds
                  /\ x.id = x.pdn \/ x.id \in DedicatedIds
                  /\ \A f, g \in x.tft : f.pfid = g.pfid => f = g
  /\ \A x, y \in S : x.id = y.id => x = y
  /\ \A x, y \in S : x.pdn = y.pdn =>
       \A f \in InForce(x), g \in InForce(y) : f.prec = g.prec => x = y /\ f = g

(* Types, and no halt.                                                     *)
Typed ==
  /\ TypeOK /\ halted = FALSE
  /\ cell \in [Nodes -> Cell]

(* The entries in use are those of the bearers; the others are empty.      *)
EntriesKnown ==
  /\ \A ct \in Pdns :
       /\ tDefaultBearer[ct].id \in DefaultIds \cup {NoId}
       /\ tDefaultBearer[ct].id = NoId =>
            tDefaultBearer[ct] = EmptyTft /\ u8NumDedicatedBearers[ct] = 0
       /\ \A i \in 0 .. (MAX_DEDICATED_BEARER_PER_PDN - 1) :
            IF i < u8NumDedicatedBearers[ct] THEN tDedicatedBearer[ct][i].id \in DedicatedIds
            ELSE tDedicatedBearer[ct][i] = EmptyTft
       /\ \A i \in Entries(ct) : TftOf(ct, i).id # NoId =>
            \E x \in Now : x.id = TftOf(ct, i).id /\ x.pdn = tDefaultBearer[ct].id
  /\ \A x \in Now : \E ct \in Pdns : \E i \in Entries(ct) :
       tDefaultBearer[ct].id = x.pdn /\ TftOf(ct, i).id = x.id
  /\ \A c, d \in Pdns : \A i \in Entries(c), j \in Entries(d) :
       TftOf(c, i).id = TftOf(d, j).id /\ TftOf(c, i).id # NoId => c = d /\ i = j

(* Each entry holds the filters of its bearer.                             *)
EntriesSound ==
  /\ \A ct \in Pdns : \A i \in Entries(ct) : \A x \in Now : TftOf(ct, i).id = x.id =>
       HasFilters(TftOf(ct, i), cell, Must(x), May(x))
  /\ \A ct \in Pdns : \A x \in Now : tDefaultBearer[ct].id = x.id =>
       /\ u8MatchAll[ct] <=> x.tft = {}
       /\ u8MatchAll[ct] => Held(tDefaultBearer[ct]) = {0}
  /\ \A ct \in Pdns : \A i \in Entries(ct) :
       \/ TftOf(ct, i).num = Cardinality(Held(TftOf(ct, i)))
       \/ cmd.op = "release" /\ TftOf(ct, i).id = cmd.b

(* Filters that are being replaced are in no list.                         *)
Leaving ==
  IF cmd.op = "sort"
  THEN {n \in used : cell[n].eps = cmd.b /\ cell[n].pfid \in Pfids(ToSet(cmd.fs))}
  ELSE {}

(* The list of a PDN has the filters its entries record, but those that    *)
(* leave, and nothing else is allocated.                                   *)
ListsSound ==
  /\ \A ct \in Pdns : Linked(tClassifierTable[ct], cell, Recorded(ct) \ Leaving)
  /\ used = UNION {Recorded(ct) : ct \in Pdns}

(* What a handler has to do.                                               *)
FilterOps == {"matchall", "add", "replace", "sort"}

(* The same bearer, perhaps with other filters.                            *)
Carries(y, x) == y.id = x.id /\ y.pdn = x.pdn

(* The message that is handled: between net and goal only its bearer       *)
(* differs; the filters to come are new to the bearer; a release is of the *)
(* last entry.                                                             *)
CmdSound ==
  /\ cmd.op = "none" => cmd = NoCmd /\ net = goal
  /\ cmd.op # "none" =>
       /\ cmd.ct \in Pdns /\ cmd.idx \in Entries(cmd.ct)
       /\ TftOf(cmd.ct, cmd.idx).id = cmd.b /\ cmd.b # NoId
       /\ \A x \in net \cup goal : x.id # cmd.b => (x \in net <=> x \in goal)
  /\ cmd.op \in FilterOps =>
       /\ cmd.fs \in Seq(Filters) /\ cmd.fs # << >>
       /\ \A i, j \in DOMAIN cmd.fs : i # j => cmd.fs[i].pfid # cmd.fs[j].pfid
       /\ \A x \in net : x.id = cmd.b => x.tft \cap ToSet(cmd.fs) = {}
  /\ cmd.op = "matchall" =>
       /\ cmd.idx = DEFAULT
       /\ \A x \in net : x.id = cmd.b =>
            x.tft = {} /\ \E y \in goal : Carries(y, x) /\ y.tft = ToSet(cmd.fs)
  /\ cmd.op = "add" => \A y \in goal : y.id = cmd.b => ToSet(cmd.fs) \subseteq y.tft
  /\ cmd.op = "replace" =>
       \A x \in net : x.id = cmd.b =>
         /\ x.tft # {}
         /\ \E y \in goal :
              /\ Carries(y, x)
              /\ \/ /\ Pfids(ToSet(cmd.fs)) \subseteq Pfids(x.tft)
                    /\ y.tft = {f \in x.tft : f.pfid \notin Pfids(ToSet(cmd.fs))}
                                 \cup ToSet(cmd.fs)
                 \/ y = x /\ Pfids(ToSet(cmd.fs)) \cap Pfids(x.tft) = {}
  /\ cmd.op = "sort" =>
       \A y \in goal : y.id = cmd.b =>
         /\ y.tft # {}
         /\ \/ ToSet(cmd.fs) \subseteq y.tft
            \/ Pfids(ToSet(cmd.fs)) \cap Pfids(y.tft) = {}
  /\ cmd.op = "delete" =>
       /\ cmd.idx # DEFAULT
       /\ \A x \in net : x.id = cmd.b =>
            \E y \in goal : Carries(y, x) /\ y.tft = {f \in x.tft : f.pfid \notin cmd.pfids}
  /\ cmd.op = "release" =>
       /\ cmd.idx # DEFAULT /\ cmd.idx = u8NumDedicatedBearers[cmd.ct] - 1
       /\ \A y \in goal : y.id # cmd.b

(* The inductive invariant of lists and entries.                           *)
LInv ==
  /\ Typed
  /\ NetSound(net) /\ NetSound(goal)
  /\ CmdSound
  /\ EntriesKnown
  /\ EntriesSound
  /\ ListsSound

(* The records of a PDN, by entry and slot.                                *)
LEMMA RecordedIs ==
  ASSUME NEW ct, NEW n
  PROVE  n \in Recorded(ct) <=>
           \E i \in Entries(ct) : \E j \in Held(TftOf(ct, i)) : n = TftOf(ct, i).pf[j]
<1>1. DEFAULT \notin 0 .. (u8NumDedicatedBearers[ct] - 1)
      BY DEF DEFAULT
<1>2. TftOf(ct, DEFAULT) = tDefaultBearer[ct]
      BY DEF TftOf
<1>3. \A i \in 0 .. (u8NumDedicatedBearers[ct] - 1) :
        TftOf(ct, i) = tDedicatedBearer[ct][i]
      BY <1>1 DEF TftOf
<1>4. ASSUME n \in Recorded(ct)
      PROVE  \E i \in Entries(ct) : \E j \in Held(TftOf(ct, i)) : n = TftOf(ct, i).pf[j]
  <2>1. CASE \E j \in Slots : n = tDefaultBearer[ct].pf[j]
        BY <1>2, <1>4, <2>1 DEF Recorded, Entries, Held
  <2>2. CASE \E i \in 0 .. (u8NumDedicatedBearers[ct] - 1) : \E j \in Slots :
               n = tDedicatedBearer[ct][i].pf[j]
        BY <1>3, <1>4, <2>2 DEF Recorded, Entries, Held
  <2> QED BY <1>4, <2>1, <2>2 DEF Recorded
<1>5. ASSUME NEW i \in Entries(ct), NEW j \in Held(TftOf(ct, i)), n = TftOf(ct, i).pf[j]
      PROVE  n \in Recorded(ct)
      BY <1>2, <1>3, <1>5 DEF Recorded, Entries, Held
<1> QED BY <1>4, <1>5

(* The same after a step.                                                  *)
LEMMA RecordedWillBe ==
  ASSUME NEW ct, NEW n
  PROVE  n \in Recorded(ct)' <=>
           \E i \in Entries(ct)' : \E j \in Held(TftOf(ct, i)') : n = TftOf(ct, i)'.pf[j]
<1>1. DEFAULT \notin 0 .. (u8NumDedicatedBearers'[ct] - 1)
      BY DEF DEFAULT
<1>2. TftOf(ct, DEFAULT)' = tDefaultBearer'[ct]
      BY DEF TftOf
<1>3. \A i \in 0 .. (u8NumDedicatedBearers'[ct] - 1) :
        TftOf(ct, i)' = tDedicatedBearer'[ct][i]
      BY <1>1 DEF TftOf
<1>4. ASSUME n \in Recorded(ct)'
      PROVE  \E i \in Entries(ct)' : \E j \in Held(TftOf(ct, i)') : n = TftOf(ct, i)'.pf[j]
  <2>1. CASE \E j \in Slots : n = tDefaultBearer'[ct].pf[j]
        BY <1>2, <1>4, <2>1 DEF Recorded, Entries, Held
  <2>2. CASE \E i \in 0 .. (u8NumDedicatedBearers'[ct] - 1) : \E j \in Slots :
               n = tDedicatedBearer'[ct][i].pf[j]
        BY <1>3, <1>4, <2>2 DEF Recorded, Entries, Held
  <2> QED BY <1>4, <2>1, <2>2 DEF Recorded
<1>5. ASSUME NEW i \in Entries(ct)', NEW j \in Held(TftOf(ct, i)'), n = TftOf(ct, i)'.pf[j]
      PROVE  n \in Recorded(ct)'
      BY <1>2, <1>3, <1>5 DEF Recorded, Entries, Held
<1> QED BY <1>4, <1>5

(* What is in a slot is a node of the list's PDN, marked with the bearer   *)
(* of the entry, which the network knows.                                  *)
LEMMA Owned ==
  ASSUME LInv, NEW ct \in Pdns, NEW i \in Entries(ct), NEW j \in Held(TftOf(ct, i))
  PROVE  LET t == TftOf(ct, i)
             n == t.pf[j]
         IN  /\ n \in used /\ n \in Recorded(ct) /\ n \in Nodes /\ j \in Slots
             /\ cell[n].eps = t.id /\ t.id # NoId
             /\ \E x \in Now : /\ x.id = t.id /\ x.pdn = tDefaultBearer[ct].id
                               /\ \E f \in May(x) : Holds(cell, n, f)
<1> DEFINE t == TftOf(ct, i)
           n == t.pf[j]
<1>1. n \in Recorded(ct)
      BY RecordedIs
<1>2. n \in used /\ n \in Nodes /\ j \in Slots
      BY <1>1 DEF LInv, ListsSound, Typed, TypeOK, Held
<1>3. t.id # NoId
  <2>1. CASE i = DEFAULT
        BY <2>1 DEF LInv, EntriesKnown, TftOf, EmptyTft, Held
  <2>2. CASE i # DEFAULT
    <3>1. i \in 0 .. (MAX_DEDICATED_BEARER_PER_PDN - 1) /\ i < u8NumDedicatedBearers[ct]
          BY <2>2, QosAgentAssumption DEF Entries, LInv, Typed, TypeOK
    <3>2. t = tDedicatedBearer[ct][i]
          BY <2>2 DEF TftOf
    <3> QED BY <3>1, <3>2, QosAgentAssumption DEF LInv, EntriesKnown
  <2> QED BY <2>1, <2>2
<1>4. PICK x \in Now : x.id = t.id /\ x.pdn = tDefaultBearer[ct].id
      BY <1>3 DEF LInv, EntriesKnown
<1>5. HasFilters(t, cell, Must(x), May(x))
      BY <1>4 DEF LInv, EntriesSound
<1>6. cell[n].eps = t.id /\ \E f \in May(x) : Holds(cell, n, f)
      BY <1>5 DEF HasFilters
<1> QED BY <1>1, <1>2, <1>3, <1>4, <1>6

(* No two entries are of one bearer.                                       *)
LEMMA IdsApart ==
  ASSUME LInv, NEW c \in Pdns, NEW i \in Entries(c), NEW d \in Pdns, NEW k \in Entries(d),
         TftOf(c, i).id = TftOf(d, k).id, TftOf(c, i).id # NoId
  PROVE  c = d /\ i = k
<1>1. EntriesKnown
      BY DEF LInv
<1>2. \A e, g \in Pdns : \A p \in Entries(e), q \in Entries(g) :
        TftOf(e, p).id = TftOf(g, q).id /\ TftOf(e, p).id # NoId => e = g /\ p = q
      BY <1>1, Zenon DEF EntriesKnown
<1> QED BY <1>2, Zenon

(* A node is in one slot of one entry.                                     *)
LEMMA OwnedOnce ==
  ASSUME LInv, NEW c \in Pdns, NEW i \in Entries(c), NEW j \in Held(TftOf(c, i)),
         NEW d \in Pdns, NEW k \in Entries(d), NEW l \in Held(TftOf(d, k)),
         TftOf(c, i).pf[j] = TftOf(d, k).pf[l]
  PROVE  c = d /\ i = k /\ j = l
<1>1. /\ cell[TftOf(c, i).pf[j]].eps = TftOf(c, i).id /\ TftOf(c, i).id # NoId
      /\ \E x \in Now : x.id = TftOf(c, i).id
      BY Owned
<1>2. cell[TftOf(d, k).pf[l]].eps = TftOf(d, k).id
      BY Owned
<1>3. c = d /\ i = k
      BY <1>1, <1>2 DEF LInv, EntriesKnown
<1>4. PICK x \in Now : x.id = TftOf(c, i).id
      BY <1>1
<1>5. HasFilters(TftOf(c, i), cell, Must(x), May(x))
      BY <1>4 DEF LInv, EntriesSound
<1>6. j = l
      BY <1>3, <1>5 DEF HasFilters
<1> QED BY <1>3, <1>6

(* The records of two PDNs have no node in common; a node marked with a    *)
(* bearer is in the entry of this bearer.                                  *)
LEMMA RecordsApart ==
  ASSUME LInv, NEW c \in Pdns, NEW n \in Recorded(c)
  PROVE  /\ n \in used /\ n \in Nodes
         /\ \A d \in Pdns : n \in Recorded(d) => d = c
         /\ \A i \in Entries(c) : cell[n].eps = TftOf(c, i).id =>
              \E j \in Held(TftOf(c, i)) : n = TftOf(c, i).pf[j]
<1>1. PICK i \in Entries(c) : \E j \in Held(TftOf(c, i)) : n = TftOf(c, i).pf[j]
      BY RecordedIs
<1>2. PICK j \in Held(TftOf(c, i)) : n = TftOf(c, i).pf[j]
      BY <1>1
<1>3. n \in used /\ n \in Nodes /\ cell[n].eps = TftOf(c, i).id /\ TftOf(c, i).id # NoId
      BY <1>2, Owned
<1>4. ASSUME NEW d \in Pdns, n \in Recorded(d)
      PROVE  d = c
  <2>1. PICK k \in Entries(d) : \E l \in Held(TftOf(d, k)) : n = TftOf(d, k).pf[l]
        BY <1>4, RecordedIs
  <2>2. PICK l \in Held(TftOf(d, k)) : n = TftOf(d, k).pf[l]
        BY <2>1
  <2>3. cell[n].eps = TftOf(d, k).id
        BY <2>2, Owned
  <2> QED BY <1>3, <2>3, IdsApart
<1>5. ASSUME NEW k \in Entries(c), cell[n].eps = TftOf(c, k).id
      PROVE  k = i
  <2>1. TftOf(c, k).id = TftOf(c, i).id
        BY <1>3, <1>5
  <2> QED BY <1>3, <2>1, IdsApart
<1> QED BY <1>2, <1>3, <1>4, <1>5

(* What an entry holds depends on the cells in its slots only.             *)
LEMMA FiltersFrame ==
  ASSUME NEW t, NEW c, NEW d, NEW must, NEW may, HasFilters(t, c, must, may),
         \A j \in Held(t) : LET n == t.pf[j]
                            IN  /\ d[n].eps = c[n].eps /\ d[n].pfid = c[n].pfid
                                /\ d[n].prec = c[n].prec /\ d[n].dir = c[n].dir
                                /\ d[n].flow = c[n].flow
  PROVE  HasFilters(t, d, must, may)
BY DEF HasFilters, Holds

(* A turn of a handler writes t to the entry of its bearer and to no other.*)
Turn(t) ==
  /\ u8NumDedicatedBearers' = u8NumDedicatedBearers
  /\ \A d \in Pdns : \A k \in Entries(d) :
       TftOf(d, k)' = IF d = cmd.ct /\ k = cmd.idx THEN t ELSE TftOf(d, k)
  /\ \A d \in Pdns : \A k \in 0 .. (MAX_DEDICATED_BEARER_PER_PDN - 1) :
       ~ (k < u8NumDedicatedBearers[d]) => tDedicatedBearer'[d][k] = tDedicatedBearer[d][k]
  /\ t.id = cmd.b

(* The bearers are the same, whatever their filters.                       *)
NowKept ==
  /\ \A x \in Now : \E y \in Now' : Carries(y, x)
  /\ \A y \in Now' : \E x \in Now : Carries(y, x)

(* A turn changes no identifier of an entry.                               *)
LEMMA TurnIds ==
  ASSUME LInv, cmd.op # "none", NEW t, Turn(t)
  PROVE  /\ cmd.ct \in Pdns /\ cmd.idx \in Entries(cmd.ct) /\ cmd.b # NoId
         /\ TftOf(cmd.ct, cmd.idx).id = cmd.b
         /\ \A d \in Pdns : Entries(d)' = Entries(d)
         /\ \A d \in Pdns : \A k \in Entries(d) : TftOf(d, k)'.id = TftOf(d, k).id
         /\ \A d \in Pdns : tDefaultBearer'[d].id = tDefaultBearer[d].id
         /\ \A d \in Pdns : \A k \in Entries(d) :
              TftOf(d, k).id = cmd.b => d = cmd.ct /\ k = cmd.idx
<1>1. /\ cmd.ct \in Pdns /\ cmd.idx \in Entries(cmd.ct) /\ cmd.b # NoId
      /\ TftOf(cmd.ct, cmd.idx).id = cmd.b
      BY DEF LInv, CmdSound
<1>2. \A d \in Pdns : Entries(d)' = Entries(d)
      BY DEF Turn, Entries
<1>3. \A d \in Pdns : \A k \in Entries(d) : TftOf(d, k)'.id = TftOf(d, k).id
      BY <1>1 DEF Turn
<1>4. \A d \in Pdns : DEFAULT \in Entries(d) /\ TftOf(d, DEFAULT) = tDefaultBearer[d]
                      /\ TftOf(d, DEFAULT)' = tDefaultBearer'[d]
      BY DEF Entries, TftOf
<1>5. ASSUME NEW d \in Pdns, NEW k \in Entries(d), TftOf(d, k).id = cmd.b
      PROVE  d = cmd.ct /\ k = cmd.idx
      BY <1>1, <1>5, IdsApart
<1>6. \A d \in Pdns : tDefaultBearer'[d].id = tDefaultBearer[d].id
      BY <1>3, <1>4
<1> QED BY <1>1, <1>2, <1>3, <1>5, <1>6

(* After a turn the entries in use are still those of the bearers.         *)
LEMMA KnownKept ==
  ASSUME LInv, cmd.op # "none", NEW t, Turn(t), NowKept
  PROVE  EntriesKnown'
<1>1. EntriesKnown
      BY DEF LInv
<1>2. /\ cmd.ct \in Pdns /\ cmd.idx \in Entries(cmd.ct) /\ cmd.b # NoId
      /\ TftOf(cmd.ct, cmd.idx).id = cmd.b
      /\ \A d \in Pdns : Entries(d)' = Entries(d)
      /\ \A d \in Pdns : \A k \in Entries(d) : TftOf(d, k)'.id = TftOf(d, k).id
      /\ \A d \in Pdns : tDefaultBearer'[d].id = tDefaultBearer[d].id
      BY TurnIds
<1>3. ASSUME NEW ct \in Pdns
      PROVE  /\ tDefaultBearer'[ct].id \in DefaultIds \cup {NoId}
             /\ tDefaultBearer'[ct].id = NoId =>
                  tDefaultBearer'[ct] = EmptyTft /\ u8NumDedicatedBearers'[ct] = 0
  <2>1. /\ tDefaultBearer[ct].id \in DefaultIds \cup {NoId}
        /\ tDefaultBearer[ct].id = NoId =>
             tDefaultBearer[ct] = EmptyTft /\ u8NumDedicatedBearers[ct] = 0
        BY <1>1 DEF EntriesKnown
  <2>2. ASSUME tDefaultBearer[ct].id = NoId
        PROVE  tDefaultBearer'[ct] = tDefaultBearer[ct]
    <3>1. DEFAULT \in Entries(ct) /\ TftOf(ct, DEFAULT) = tDefaultBearer[ct]
          /\ TftOf(ct, DEFAULT)' = tDefaultBearer'[ct]
          BY DEF Entries, TftOf
    <3>2. ~ (ct = cmd.ct /\ DEFAULT = cmd.idx)
          BY <1>2, <2>2, <3>1
    <3> QED BY <3>1, <3>2 DEF Turn
  <2> QED BY <1>2, <2>1, <2>2 DEF Turn
<1>4. ASSUME NEW ct \in Pdns, NEW i \in 0 .. (MAX_DEDICATED_BEARER_PER_PDN - 1)
      PROVE  IF i < u8NumDedicatedBearers'[ct] THEN tDedicatedBearer'[ct][i].id \in DedicatedIds
             ELSE tDedicatedBearer'[ct][i] = EmptyTft
  <2>1. IF i < u8NumDedicatedBearers[ct] THEN tDedicatedBearer[ct][i].id \in DedicatedIds
        ELSE tDedicatedBearer[ct][i] = EmptyTft
        BY <1>1 DEF EntriesKnown
  <2>2. u8NumDedicatedBearers'[ct] = u8NumDedicatedBearers[ct]
        BY DEF Turn
  <2>3. CASE i < u8NumDedicatedBearers[ct]
    <3>1. i \in Entries(ct) /\ i # DEFAULT
          BY <2>3, QosAgentAssumption DEF Entries, DEFAULT, LInv, Typed, TypeOK
    <3>2. TftOf(ct, i) = tDedicatedBearer[ct][i] /\ TftOf(ct, i)' = tDedicatedBearer'[ct][i]
          BY <3>1 DEF TftOf
    <3>3. TftOf(ct, i)'.id = TftOf(ct, i).id
          BY <1>2, <3>1
    <3> QED BY <2>1, <2>2, <2>3, <3>2, <3>3
  <2>4. CASE ~ (i < u8NumDedicatedBearers[ct])
        BY <2>1, <2>2, <2>4 DEF Turn
  <2> QED BY <2>3, <2>4
<1>5. ASSUME NEW ct \in Pdns, NEW i \in Entries(ct)', TftOf(ct, i)'.id # NoId
      PROVE  \E x \in Now' : x.id = TftOf(ct, i)'.id /\ x.pdn = tDefaultBearer'[ct].id
  <2>1. i \in Entries(ct) /\ TftOf(ct, i)'.id = TftOf(ct, i).id
        BY <1>2
  <2>2. PICK x \in Now : x.id = TftOf(ct, i).id /\ x.pdn = tDefaultBearer[ct].id
        BY <1>1, <1>5, <2>1 DEF EntriesKnown
  <2>3. PICK y \in Now' : Carries(y, x)
        BY DEF NowKept
  <2> QED BY <1>2, <2>1, <2>2, <2>3 DEF Carries
<1>6. ASSUME NEW y \in Now'
      PROVE  \E ct \in Pdns : \E i \in Entries(ct)' :
               tDefaultBearer'[ct].id = y.pdn /\ TftOf(ct, i)'.id = y.id
  <2>1. PICK x \in Now : Carries(y, x)
        BY DEF NowKept
  <2>2. PICK ct \in Pdns : \E i \in Entries(ct) :
               tDefaultBearer[ct].id = x.pdn /\ TftOf(ct, i).id = x.id
        BY <1>1 DEF EntriesKnown
  <2> QED BY <1>2, <2>1, <2>2 DEF Carries
<1>7. ASSUME NEW c \in Pdns, NEW d \in Pdns, NEW i \in Entries(c)', NEW j \in Entries(d)',
             TftOf(c, i)'.id = TftOf(d, j)'.id, TftOf(c, i)'.id # NoId
      PROVE  c = d /\ i = j
  <2>1. i \in Entries(c) /\ j \in Entries(d) /\ TftOf(c, i).id = TftOf(d, j).id
        /\ TftOf(c, i).id # NoId
        BY <1>2, <1>7
  <2> QED BY <2>1, IdsApart
<1> QED BY <1>3, <1>4, <1>5, <1>6, <1>7 DEF EntriesKnown

(* Two cells hold the same filter for the same bearer.                     *)
SameFilter(c, d) ==
  /\ d.eps = c.eps /\ d.pfid = c.pfid /\ d.prec = c.prec /\ d.dir = c.dir
  /\ d.flow = c.flow

(* What a turn owes to the other bearers and to its own.                   *)
CellsKept == \A n \in used : cell[n].eps # cmd.b => SameFilter(cell[n], cell'[n])

(* What a turn must show: other bearers are as they were, ...              *)
OthersKept ==
  \A x \in Now' : x.id # cmd.b =>
    x \in Now /\ Must(x)' = InForce(x) /\ May(x)' = InForce(x)

(* ... the entry it writes holds what it must, ...                         *)
OwnHeld(t) == \A x \in Now' : x.id = cmd.b => HasFilters(t, cell', Must(x)', May(x)')

(* ... its count of filters is right, ...                                  *)
OwnNum(t) == t.num = Cardinality(Held(t)) \/ (cmd'.op = "release" /\ t.id = cmd'.b)

(* ... and so are the match-all flags, of others ...                       *)
OthersMatchAll ==
  \A d \in Pdns : tDefaultBearer[d].id # cmd.b => u8MatchAll'[d] = u8MatchAll[d]

(* ... and of its own PDN.                                                 *)
OwnMatchAll(t) ==
  \A x \in Now' : cmd.idx = DEFAULT /\ x.id = cmd.b =>
    /\ u8MatchAll'[cmd.ct] <=> x.tft = {}
    /\ u8MatchAll'[cmd.ct] => Held(t) = {0}

(* The filters of the other bearers stay.                                  *)
LEMMA SoundKept ==
  ASSUME LInv, cmd.op # "none", NEW t, Turn(t),
         CellsKept, OthersKept, OwnHeld(t), OwnNum(t), OthersMatchAll, OwnMatchAll(t)
  PROVE  EntriesSound'
<1>1. EntriesSound
      BY DEF LInv
<1>2. /\ cmd.ct \in Pdns /\ cmd.idx \in Entries(cmd.ct) /\ cmd.b # NoId
      /\ TftOf(cmd.ct, cmd.idx).id = cmd.b
      /\ \A d \in Pdns : Entries(d)' = Entries(d)
      /\ \A d \in Pdns : \A k \in Entries(d) : TftOf(d, k)'.id = TftOf(d, k).id
      /\ \A d \in Pdns : tDefaultBearer'[d].id = tDefaultBearer[d].id
      /\ \A d \in Pdns : \A k \in Entries(d) :
           TftOf(d, k).id = cmd.b => d = cmd.ct /\ k = cmd.idx
      BY TurnIds
<1>3. /\ \A d \in Pdns : \A k \in Entries(d) :
           TftOf(d, k)' = IF d = cmd.ct /\ k = cmd.idx THEN t ELSE TftOf(d, k)
      /\ t.id = cmd.b
      BY DEF Turn
<1>4. \A d \in Pdns : DEFAULT \in Entries(d) /\ TftOf(d, DEFAULT) = tDefaultBearer[d]
                      /\ TftOf(d, DEFAULT)' = tDefaultBearer'[d]
      BY DEF Entries, TftOf
<1>5. ASSUME NEW x, x.id # cmd.b
      PROVE  Must(x) = InForce(x) /\ May(x) = InForce(x)
      BY <1>5 DEF Must, May
<1>6. ASSUME NEW ct \in Pdns, NEW i \in Entries(ct)', NEW x \in Now', TftOf(ct, i)'.id = x.id
      PROVE  HasFilters(TftOf(ct, i)', cell', Must(x)', May(x)')
  <2>1. i \in Entries(ct) /\ TftOf(ct, i).id = x.id
        BY <1>2, <1>6
  <2>2. CASE x.id = cmd.b
    <3>1. TftOf(ct, i)' = t
          BY <1>2, <1>3, <2>1, <2>2
    <3> QED BY <2>2, <3>1 DEF OwnHeld
  <2>3. CASE x.id # cmd.b
    <3>1. TftOf(ct, i)' = TftOf(ct, i)
          BY <1>2, <1>3, <2>1, <2>3
    <3>2. HasFilters(TftOf(ct, i), cell, InForce(x), InForce(x))
          BY <1>1, <1>5, <2>1, <2>3 DEF EntriesSound, OthersKept
    <3>3. ASSUME NEW j \in Held(TftOf(ct, i))
          PROVE  SameFilter(cell[TftOf(ct, i).pf[j]], cell'[TftOf(ct, i).pf[j]])
      <4>1. TftOf(ct, i).pf[j] \in used /\ cell[TftOf(ct, i).pf[j]].eps = TftOf(ct, i).id
            BY <2>1, Owned
      <4> QED BY <2>1, <2>3, <4>1 DEF CellsKept
    <3>4. HasFilters(TftOf(ct, i), cell', InForce(x), InForce(x))
          BY <3>2, <3>3, FiltersFrame DEF SameFilter
    <3> QED BY <2>3, <3>1, <3>4 DEF OthersKept
  <2> QED BY <2>2, <2>3
<1>7. ASSUME NEW ct \in Pdns, NEW x \in Now', tDefaultBearer'[ct].id = x.id
      PROVE  /\ u8MatchAll'[ct] <=> x.tft = {}
             /\ u8MatchAll'[ct] => Held(tDefaultBearer'[ct]) = {0}
  <2>1. tDefaultBearer[ct].id = x.id
        BY <1>2, <1>7
  <2>2. CASE x.id = cmd.b
    <3>1. ct = cmd.ct /\ cmd.idx = DEFAULT
          BY <1>2, <1>4, <2>1, <2>2
    <3>2. tDefaultBearer'[ct] = t
          BY <1>3, <1>4, <3>1
    <3> QED BY <2>2, <3>1, <3>2 DEF OwnMatchAll
  <2>3. CASE x.id # cmd.b
    <3>1. ~ (ct = cmd.ct /\ cmd.idx = DEFAULT)
          BY <1>2, <1>4, <2>1, <2>3
    <3>2. tDefaultBearer'[ct] = tDefaultBearer[ct]
          BY <1>3, <1>4, <3>1
    <3>3. /\ u8MatchAll[ct] <=> x.tft = {}
          /\ u8MatchAll[ct] => Held(tDefaultBearer[ct]) = {0}
          BY <1>1, <2>1, <2>3 DEF EntriesSound, OthersKept
    <3> QED BY <2>1, <2>3, <3>2, <3>3 DEF OthersMatchAll
  <2> QED BY <2>2, <2>3
<1>8. ASSUME NEW ct \in Pdns, NEW i \in Entries(ct)'
      PROVE  \/ TftOf(ct, i)'.num = Cardinality(Held(TftOf(ct, i)'))
             \/ cmd'.op = "release" /\ TftOf(ct, i)'.id = cmd'.b
  <2>1. i \in Entries(ct)
        BY <1>2
  <2>2. CASE ct = cmd.ct /\ i = cmd.idx
        BY <1>3, <2>1, <2>2 DEF OwnNum
  <2>3. CASE ~ (ct = cmd.ct /\ i = cmd.idx)
    <3>1. TftOf(ct, i)' = TftOf(ct, i) /\ TftOf(ct, i).id # cmd.b
          BY <1>2, <1>3, <2>1, <2>3
    <3>2. TftOf(ct, i).num = Cardinality(Held(TftOf(ct, i)))
          BY <1>1, <2>1, <3>1 DEF EntriesSound
    <3> QED BY <3>1, <3>2
  <2> QED BY <2>2, <2>3
<1> QED BY <1>6, <1>7, <1>8 DEF EntriesSound

(* The records after a turn.                                               *)
LEMMA TurnRecords ==
  ASSUME LInv, cmd.op # "none", NEW t, Turn(t), NEW ct, ct = cmd.ct
  PROVE  /\ \A d \in Pdns \ {ct} : Recorded(d)' = Recorded(d)
         /\ \A d \in Pdns \ {ct} : \A n \in Recorded(d) : cell[n].eps # cmd.b
         /\ \A n : n \in Recorded(ct)' <=> \/ n \in Recorded(ct) /\ cell[n].eps # cmd.b
                                           \/ \E j \in Held(t) : n = t.pf[j]
<1> PICK idx : idx = cmd.idx
      OBVIOUS
<1>1. /\ ct \in Pdns /\ idx \in Entries(ct) /\ cmd.b # NoId
      /\ TftOf(ct, idx).id = cmd.b
      /\ \A d \in Pdns : Entries(d)' = Entries(d)
      /\ \A d \in Pdns : \A k \in Entries(d) :
           TftOf(d, k).id = cmd.b => d = ct /\ k = idx
      BY TurnIds
<1>2. /\ \A d \in Pdns : \A k \in Entries(d) :
           TftOf(d, k)' = IF d = ct /\ k = idx THEN t ELSE TftOf(d, k)
      /\ t.id = cmd.b
      BY DEF Turn
<1>3. ASSUME NEW d \in Pdns, d # ct
      PROVE  Recorded(d)' = Recorded(d)
  <2>1. \A k \in Entries(d) : TftOf(d, k)' = TftOf(d, k)
        BY <1>2, <1>3
  <2>2. ASSUME NEW n PROVE n \in Recorded(d)' <=> n \in Recorded(d)
    <3>1. n \in Recorded(d) <=>
            \E i \in Entries(d) : \E j \in Held(TftOf(d, i)) : n = TftOf(d, i).pf[j]
          BY RecordedIs
    <3>2. n \in Recorded(d)' <=>
            \E i \in Entries(d)' : \E j \in Held(TftOf(d, i)') : n = TftOf(d, i)'.pf[j]
          BY RecordedWillBe
    <3> QED BY <1>1, <2>1, <3>1, <3>2
  <2> QED BY <2>2
<1>4. ASSUME NEW d \in Pdns, d # ct, NEW n \in Recorded(d)
      PROVE  cell[n].eps # cmd.b
  <2>1. PICK i \in Entries(d) : \E j \in Held(TftOf(d, i)) : n = TftOf(d, i).pf[j]
        BY RecordedIs
  <2>2. cell[n].eps = TftOf(d, i).id
        BY <2>1, Owned
  <2> QED BY <1>1, <1>4, <2>2
<1>5. ASSUME NEW n, n \in Recorded(ct)'
      PROVE  \/ n \in Recorded(ct) /\ cell[n].eps # cmd.b
             \/ \E j \in Held(t) : n = t.pf[j]
  <2>1. PICK i \in Entries(ct) : \E j \in Held(TftOf(ct, i)') :
                                       n = TftOf(ct, i)'.pf[j]
        BY <1>1, <1>5, RecordedWillBe
  <2>2. CASE i = idx
        BY <1>1, <1>2, <2>1, <2>2
  <2>3. CASE i # idx
    <3>1. TftOf(ct, i)' = TftOf(ct, i)
          BY <1>1, <1>2, <2>3
    <3>2. PICK j \in Held(TftOf(ct, i)) : n = TftOf(ct, i).pf[j]
          BY <2>1, <3>1
    <3>3. n \in Recorded(ct) /\ cell[n].eps = TftOf(ct, i).id
          BY <1>1, <3>2, Owned
    <3> QED BY <1>1, <2>3, <3>3
  <2> QED BY <2>2, <2>3
<1>6. ASSUME NEW n \in Recorded(ct), cell[n].eps # cmd.b
      PROVE  n \in Recorded(ct)'
  <2>1. PICK i \in Entries(ct) : \E j \in Held(TftOf(ct, i)) :
                                       n = TftOf(ct, i).pf[j]
        BY RecordedIs
  <2>2. cell[n].eps = TftOf(ct, i).id
        BY <1>1, <2>1, Owned
  <2>3. TftOf(ct, i)' = TftOf(ct, i)
        BY <1>1, <1>2, <1>6, <2>2
  <2> QED BY <1>1, <2>1, <2>3, RecordedWillBe
<1>7. ASSUME NEW j \in Held(t)
      PROVE  t.pf[j] \in Recorded(ct)'
  <2>1. TftOf(ct, idx)' = t
        BY <1>1, <1>2
  <2> QED BY <1>1, <2>1, RecordedWillBe
<1> QED BY <1>3, <1>4, <1>5, <1>6, <1>7

(* The lists of the other PDNs stay, and nothing else is allocated.        *)
LEMMA ListsKept ==
  ASSUME LInv, cmd.op # "none", NEW t, Turn(t), NEW ct, ct = cmd.ct,
         \A n \in used : n \notin Recorded(ct) => cell'[n] = cell[n],
         \A d \in Pdns : d # ct => tClassifierTable'[d] = tClassifierTable[d],
         \A n \in Leaving' : cell[n].eps = cmd.b \/ n \notin used,
         \A n : n \in used' <=> \/ n \in used /\ cell[n].eps # cmd.b
                                \/ \E j \in Held(t) : n = t.pf[j],
         Linked(tClassifierTable'[ct], cell', Recorded(ct)' \ Leaving')
  PROVE  ListsSound'
<1>1. /\ \A d \in Pdns : Linked(tClassifierTable[d], cell, Recorded(d) \ Leaving)
      /\ used = UNION {Recorded(d) : d \in Pdns}
      BY DEF LInv, ListsSound
<1>2. /\ \A d \in Pdns \ {ct} : Recorded(d)' = Recorded(d)
      /\ \A d \in Pdns \ {ct} : \A n \in Recorded(d) : cell[n].eps # cmd.b
      /\ \A n : n \in Recorded(ct)' <=> \/ n \in Recorded(ct) /\ cell[n].eps # cmd.b
                                        \/ \E j \in Held(t) : n = t.pf[j]
      BY TurnRecords
<1>3. \A n \in Leaving : cell[n].eps = cmd.b
      BY DEF Leaving
<1>4. ct \in Pdns
      BY DEF LInv, CmdSound
<1>5. ASSUME NEW d \in Pdns, d # ct
      PROVE  Linked(tClassifierTable'[d], cell', Recorded(d)' \ Leaving')
  <2>1. \A n \in Recorded(d) : n \in used /\ n \notin Recorded(ct)
        BY <1>4, <1>5, RecordsApart
  <2>2. Recorded(d)' \ Leaving' = Recorded(d) /\ Recorded(d) \ Leaving = Recorded(d)
        BY <1>2, <1>3, <1>5, <2>1
  <2>3. Linked(tClassifierTable[d], cell, Recorded(d))
        BY <1>1, <2>2
  <2>4. Linked(tClassifierTable[d], cell', Recorded(d))
        BY <2>1, <2>3, LinkedFrame
  <2> QED BY <1>5, <2>2, <2>4
<1>6. used' = UNION {Recorded(d)' : d \in Pdns}
  <2>1. ASSUME NEW n \in used'
        PROVE  \E d \in Pdns : n \in Recorded(d)'
    <3>1. CASE n \in used /\ cell[n].eps # cmd.b
          BY <1>1, <1>2, <1>4, <3>1
    <3>2. CASE \E j \in Held(t) : n = t.pf[j]
          BY <1>2, <1>4, <3>2
    <3> QED BY <3>1, <3>2
  <2>2. ASSUME NEW d \in Pdns, NEW n \in Recorded(d)'
        PROVE  n \in used'
    <3>1. CASE d = ct
          BY <1>1, <1>2, <1>4, <2>2, <3>1
    <3>2. CASE d # ct
          BY <1>1, <1>2, <2>2, <3>2
    <3> QED BY <3>1, <3>2
  <2> QED BY <2>1, <2>2
<1> QED BY <1>5, <1>6 DEF ListsSound

(* A handler writes its entry.                                             *)
LEMMA SetTftTurn ==
  ASSUME LInv, cmd.op # "none", NEW ct, ct = cmd.ct, NEW idx, idx = cmd.idx,
         NEW t \in Tft, SetTft(ct, idx, t), t.id = cmd.b,
         u8NumDedicatedBearers' = u8NumDedicatedBearers
  PROVE  /\ Turn(t)
         /\ tDefaultBearer' \in [Pdns -> Tft]
         /\ tDedicatedBearer' \in
              [Pdns -> [0 .. (MAX_DEDICATED_BEARER_PER_PDN - 1) -> Tft]]
<1> DEFINE B == 0 .. (MAX_DEDICATED_BEARER_PER_PDN - 1)
<1>1. /\ tDefaultBearer \in [Pdns -> Tft] /\ tDedicatedBearer \in [Pdns -> [B -> Tft]]
      /\ u8NumDedicatedBearers \in [Pdns -> 0 .. MAX_DEDICATED_BEARER_PER_PDN]
      BY DEF LInv, Typed, TypeOK
<1>2. ct \in Pdns /\ idx \in Entries(ct)
      BY DEF LInv, CmdSound
<1>3. \A d \in Pdns : \A k \in Entries(d) : k # DEFAULT =>
         k \in B /\ k < u8NumDedicatedBearers[d]
      BY <1>1, QosAgentAssumption DEF Entries
<1>4. CASE idx = DEFAULT
  <2>1. tDefaultBearer' = [tDefaultBearer EXCEPT ![ct] = t]
        /\ tDedicatedBearer' = tDedicatedBearer
        BY <1>4 DEF SetTft
  <2>2. \A d \in Pdns : \A k \in Entries(d) :
          TftOf(d, k)' = IF d = ct /\ k = idx THEN t ELSE TftOf(d, k)
        BY <1>1, <1>2, <1>4, <2>1 DEF TftOf
  <2> QED BY <1>1, <1>2, <2>1, <2>2 DEF Turn
<1>5. CASE idx # DEFAULT
  <2>1. tDedicatedBearer' = [tDedicatedBearer EXCEPT ![ct][idx] = t]
        /\ tDefaultBearer' = tDefaultBearer
        BY <1>5 DEF SetTft
  <2>2. idx \in B /\ idx < u8NumDedicatedBearers[ct]
        BY <1>2, <1>3, <1>5
  <2>3. \A d \in Pdns : \A k \in B :
          tDedicatedBearer'[d][k] = IF d = ct /\ k = idx THEN t ELSE tDedicatedBearer[d][k]
        BY <1>1, <1>2, <2>1, <2>2
  <2>4. tDedicatedBearer' \in [Pdns -> [B -> Tft]]
        BY <1>1, <1>2, <2>1, <2>2
  <2>5. \A d \in Pdns : \A k \in Entries(d) :
          TftOf(d, k)' = IF d = ct /\ k = idx THEN t ELSE TftOf(d, k)
        BY <1>3, <1>5, <2>1, <2>3 DEF TftOf
  <2>6. \A d \in Pdns : \A k \in B :
          ~ (k < u8NumDedicatedBearers[d]) => tDedicatedBearer'[d][k] = tDedicatedBearer[d][k]
        BY <2>2, <2>3
  <2> QED BY <1>1, <2>1, <2>4, <2>5, <2>6 DEF Turn
<1> QED BY <1>4, <1>5

(* The heap and a list, as the operations see them.                        *)
LEMMA MemFacts ==
  ASSUME LInv, NEW ct \in Pdns
  PROVE  /\ Mem(ct) \in Memory
         /\ Mem(ct).used = used /\ Mem(ct).cell = cell /\ Mem(ct).ok = TRUE
         /\ Mem(ct).head = tClassifierTable[ct]
         /\ Recorded(ct) \ Leaving \subseteq used /\ Recorded(ct) \subseteq used
         /\ Linked(Mem(ct).head, Mem(ct).cell, Recorded(ct) \ Leaving)
         /\ used \subseteq Nodes /\ cell \in [Nodes -> Cell] /\ NULL \notin Nodes
<1>1. /\ used \subseteq Nodes /\ cell \in [Nodes -> Cell]
      /\ tClassifierTable[ct] \in Ref
      BY DEF LInv, Typed, TypeOK, Ref
<1>2. Mem(ct) \in Memory
      BY <1>1 DEF Mem, Memory
<1>3. /\ Linked(tClassifierTable[ct], cell, Recorded(ct) \ Leaving)
      /\ Recorded(ct) \subseteq used
      BY DEF LInv, ListsSound
<1> QED BY <1>1, <1>2, <1>3, QosAgentAssumption DEF Mem

(* A node is taken out of its list and freed.                              *)
LEMMA DeletedFacts ==
  ASSUME NEW m \in Memory, NEW L, L \subseteq m.used, Linked(m.head, m.cell, L),
         NEW n \in L
  PROVE  LET r == kfree(Unlink(m, n), n)
         IN  /\ r \in Memory /\ r.used = m.used \ {n} /\ r.ok = m.ok
             /\ Linked(r.head, r.cell, L \ {n})
             /\ r.cell[n] = FreeCell
             /\ \A y \in Nodes \ {n} : SameFilter(m.cell[y], r.cell[y])
             /\ \A y \in Nodes \ L : r.cell[y] = m.cell[y]
<1> DEFINE u == Unlink(m, n)
           r == kfree(u, n)
           c == [u.cell EXCEPT ![n] = FreeCell]
<1>1. /\ u \in Memory /\ u.used = m.used /\ u.ok = m.ok
      /\ Linked(u.head, u.cell, L \ {n})
      /\ SameFilters(u.cell, m.cell)
      /\ \A y \in Nodes \ L :
           u.cell[y].next = m.cell[y].next /\ u.cell[y].prev = m.cell[y].prev
      BY UnlinkFacts
<1> HIDE DEF u
<1>2. n \in Nodes /\ n \in u.used /\ L \subseteq Nodes
      BY <1>1 DEF Memory
<1>3. FreeCell \in Cell
      BY DEF FreeCell, Cell, Ids, Ref
<1>4. r = [u EXCEPT !.used = u.used \ {n}, !.cell = c]
      BY <1>1, <1>2 DEF kfree, Memory
<1>5. c \in [Nodes -> Cell] /\ c[n] = FreeCell /\ \A y \in Nodes \ {n} : c[y] = u.cell[y]
      BY <1>1, <1>2, <1>3 DEF Memory
<1> HIDE DEF c
<1>6. /\ r \in Memory /\ r.used = m.used \ {n} /\ r.ok = m.ok /\ r.head = u.head
      /\ r.cell = c
      BY <1>1, <1>4, <1>5 DEF Memory
<1> HIDE DEF r
<1>7. Linked(r.head, r.cell, L \ {n})
  <2>1. \A y \in L \ {n} : c[y] = u.cell[y]
        BY <1>2, <1>5
  <2> QED BY <1>1, <1>6, <2>1, LinkedFrame
<1>8. \A y \in Nodes \ {n} : SameFilter(m.cell[y], c[y])
      BY <1>1, <1>5 DEF SameFilters, SameFilter
<1>9. ASSUME NEW y \in Nodes \ L PROVE c[y] = m.cell[y]
  <2>1. c[y] = u.cell[y] /\ u.cell[y] \in Cell /\ m.cell[y] \in Cell
        BY <1>1, <1>5 DEF Memory
  <2> QED BY <1>1, <2>1 DEF Cell, SameFilters
<1> QED BY <1>5, <1>6, <1>7, <1>8, <1>9 DEF r, u

(* The state of the heap after a section.                                  *)
HeapTyped ==
  /\ used' \subseteq Nodes /\ cell' \in [Nodes -> Cell]
  /\ tClassifierTable' \in [Pdns -> Nodes \cup {NULL}]
  /\ \A n \in Nodes \ used' : cell'[n] = FreeCell
  /\ halted' = FALSE

(* What the end of a section leaves in the heap.                           *)
LEMMA CommitTyped ==
  ASSUME LInv, NEW ct \in Pdns, NEW m \in Memory, Commit(ct, m), m.ok = TRUE,
         \A n \in Nodes \ m.used : m.cell[n] = FreeCell
  PROVE  /\ HeapTyped
         /\ used' = m.used /\ cell' = m.cell /\ tClassifierTable'[ct] = m.head
         /\ \A d \in Pdns : d # ct => tClassifierTable'[d] = tClassifierTable[d]
<1>1. tClassifierTable \in [Pdns -> Nodes \cup {NULL}]
      BY DEF LInv, Typed, TypeOK
<1>2. /\ used' = m.used /\ cell' = m.cell /\ halted' = FALSE
      /\ tClassifierTable' = [tClassifierTable EXCEPT ![ct] = m.head]
      BY DEF Commit
<1>3. m.used \subseteq Nodes /\ m.cell \in [Nodes -> Cell] /\ m.head \in Nodes \cup {NULL}
      BY DEF Memory, Ref
<1> QED BY <1>1, <1>2, <1>3 DEF HeapTyped

(* An entry has no more filters than slots.                                *)
LEMMA HeldFinite ==
  ASSUME NEW t
  PROVE  IsFiniteSet(Held(t)) /\ Cardinality(Held(t)) \in Nat /\ Held(t) \subseteq Slots
         /\ Cardinality(Held(t)) <= MAX_FILTERS_PER_TFT
<1>1. IsFiniteSet(Slots) /\ Cardinality(Slots) = MAX_FILTERS_PER_TFT
  <2>1. 0 \in Int /\ MAX_FILTERS_PER_TFT - 1 \in Int /\ 0 <= MAX_FILTERS_PER_TFT - 1
        /\ (MAX_FILTERS_PER_TFT - 1) - 0 + 1 = MAX_FILTERS_PER_TFT
        BY QosAgentAssumption
  <2> QED BY <2>1, FS_Interval DEF Slots
<1>2. Held(t) \in SUBSET Slots
      BY DEF Held
<1> QED BY <1>1, <1>2, FS_Subset, FS_CardinalityType

(* Entries are of their type, and those of dedicated bearers in the array. *)
LEMMA EntryTyped ==
  ASSUME LInv, NEW ct \in Pdns, NEW i \in Entries(ct)
  PROVE  /\ TftOf(ct, i) \in Tft
         /\ i # DEFAULT => /\ i \in 0 .. (MAX_DEDICATED_BEARER_PER_PDN - 1)
                           /\ i < u8NumDedicatedBearers[ct]
<1> DEFINE B == 0 .. (MAX_DEDICATED_BEARER_PER_PDN - 1)
<1>1. /\ tDefaultBearer \in [Pdns -> Tft] /\ tDedicatedBearer \in [Pdns -> [B -> Tft]]
      /\ u8NumDedicatedBearers \in [Pdns -> 0 .. MAX_DEDICATED_BEARER_PER_PDN]
      BY DEF LInv, Typed, TypeOK
<1>2. i # DEFAULT => i \in B /\ i < u8NumDedicatedBearers[ct]
      BY <1>1, QosAgentAssumption DEF Entries
<1> QED BY <1>1, <1>2 DEF TftOf

(* A handler deletes the filter in one slot of its bearer.                 *)
Dropped(t, u, j) ==
  t \in Tft /\ t.id = u.id /\ t.pf = [u.pf EXCEPT ![j] = NULL]

(* A turn that takes the filter of one slot out of list, heap and entry.   *)
LEMMA DropTurn ==
  ASSUME LInv, cmd.op \in {"matchall", "delete", "release"}, NEW ct, ct = cmd.ct,
         NEW idx, idx = cmd.idx, NEW j \in Held(TftOf(ct, idx)),
         NEW t, Dropped(t, TftOf(ct, idx), j),
         Commit(ct, Deleted(Mem(ct), TftOf(ct, idx).pf[j])), SetTft(ct, idx, t),
         u8NumDedicatedBearers' = u8NumDedicatedBearers, cmd'.op # "sort"
  PROVE  /\ Turn(t)
         /\ tDefaultBearer' \in [Pdns -> Tft]
         /\ tDedicatedBearer' \in
              [Pdns -> [0 .. (MAX_DEDICATED_BEARER_PER_PDN - 1) -> Tft]]
         /\ HeapTyped
         /\ ListsSound'
         /\ CellsKept
         /\ Held(t) = Held(TftOf(ct, idx)) \ {j}
         /\ \A k \in Held(t) :
              /\ t.pf[k] = TftOf(ct, idx).pf[k]
              /\ SameFilter(cell[t.pf[k]], cell'[t.pf[k]])
         /\ Cardinality(Held(t)) = Cardinality(Held(TftOf(ct, idx))) - 1
<1> DEFINE u == TftOf(ct, idx)
           n == u.pf[j]
           m == Mem(ct)
           r == kfree(Unlink(m, n), n)
           L == Recorded(ct)
<1>0. t \in Tft /\ t.id = u.id /\ t.pf = [u.pf EXCEPT ![j] = NULL]
      BY DEF Dropped
<1>1. ct \in Pdns /\ idx \in Entries(ct) /\ u.id = cmd.b /\ cmd.op # "none"
      BY DEF LInv, CmdSound
<1>2. n \in used /\ n \in L /\ n \in Nodes /\ cell[n].eps = u.id /\ j \in Slots
      BY <1>1, Owned
<1>3. Recorded(ct) \ Leaving = L
      BY DEF Leaving
<1>4. /\ m \in Memory /\ m.used = used /\ m.cell = cell /\ m.ok = TRUE
      /\ m.head = tClassifierTable[ct] /\ L \subseteq used
      /\ Linked(m.head, m.cell, L)
      /\ used \subseteq Nodes
  <2>1. /\ m \in Memory /\ m.used = used /\ m.cell = cell /\ m.ok = TRUE
        /\ m.head = tClassifierTable[ct] /\ Recorded(ct) \subseteq used
        /\ Linked(m.head, m.cell, Recorded(ct) \ Leaving)
        /\ used \subseteq Nodes
        BY <1>1, MemFacts
  <2> QED BY <1>3, <2>1
<1> HIDE DEF m, n, L
<1>5. /\ r \in Memory /\ r.used = m.used \ {n} /\ r.ok = m.ok
      /\ Linked(r.head, r.cell, L \ {n})
      /\ r.cell[n] = FreeCell
      /\ \A y \in Nodes \ {n} : SameFilter(m.cell[y], r.cell[y])
      /\ \A y \in Nodes \ L : r.cell[y] = m.cell[y]
  <2>1. L \subseteq m.used /\ n \in L
        BY <1>2, <1>4
  <2>2. LET q == kfree(Unlink(m, n), n)
        IN  /\ q \in Memory /\ q.used = m.used \ {n} /\ q.ok = m.ok
            /\ Linked(q.head, q.cell, L \ {n})
            /\ q.cell[n] = FreeCell
            /\ \A y \in Nodes \ {n} : SameFilter(m.cell[y], q.cell[y])
            /\ \A y \in Nodes \ L : q.cell[y] = m.cell[y]
        BY <1>4, <2>1, DeletedFacts
  <2> QED BY <2>2
<1>6. Commit(ct, r)
      BY DEF Deleted, m, n
<1> HIDE DEF r
<1>7. /\ Turn(t)
      /\ tDefaultBearer' \in [Pdns -> Tft]
      /\ tDedicatedBearer' \in
           [Pdns -> [0 .. (MAX_DEDICATED_BEARER_PER_PDN - 1) -> Tft]]
      BY <1>0, <1>1, SetTftTurn
<1>8. \A y \in Nodes \ r.used : r.cell[y] = FreeCell
  <2>1. \A y \in Nodes \ used : cell[y] = FreeCell
        BY DEF LInv, Typed, TypeOK
  <2>2. \A y \in Nodes \ used : r.cell[y] = cell[y]
        BY <1>4, <1>5 DEF L
  <2> QED BY <1>4, <1>5, <2>1, <2>2
<1>9. /\ HeapTyped
      /\ used' = r.used /\ cell' = r.cell /\ tClassifierTable'[ct] = r.head
      /\ \A d \in Pdns : d # ct => tClassifierTable'[d] = tClassifierTable[d]
      BY <1>1, <1>4, <1>5, <1>6, <1>8, CommitTyped
<1>10. u.pf \in [Slots -> Nodes \cup {NULL}]
  <2>1. u \in Tft
        BY <1>1, EntryTyped
  <2> QED BY <2>1 DEF Tft
<1>11. Held(t) = Held(u) \ {j} /\ \A k \in Held(t) : t.pf[k] = u.pf[k]
      BY <1>0, <1>2, <1>10 DEF Held
<1>12. Cardinality(Held(t)) = Cardinality(Held(u)) - 1
  <2>1. IsFiniteSet(Held(u)) /\ j \in Held(u)
        BY HeldFinite
  <2> QED BY <1>11, <2>1, FS_RemoveElement
<1>13. ASSUME NEW k \in Held(u), k # j
       PROVE  u.pf[k] # n /\ u.pf[k] \in used /\ cell[u.pf[k]].eps = cmd.b
  <2>1. u.pf[k] \in used /\ cell[u.pf[k]].eps = u.id
        BY <1>1, Owned
  <2>2. u.pf[k] # n
        BY <1>1, <1>13, OwnedOnce DEF n
  <2> QED BY <1>1, <2>1, <2>2
<1>14. \A y \in used : y # n => SameFilter(cell[y], cell'[y])
      BY <1>4, <1>5, <1>9
<1>r. /\ \A d \in Pdns \ {ct} : \A y \in Recorded(d) : cell[y].eps # cmd.b
      /\ \A y : y \in Recorded(ct)' <=> \/ y \in Recorded(ct) /\ cell[y].eps # cmd.b
                                        \/ \E k \in Held(t) : y = t.pf[k]
  <2>1. \A v : Turn(v) =>
          /\ \A d \in Pdns \ {ct} : \A y \in Recorded(d) : cell[y].eps # cmd.b
          /\ \A y : y \in Recorded(ct)' <=> \/ y \in Recorded(ct) /\ cell[y].eps # cmd.b
                                            \/ \E k \in Held(v) : y = v.pf[k]
        BY <1>1, TurnRecords
  <2> QED BY <1>7, <2>1, Zenon
<1>15. \A y : y \in used' <=> \/ y \in used /\ cell[y].eps # cmd.b
                              \/ \E k \in Held(t) : y = t.pf[k]
  <2>1. ASSUME NEW y \in used, cell[y].eps = cmd.b, y # n
        PROVE  \E k \in Held(t) : y = t.pf[k]
    <3>1. PICK d \in Pdns : y \in Recorded(d)
          BY DEF LInv, ListsSound
    <3>2. d = ct
          BY <1>r, <2>1, <3>1
    <3>3. PICK k \in Held(u) : y = u.pf[k]
          BY <1>1, <2>1, <3>1, <3>2, RecordsApart
    <3> QED BY <1>11, <2>1, <3>3 DEF n
  <2>2. used' = used \ {n}
        BY <1>4, <1>5, <1>9
  <2>3. ASSUME NEW k \in Held(t) PROVE t.pf[k] \in used \ {n}
        BY <1>11, <1>13
  <2> QED BY <1>1, <1>2, <2>1, <2>2, <2>3
<1>16. \A y : y \in Recorded(ct)' <=> y \in L \ {n}
  <2>1. \A y : y \in Recorded(ct)' <=> \/ y \in Recorded(ct) /\ cell[y].eps # cmd.b
                                       \/ \E k \in Held(t) : y = t.pf[k]
        BY <1>r
  <2>2. ASSUME NEW y \in L, y # n, cell[y].eps = cmd.b
        PROVE  \E k \in Held(t) : y = t.pf[k]
    <3>1. PICK k \in Held(u) : y = u.pf[k]
          BY <1>1, <2>2, RecordsApart DEF L
    <3> QED BY <1>11, <2>2, <3>1 DEF n
  <2>3. ASSUME NEW k \in Held(t) PROVE t.pf[k] \in L \ {n}
    <3>1. u.pf[k] \in L
          BY <1>1, <1>11, Owned DEF L
    <3> QED BY <1>11, <1>13, <3>1
  <2> QED BY <1>1, <1>2, <2>1, <2>2, <2>3 DEF L
<1>17. Leaving' = {}
      BY DEF Leaving
<1>18. Linked(tClassifierTable'[ct], cell', Recorded(ct)' \ Leaving')
  <2>1. Recorded(ct)' \ Leaving' = L \ {n}
        BY <1>16, <1>17
  <2> QED BY <1>5, <1>9, <2>1
<1>19. ListsSound'
  <2>1. \A y \in used : y \notin Recorded(ct) => cell'[y] = cell[y]
        BY <1>4, <1>5, <1>9 DEF L
  <2>2. \A y \in Leaving' : cell[y].eps = cmd.b \/ y \notin used
        BY <1>17
  <2>3. \A d \in Pdns : d # ct => tClassifierTable'[d] = tClassifierTable[d]
        BY <1>9
  <2>4. \A v : Turn(v) /\ (\A y : y \in used' <=> \/ y \in used /\ cell[y].eps # cmd.b
                                                  \/ \E k \in Held(v) : y = v.pf[k])
              => ListsSound'
        BY <1>1, <1>18, <2>1, <2>2, <2>3, ListsKept
  <2> QED BY <1>7, <1>15, <2>4, Zenon
<1>20. CellsKept
      BY <1>1, <1>2, <1>14 DEF CellsKept
<1>21. \A k \in Held(t) : t.pf[k] = u.pf[k] /\ SameFilter(cell[t.pf[k]], cell'[t.pf[k]])
      BY <1>11, <1>13, <1>14
<1> QED BY <1>7, <1>9, <1>11, <1>12, <1>19, <1>20, <1>21

(* The types of tables and heap, put together.                             *)
LEMMA TypedAfter ==
  ASSUME LInv, HeapTyped, tDefaultBearer' \in [Pdns -> Tft],
         tDedicatedBearer' \in [Pdns -> [0 .. (MAX_DEDICATED_BEARER_PER_PDN - 1) -> Tft]],
         u8NumDedicatedBearers' \in [Pdns -> 0 .. MAX_DEDICATED_BEARER_PER_PDN],
         u8MatchAll' \in [Pdns -> BOOLEAN],
         u8PdnAddress' \in [Pdns -> Addrs \cup {NoAddr}],
         cmd'.op \in {"none", "matchall", "add", "replace", "sort", "delete", "release"}
  PROVE  Typed'
BY Zenon DEF HeapTyped, Typed, TypeOK

(* The handler's bearer, as the tables and the network see it.             *)
LEMMA OwnBearer ==
  ASSUME LInv, cmd.op # "none"
  PROVE  /\ cmd.ct \in Pdns /\ cmd.idx \in Entries(cmd.ct) /\ cmd.b # NoId
         /\ TftOf(cmd.ct, cmd.idx).id = cmd.b
         /\ \E x \in Now :
              /\ x.id = cmd.b /\ x.pdn = tDefaultBearer[cmd.ct].id
              /\ \A y \in Now : y.id = cmd.b => y = x
              /\ HasFilters(TftOf(cmd.ct, cmd.idx), cell, Must(x), May(x))
<1>1. /\ cmd.ct \in Pdns /\ cmd.idx \in Entries(cmd.ct) /\ cmd.b # NoId
      /\ TftOf(cmd.ct, cmd.idx).id = cmd.b
      BY DEF LInv, CmdSound
<1>2. PICK x \in Now : x.id = cmd.b /\ x.pdn = tDefaultBearer[cmd.ct].id
      BY <1>1 DEF LInv, EntriesKnown
<1>3. \A y \in Now : y.id = cmd.b => y = x
      BY <1>2 DEF LInv, NetSound, Now
<1>4. HasFilters(TftOf(cmd.ct, cmd.idx), cell, Must(x), May(x))
      BY <1>1, <1>2 DEF LInv, EntriesSound
<1> QED BY <1>1, <1>2, <1>3, <1>4

(* The match-all filter of a default bearer goes before its first filter   *)
(* comes.                                                                  *)
LEMMA MatchAllStep ==
  ASSUME LInv, IInv, Qa_Delete_Default_Bearer_MatchAll_TFT
  PROVE  LInv'
<1> PICK ct : ct = cmd.ct
    OBVIOUS
<1>u. PICK u : u = tDefaultBearer[ct]
      OBVIOUS
<1>t. PICK t : t = [u EXCEPT !.pf[0] = NULL, !.num = 0]
      OBVIOUS
<1>1. /\ cmd.op = "matchall" /\ cmd.op # "none"
      /\ Commit(ct, kfree(Unlink(Mem(ct), u.pf[0]), u.pf[0]))
      /\ tDefaultBearer' = [tDefaultBearer EXCEPT ![ct].pf[0] = NULL, ![ct].num = 0]
      /\ u8MatchAll' = [u8MatchAll EXCEPT ![ct] = FALSE]
      /\ cmd' = [cmd EXCEPT !.op = "add"]
      /\ UNCHANGED <<tDedicatedBearer, u8NumDedicatedBearers, u8PdnAddress, net, goal>>
      BY <1>u DEF Qa_Delete_Default_Bearer_MatchAll_TFT
<1>2. /\ ct \in Pdns /\ DEFAULT \in Entries(ct) /\ cmd.b # NoId /\ u.id = cmd.b
      /\ cmd.idx = DEFAULT /\ TftOf(ct, DEFAULT) = u
  <2>1. cmd.idx = DEFAULT
        BY <1>1 DEF LInv, CmdSound
  <2> QED BY <1>u, <1>1, <2>1, OwnBearer DEF TftOf
<1>3. PICK x \in net : x.id = cmd.b /\ x.pdn = u.id /\ \A y \in net : y.id = cmd.b => y = x
  <2>1. Now = net
        BY <1>1 DEF Now
  <2> QED BY <1>u, <1>1, <2>1, OwnBearer
<1>4. PICK y \in goal : Carries(y, x) /\ y.tft = ToSet(cmd.fs) /\ x.tft = {}
      BY <1>1, <1>3 DEF LInv, CmdSound
<1>5. \A z \in goal : z.id = cmd.b => z = y
      BY <1>3, <1>4 DEF LInv, NetSound, Carries
<1>6. /\ cmd.fs \in Seq(Filters) /\ cmd.fs # << >>
      /\ \A z \in net \cup goal : z.id # cmd.b => (z \in net <=> z \in goal)
      BY <1>1 DEF LInv, CmdSound, FilterOps
<1>7. y.tft # {}
  <2>1. 1 \in DOMAIN cmd.fs
        BY <1>6
  <2> QED BY <1>4, <2>1 DEF ToSet
<1>8. Held(u) = {0}
  <2>1. Now = net
        BY <1>1 DEF Now
  <2>2. u8MatchAll[ct] <=> x.tft = {}
        BY <1>u, <1>2, <1>3, <2>1 DEF LInv, EntriesSound
  <2>3. u8MatchAll[ct] => Held(u) = {0}
        BY <1>u, <1>2, <1>3, <2>1 DEF LInv, EntriesSound
  <2> QED BY <1>4, <2>2, <2>3
<1>9. u \in Tft
      BY <1>2, EntryTyped
<1>10. /\ t \in Tft /\ t.id = u.id /\ t.pf = [u.pf EXCEPT ![0] = NULL] /\ t.num = 0
  <2>1. [u.pf EXCEPT ![0] = NULL] \in [Slots -> Nodes \cup {NULL}]
        BY <1>9 DEF Tft
  <2>2. LET v == [u EXCEPT !.pf[0] = NULL, !.num = 0]
        IN  v \in Tft /\ v.id = u.id /\ v.pf = [u.pf EXCEPT ![0] = NULL] /\ v.num = 0
    <3>1. 0 \in 0 .. MAX_FILTERS_PER_TFT
          BY QosAgentAssumption
    <3> QED BY <1>9, <2>1, <3>1 DEF Tft
  <2> QED BY <1>t, <2>2, Zenon
<1>12. tDefaultBearer' = [tDefaultBearer EXCEPT ![ct] = t]
  <2>1. tDefaultBearer \in [Pdns -> Tft]
        BY DEF LInv, Typed, TypeOK
  <2>2. tDefaultBearer' = [tDefaultBearer EXCEPT ![ct] = [u EXCEPT !.pf[0] = NULL, !.num = 0]]
        BY <1>u, <1>1, <1>2, <2>1
  <2> QED BY <1>t, <2>2
<1>13. SetTft(ct, DEFAULT, t)
      BY <1>1, <1>12 DEF SetTft
<1>14. cmd'.op = "add" /\ cmd'.b = cmd.b /\ cmd'.fs = cmd.fs /\ cmd'.ct = ct
       /\ cmd'.idx = DEFAULT
      BY <1>1, <1>2 DEF IInv, Shapes
<1>15. /\ Turn(t)
       /\ tDefaultBearer' \in [Pdns -> Tft]
       /\ tDedicatedBearer' \in
            [Pdns -> [0 .. (MAX_DEDICATED_BEARER_PER_PDN - 1) -> Tft]]
       /\ HeapTyped
       /\ ListsSound'
       /\ CellsKept
       /\ Held(t) = Held(u) \ {0}
       /\ Cardinality(Held(t)) = Cardinality(Held(u)) - 1
  <2>1. 0 \in Held(TftOf(ct, DEFAULT)) /\ Commit(ct, Deleted(Mem(ct), TftOf(ct, DEFAULT).pf[0]))
        BY <1>1, <1>2, <1>8 DEF Deleted
  <2>2. Dropped(t, TftOf(ct, DEFAULT), 0)
        BY <1>2, <1>10 DEF Dropped
  <2>3. cmd'.op # "sort" /\ u8NumDedicatedBearers' = u8NumDedicatedBearers
        BY <1>1, <1>14
  <2>4. DEFAULT = cmd.idx /\ cmd.op \in {"matchall", "delete", "release"}
        BY <1>1, <1>2
  <2>5. /\ Turn(t)
        /\ tDefaultBearer' \in [Pdns -> Tft]
        /\ tDedicatedBearer' \in
             [Pdns -> [0 .. (MAX_DEDICATED_BEARER_PER_PDN - 1) -> Tft]]
        /\ HeapTyped
        /\ ListsSound'
        /\ CellsKept
        /\ Held(t) = Held(TftOf(ct, DEFAULT)) \ {0}
        /\ Cardinality(Held(t)) = Cardinality(Held(TftOf(ct, DEFAULT))) - 1
        BY <1>13, <2>1, <2>2, <2>3, <2>4, DropTurn
  <2> QED BY <1>2, <2>5
<1>16. Held(t) = {} /\ Cardinality(Held(t)) = 0
  <2>1. Held(t) = {}
        BY <1>8, <1>15
  <2> QED BY <2>1, FS_EmptySet
<1>17. Now = net /\ Now' = goal
      BY <1>1, <1>14 DEF Now
<1>18. NowKept
      BY <1>3, <1>4, <1>5, <1>6, <1>17 DEF NowKept, Carries
<1>19. EntriesKnown'
      BY <1>1, <1>15, <1>18, KnownKept
<1>20. OthersKept
      BY <1>6, <1>14, <1>17 DEF Must, May, OthersKept
<1>21. OwnHeld(t)
  <2>1. Must(y)' = {} /\ May(y)' = {}
        BY <1>4, <1>7, <1>14, <1>3 DEF Must, May, InForce, Carries
  <2>2. HasFilters(t, cell', {}, {})
        BY <1>16 DEF HasFilters
  <2> QED BY <1>5, <1>17, <2>1, <2>2 DEF OwnHeld
<1>22. EntriesSound'
  <2>1. OthersMatchAll
        BY <1>u, <1>1, <1>2 DEF LInv, Typed, TypeOK, OthersMatchAll
  <2>2. u8MatchAll'[ct] = FALSE
        BY <1>u, <1>1, <1>2 DEF LInv, Typed, TypeOK
  <2>3. OwnMatchAll(t)
        BY <1>5, <1>7, <1>17, <2>2 DEF OwnMatchAll
  <2>4. OwnNum(t)
    <3>1. t.num = 0
          BY <1>10, Zenon
    <3> QED BY <1>16, <3>1, Zenon DEF OwnNum
  <2>5. cmd.op # "none" /\ Turn(t) /\ CellsKept
        BY <1>1, <1>15
  <2> QED BY <1>20, <1>21, <2>1, <2>3, <2>4, <2>5, SoundKept
<1>23. Typed'
  <2>1. /\ u8NumDedicatedBearers' \in [Pdns -> 0 .. MAX_DEDICATED_BEARER_PER_PDN]
        /\ u8MatchAll' \in [Pdns -> BOOLEAN]
        /\ u8PdnAddress' \in [Pdns -> Addrs \cup {NoAddr}]
        BY <1>1 DEF LInv, Typed, TypeOK
  <2> QED BY <1>14, <1>15, <2>1, TypedAfter
<1>24. CmdSound'
  <2>1. TftOf(ct, DEFAULT)'.id = cmd.b /\ DEFAULT \in Entries(ct)'
        BY <1>2, <1>10, <1>12, <1>15 DEF TftOf, Entries
  <2>2. /\ \A i, j \in DOMAIN cmd.fs : i # j => cmd.fs[i].pfid # cmd.fs[j].pfid
        /\ \A z \in net : z.id = cmd.b => z.tft \cap ToSet(cmd.fs) = {}
        BY <1>1 DEF LInv, CmdSound, FilterOps
  <2>3. TftOf(cmd.ct, cmd.idx)'.id = cmd'.b /\ cmd'.idx \in Entries(cmd.ct)'
        BY <1>14, <2>1 DEF TftOf, Entries
  <2>4. \A z \in goal : z.id = cmd.b => ToSet(cmd.fs) \subseteq z.tft
        BY <1>4, <1>5
  <2> QED BY <1>1, <1>2, <1>6, <1>14, <2>2, <2>3, <2>4 DEF CmdSound, FilterOps
<1>25. NetSound(net') /\ NetSound(goal')
      BY <1>1 DEF LInv
<1> QED BY <1>15, <1>19, <1>22, <1>23, <1>24, <1>25 DEF LInv

(* What is left in an entry when one of its filters goes.                  *)
LEMMA DropHolds ==
  ASSUME NEW u, NEW t, NEW c, NEW d, NEW must, NEW may, NEW j,
         HasFilters(u, c, must, may), t.id = u.id, Held(t) = Held(u) \ {j},
         \A k \in Held(t) : t.pf[k] = u.pf[k] /\ SameFilter(c[t.pf[k]], d[t.pf[k]]),
         \A f \in must : ~Holds(c, u.pf[j], f)
  PROVE  HasFilters(t, d, must, may)
<1>1. HasFilters(t, c, must, may)
  <2>1. \A k \in Held(t) : /\ c[t.pf[k]].eps = t.id
                           /\ \E f \in may : Holds(c, t.pf[k], f)
        BY DEF HasFilters
  <2>2. ASSUME NEW f \in must
        PROVE  \E k \in Held(t) : Holds(c, t.pf[k], f)
    <3>1. PICK k \in Held(u) : Holds(c, u.pf[k], f)
          BY DEF HasFilters
    <3>2. k # j
          BY <3>1
    <3> QED BY <3>1, <3>2
  <2>3. \A k, l \in Held(t) : c[t.pf[k]].pfid = c[t.pf[l]].pfid => k = l
        BY DEF HasFilters
  <2> QED BY <2>1, <2>2, <2>3 DEF HasFilters
<1> QED BY <1>1, FiltersFrame DEF SameFilter

(* What a turn changes of its entry only leaves the network's view alone.  *)
LEMMA CmdKept ==
  ASSUME LInv, cmd.op # "none", NEW t, Turn(t), UNCHANGED <<cmd, net, goal>>
  PROVE  CmdSound'
<1> PICK ct : ct = cmd.ct
    OBVIOUS
<1> PICK idx : idx = cmd.idx
    OBVIOUS
<1>1. /\ ct \in Pdns /\ idx \in Entries(ct) /\ TftOf(ct, idx).id = cmd.b
      /\ \A d \in Pdns : Entries(d)' = Entries(d)
      /\ \A d \in Pdns : \A k \in Entries(d) : TftOf(d, k)'.id = TftOf(d, k).id
      BY TurnIds
<1>2. idx \in Entries(ct)' /\ TftOf(ct, idx)'.id = cmd.b
      BY <1>1
<1>3. cmd'.idx \in Entries(cmd.ct)' /\ TftOf(cmd.ct, cmd.idx)'.id = cmd'.b
      BY <1>2 DEF Entries, TftOf
<1>4. u8NumDedicatedBearers' = u8NumDedicatedBearers
      BY DEF Turn
<1>5. CmdSound
      BY DEF LInv
<1> QED BY <1>3, <1>4, <1>5 DEF CmdSound

(* The default bearer of a PDN always has a filter, of its own or the      *)
(* match-all filter: the list has a node that is not of a dedicated bearer.*)
LEMMA DefaultHasNode ==
  ASSUME LInv, NEW ct \in Pdns, NEW i \in Entries(ct), i # DEFAULT,
         cmd.op \in {"delete", "release"} => cmd.idx # DEFAULT, cmd.op # "add"
  PROVE  \E j \in Held(tDefaultBearer[ct]) : TRUE
<1> DEFINE u == tDefaultBearer[ct]
<1>1. u.id # NoId
  <2>1. u8NumDedicatedBearers[ct] # 0
        BY EntryTyped, QosAgentAssumption DEF LInv, Typed, TypeOK, Entries
  <2> QED BY <2>1 DEF LInv, EntriesKnown
<1>2. DEFAULT \in Entries(ct) /\ TftOf(ct, DEFAULT) = u
      BY DEF Entries, TftOf
<1>3. PICK x \in Now : x.id = u.id /\ x.pdn = u.id
      BY <1>1, <1>2 DEF LInv, EntriesKnown
<1>4. HasFilters(u, cell, Must(x), May(x))
      BY <1>2, <1>3 DEF LInv, EntriesSound
<1>5. Must(x) = InForce(x)
  <2>1. cmd.op \in {"delete", "release"} => cmd.b # x.id
    <3>1. SUFFICES ASSUME cmd.op \in {"delete", "release"}, cmd.b = x.id PROVE FALSE
          OBVIOUS
    <3>2. cmd.ct \in Pdns /\ cmd.idx \in Entries(cmd.ct) /\ TftOf(cmd.ct, cmd.idx).id = cmd.b
          BY <3>1, OwnBearer
    <3>3. cmd.idx = DEFAULT
          BY <1>1, <1>2, <1>3, <3>1, <3>2, IdsApart
    <3> QED BY <3>1, <3>3
  <2> QED BY <2>1 DEF Must, May
<1>6. InForce(x) # {}
      BY <1>3 DEF InForce
<1> QED BY <1>4, <1>5, <1>6 DEF HasFilters

(* A list with two nodes has a second one.                                 *)
LEMMA UnlinkOfBearerIs ==
  ASSUME NEW m \in Memory, NEW L, L \subseteq m.used, Linked(m.head, m.cell, L),
         NEW n \in L, NEW y \in L, y # n
  PROVE  UnlinkOfBearer(m, n) = Unlink(m, n)
<1>1. ASSUME n = m.head, m.cell[n].next = NULL PROVE FALSE
  <2>1. m.cell[y].prec \in Nat /\ m.cell[n].prec \in Nat
        BY DEF Memory, Cell
  <2>2. m.cell[n].prec <= m.cell[y].prec
        BY <1>1 DEF Linked
  <2>3. m.cell[y].prec <= m.cell[n].prec
        BY <1>1 DEF Linked, After
  <2>4. m.cell[y].prec = m.cell[n].prec
        BY <2>1, <2>2, <2>3
  <2> QED BY <2>4 DEF Linked
<1> QED BY <1>1 DEF UnlinkOfBearer

(* A turn of a handler whose message stays as it is.                       *)
LEMMA SameCmdTurn ==
  ASSUME LInv, cmd.op # "none", NEW t, Turn(t), UNCHANGED <<cmd, net, goal>>,
         UNCHANGED <<u8MatchAll, u8PdnAddress>>, cmd.op \notin {"add", "matchall"},
         cmd.op = "delete" \/ cmd.op = "release",
         tDefaultBearer' \in [Pdns -> Tft],
         tDedicatedBearer' \in [Pdns -> [0 .. (MAX_DEDICATED_BEARER_PER_PDN - 1) -> Tft]],
         HeapTyped, ListsSound', CellsKept, OwnNum(t),
         \A x \in Now : x.id = cmd.b => HasFilters(t, cell', Must(x), May(x))
  PROVE  LInv'
<1>1. Now' = Now /\ NowKept
      BY DEF Now, NowKept, Carries
<1>2. \A x : Must(x)' = Must(x) /\ May(x)' = May(x)
      BY DEF Must, May
<1>3. EntriesKnown'
      BY <1>1, KnownKept
<1>4. EntriesSound'
  <2>1. OthersKept
        BY <1>1 DEF OthersKept, Must, May
  <2>2. OwnHeld(t)
        BY <1>1, <1>2 DEF OwnHeld
  <2>3. OthersMatchAll
        BY DEF OthersMatchAll
  <2>4. OwnMatchAll(t)
    <3>1. cmd.idx # DEFAULT
          BY DEF LInv, CmdSound
    <3> QED BY <3>1 DEF OwnMatchAll
  <2> QED BY <2>1, <2>2, <2>3, <2>4, SoundKept
<1>5. CmdSound'
      BY CmdKept
<1>6. Typed'
  <2>1. /\ u8NumDedicatedBearers' \in [Pdns -> 0 .. MAX_DEDICATED_BEARER_PER_PDN]
        /\ u8MatchAll' \in [Pdns -> BOOLEAN]
        /\ u8PdnAddress' \in [Pdns -> Addrs \cup {NoAddr}]
        /\ cmd'.op \in {"none", "matchall", "add", "replace", "sort", "delete", "release"}
        BY DEF LInv, Typed, TypeOK, Turn
  <2> QED BY <2>1, TypedAfter
<1>7. NetSound(net') /\ NetSound(goal')
      BY DEF LInv
<1> QED BY <1>3, <1>4, <1>5, <1>6, <1>7 DEF LInv

(* A filter of a released bearer goes. The list has another one left, of   *)
(* the default bearer, so that UnlinkOfBearer finds the successor it takes *)
(* for granted.                                                            *)
LEMMA ReleaseFilterStep ==
  ASSUME LInv, Qa_Bearer_Delete_filter
  PROVE  LInv'
<1>c. PICK ct : ct = cmd.ct
      OBVIOUS
<1>i. PICK idx : idx = cmd.idx
      OBVIOUS
<1>u. PICK u : u = TftOf(ct, idx)
      OBVIOUS
<1>j. PICK j : j = Min(Held(u))
      OBVIOUS
<1>t. PICK t : t = [u EXCEPT !.pf[j] = NULL]
      OBVIOUS
<1>1. /\ cmd.op = "release" /\ cmd.op # "none" /\ Held(u) # {}
      /\ Commit(ct, kfree(UnlinkOfBearer(Mem(ct), u.pf[j]), u.pf[j]))
      /\ SetTft(ct, idx, t)
      /\ UNCHANGED <<u8NumDedicatedBearers, u8MatchAll, u8PdnAddress, cmd, net, goal>>
      BY <1>c, <1>i, <1>u, <1>j, <1>t DEF Qa_Bearer_Delete_filter, Held
<1>2. ct \in Pdns /\ idx \in Entries(ct) /\ idx # DEFAULT /\ u.id = cmd.b
  <2>1. ct \in Pdns /\ idx \in Entries(ct) /\ u.id = cmd.b
        BY <1>c, <1>i, <1>u, <1>1, OwnBearer
  <2>2. idx # DEFAULT
        BY <1>i, <1>1 DEF LInv, CmdSound
  <2> QED BY <2>1, <2>2
<1>3. j \in Held(u)
  <2>1. Held(u) \subseteq Nat
        BY QosAgentAssumption DEF Held, Slots
  <2> QED BY <1>j, <1>1, <2>1, FirstOf
<1>4. u \in Tft
      BY <1>u, <1>2, EntryTyped
<1>5. t \in Tft /\ t.id = u.id /\ t.num = u.num /\ t.pf = [u.pf EXCEPT ![j] = NULL]
  <2>1. [u.pf EXCEPT ![j] = NULL] \in [Slots -> Nodes \cup {NULL}]
        BY <1>4 DEF Tft
  <2>2. LET v == [u EXCEPT !.pf[j] = NULL]
        IN  v \in Tft /\ v.id = u.id /\ v.num = u.num /\ v.pf = [u.pf EXCEPT ![j] = NULL]
        BY <1>4, <2>1 DEF Tft
  <2> QED BY <1>t, <2>2, Zenon
<1>6. UnlinkOfBearer(Mem(ct), u.pf[j]) = Unlink(Mem(ct), u.pf[j])
  <2> PICK m : m = Mem(ct)
      OBVIOUS
  <2> PICK L : L = Recorded(ct)
      OBVIOUS
  <2>1. Recorded(ct) \ Leaving = Recorded(ct)
        BY <1>1 DEF Leaving
  <2>2. m \in Memory /\ L \subseteq m.used /\ Linked(m.head, m.cell, L)
        BY <1>2, <2>1, MemFacts
  <2>3. u.pf[j] \in L
        BY <1>u, <1>2, <1>3, Owned
  <2>4. PICK k \in Held(tDefaultBearer[ct]) : TRUE
        BY <1>1, <1>2, <1>i, DefaultHasNode
  <2>5. DEFAULT \in Entries(ct) /\ TftOf(ct, DEFAULT) = tDefaultBearer[ct]
        BY DEF Entries, TftOf
  <2>6. tDefaultBearer[ct].pf[k] \in L
        BY <1>2, <2>4, <2>5, Owned
  <2>7. tDefaultBearer[ct].pf[k] # u.pf[j]
        BY <1>u, <1>2, <1>3, <2>4, <2>5, OwnedOnce
  <2>8. UnlinkOfBearer(m, u.pf[j]) = Unlink(m, u.pf[j])
        BY <2>2, <2>3, <2>6, <2>7, UnlinkOfBearerIs
  <2> QED BY <2>8
<1>7. Commit(ct, Deleted(Mem(ct), TftOf(ct, idx).pf[j]))
      BY <1>u, <1>1, <1>6 DEF Deleted
<1>8. Dropped(t, TftOf(ct, idx), j)
      BY <1>u, <1>5 DEF Dropped
<1>9. /\ Turn(t)
      /\ tDefaultBearer' \in [Pdns -> Tft]
      /\ tDedicatedBearer' \in
           [Pdns -> [0 .. (MAX_DEDICATED_BEARER_PER_PDN - 1) -> Tft]]
      /\ HeapTyped
      /\ ListsSound'
      /\ CellsKept
      /\ Held(t) = Held(TftOf(ct, idx)) \ {j}
      /\ \A k \in Held(t) :
           /\ t.pf[k] = TftOf(ct, idx).pf[k]
           /\ SameFilter(cell[t.pf[k]], cell'[t.pf[k]])
  <2>1. j \in Held(TftOf(ct, idx))
        BY <1>u, <1>3
  <2>2. cmd'.op # "sort" /\ u8NumDedicatedBearers' = u8NumDedicatedBearers
        /\ SetTft(ct, idx, t) /\ cmd.op \in {"matchall", "delete", "release"}
        BY <1>1
  <2> QED BY <1>c, <1>i, <1>7, <1>8, <2>1, <2>2, DropTurn
<1>10. ASSUME NEW x \in Now, x.id = cmd.b
       PROVE  HasFilters(t, cell', Must(x), May(x))
  <2>1. HasFilters(u, cell, Must(x), May(x))
        BY <1>u, <1>2, <1>10 DEF LInv, EntriesSound
  <2>2. Must(x) = {}
        BY <1>1, <1>10 DEF Must
  <2>3. /\ t.id = u.id /\ Held(t) = Held(u) \ {j}
        /\ \A k \in Held(t) : t.pf[k] = u.pf[k] /\ SameFilter(cell[t.pf[k]], cell'[t.pf[k]])
        BY <1>u, <1>5, <1>9
  <2> QED BY <2>1, <2>2, <2>3, DropHolds
<1>11. OwnNum(t)
      BY <1>1, <1>2, <1>5, Zenon DEF OwnNum
<1> QED BY <1>1, <1>9, <1>10, <1>11, SameCmdTurn

(* A filter of a dedicated bearer is deleted.                              *)
LEMMA DeleteFilterStep ==
  ASSUME LInv, Qa_Delete_Filter
  PROVE  LInv'
<1>c. PICK ct : ct = cmd.ct
      OBVIOUS
<1>i. PICK idx : idx = cmd.idx
      OBVIOUS
<1>u. PICK u : u = TftOf(ct, idx)
      OBVIOUS
<1>j. PICK j : j = Min(SlotsWith(u, cmd.pfids))
      OBVIOUS
<1>t. PICK t : t = [u EXCEPT !.pf[j] = NULL, !.num = u.num - 1]
      OBVIOUS
<1>0. cmd.op = "delete" /\ idx # DEFAULT
      BY <1>i DEF Qa_Delete_Filter, LInv, CmdSound
<1>1. /\ SlotsWith(u, cmd.pfids) # {}
      /\ Commit(ct, Deleted(Mem(ct), u.pf[j]))
      /\ SetTft(ct, idx, t)
      /\ u8MatchAll' = [u8MatchAll EXCEPT ![ct] = u8MatchAll[ct] \/ FALSE]
      /\ UNCHANGED <<u8NumDedicatedBearers, u8PdnAddress, cmd, net, goal>>
      BY <1>c, <1>i, <1>u, <1>j, <1>t, <1>0 DEF Qa_Delete_Filter
<1>2. ct \in Pdns /\ idx \in Entries(ct) /\ u.id = cmd.b /\ cmd.op # "none"
      BY <1>c, <1>i, <1>u, <1>0, OwnBearer
<1>3. j \in Held(u) /\ cell[u.pf[j]].pfid \in cmd.pfids
  <2>1. SlotsWith(u, cmd.pfids) \subseteq Nat
        BY QosAgentAssumption DEF SlotsWith, Slots
  <2>2. j \in SlotsWith(u, cmd.pfids)
        BY <1>j, <1>1, <2>1, FirstOf
  <2> QED BY <2>2 DEF SlotsWith, Held
<1>4. u \in Tft
      BY <1>u, <1>2, EntryTyped
<1>n. u.num = Cardinality(Held(u)) /\ u.num - 1 \in 0 .. MAX_FILTERS_PER_TFT
  <2>1. u.num = Cardinality(Held(u))
        BY <1>u, <1>0, <1>2 DEF LInv, EntriesSound
  <2>2. Cardinality(Held(u)) # 0
        BY <1>3, HeldFinite, FS_EmptySet
  <2>3. u.num \in 0 .. MAX_FILTERS_PER_TFT
        BY <1>4 DEF Tft
  <2> QED BY <2>1, <2>2, <2>3, QosAgentAssumption
<1>5. t \in Tft /\ t.id = u.id /\ t.num = u.num - 1 /\ t.pf = [u.pf EXCEPT ![j] = NULL]
  <2>1. [u.pf EXCEPT ![j] = NULL] \in [Slots -> Nodes \cup {NULL}]
        BY <1>4 DEF Tft
  <2> PICK q : q = u.num - 1
      OBVIOUS
  <2>2. LET v == [u EXCEPT !.pf[j] = NULL, !.num = q]
        IN  v \in Tft /\ v.id = u.id /\ v.num = q /\ v.pf = [u.pf EXCEPT ![j] = NULL]
    <3>1. q \in 0 .. MAX_FILTERS_PER_TFT
          BY <1>n
    <3> QED BY <1>4, <2>1, <3>1 DEF Tft
  <2> QED BY <1>t, <2>2, Zenon
<1>m. u8MatchAll' = u8MatchAll
  <2>1. u8MatchAll \in [Pdns -> BOOLEAN]
        BY DEF LInv, Typed, TypeOK
  <2> QED BY <1>1, <1>2, <2>1
<1>8. Dropped(t, TftOf(ct, idx), j)
      BY <1>u, <1>5 DEF Dropped
<1>9. /\ Turn(t)
      /\ tDefaultBearer' \in [Pdns -> Tft]
      /\ tDedicatedBearer' \in
           [Pdns -> [0 .. (MAX_DEDICATED_BEARER_PER_PDN - 1) -> Tft]]
      /\ HeapTyped
      /\ ListsSound'
      /\ CellsKept
      /\ Held(t) = Held(TftOf(ct, idx)) \ {j}
      /\ \A k \in Held(t) :
           /\ t.pf[k] = TftOf(ct, idx).pf[k]
           /\ SameFilter(cell[t.pf[k]], cell'[t.pf[k]])
      /\ Cardinality(Held(t)) = Cardinality(Held(TftOf(ct, idx))) - 1
  <2>1. j \in Held(TftOf(ct, idx)) /\ Commit(ct, Deleted(Mem(ct), TftOf(ct, idx).pf[j]))
        BY <1>u, <1>1, <1>3
  <2>2. cmd'.op # "sort" /\ u8NumDedicatedBearers' = u8NumDedicatedBearers
        /\ SetTft(ct, idx, t) /\ cmd.op \in {"matchall", "delete", "release"}
        BY <1>0, <1>1
  <2> QED BY <1>c, <1>i, <1>8, <2>1, <2>2, DropTurn
<1>10. ASSUME NEW x \in Now, x.id = cmd.b
       PROVE  HasFilters(t, cell', Must(x), May(x))
  <2>1. HasFilters(u, cell, Must(x), May(x))
        BY <1>u, <1>2, <1>10 DEF LInv, EntriesSound
  <2>2. \A f \in Must(x) : ~Holds(cell, u.pf[j], f)
        BY <1>0, <1>3, <1>10 DEF Must, Holds
  <2>3. /\ t.id = u.id /\ Held(t) = Held(u) \ {j}
        /\ \A k \in Held(t) : t.pf[k] = u.pf[k] /\ SameFilter(cell[t.pf[k]], cell'[t.pf[k]])
        BY <1>u, <1>5, <1>9
  <2> QED BY <2>1, <2>2, <2>3, DropHolds
<1>11. OwnNum(t)
  <2>1. Cardinality(Held(t)) = u.num - 1
        BY <1>u, <1>9, <1>n
  <2> QED BY <1>5, <2>1, Zenon DEF OwnNum
<1>12. /\ UNCHANGED <<u8MatchAll, u8PdnAddress>> /\ UNCHANGED <<cmd, net, goal>>
       /\ cmd.op = "delete" /\ cmd.op # "none"
      BY <1>0, <1>1, <1>m
<1> QED BY <1>9, <1>10, <1>11, <1>12, SameCmdTurn

----------------------------------------------------------------------------
(* The ends of deletions and releases.                                     *)

(* The last turn of a handler: the message has been carried out.           *)
LEMMA DoneTurn ==
  ASSUME LInv, cmd.op # "none", NEW t, Turn(t), Done, NowKept,
         UNCHANGED <<u8MatchAll, u8PdnAddress>>,
         tDefaultBearer' \in [Pdns -> Tft],
         tDedicatedBearer' \in [Pdns -> [0 .. (MAX_DEDICATED_BEARER_PER_PDN - 1) -> Tft]],
         HeapTyped, ListsSound', CellsKept, OwnNum(t), OwnHeld(t), OwnMatchAll(t)
  PROVE  LInv'
<1>1. cmd' = NoCmd /\ cmd'.op = "none" /\ net' = goal /\ goal' = goal
      BY DEF Done, NoCmd
<1>2. Now' = goal
      BY <1>1 DEF Now
<1>3. EntriesKnown'
      BY KnownKept
<1>4. EntriesSound'
  <2>1. OthersKept
    <3>1. \A x \in net \cup goal : x.id # cmd.b => (x \in net <=> x \in goal)
          BY DEF LInv, CmdSound
    <3>2. \A x \in goal : x.id # cmd.b => x \in Now
          BY <3>1 DEF Now
    <3>3. \A x : Must(x)' = InForce(x) /\ May(x)' = InForce(x)
          BY <1>1 DEF Must, May, InForce
    <3> QED BY <1>2, <3>2, <3>3 DEF OthersKept
  <2>2. OthersMatchAll
        BY DEF OthersMatchAll
  <2> QED BY <2>1, <2>2, SoundKept
<1>5. CmdSound'
      BY <1>1 DEF CmdSound, FilterOps
<1>6. Typed'
  <2>1. /\ u8NumDedicatedBearers' \in [Pdns -> 0 .. MAX_DEDICATED_BEARER_PER_PDN]
        /\ u8MatchAll' \in [Pdns -> BOOLEAN]
        /\ u8PdnAddress' \in [Pdns -> Addrs \cup {NoAddr}]
        /\ cmd'.op \in {"none", "matchall", "add", "replace", "sort", "delete", "release"}
        BY <1>1 DEF LInv, Typed, TypeOK, Turn
  <2> QED BY <2>1, TypedAfter
<1>7. NetSound(net') /\ NetSound(goal')
      BY <1>1 DEF LInv
<1> QED BY <1>3, <1>4, <1>5, <1>6, <1>7 DEF LInv

(* A turn that leaves the tables alone.                                    *)
LEMMA SelfTurn ==
  ASSUME LInv, cmd.op # "none", UNCHANGED tables, NEW t, t = TftOf(cmd.ct, cmd.idx)
  PROVE  /\ Turn(t)
         /\ tDefaultBearer' \in [Pdns -> Tft]
         /\ tDedicatedBearer' \in [Pdns -> [0 .. (MAX_DEDICATED_BEARER_PER_PDN - 1) -> Tft]]
<1>1. \A d, k : TftOf(d, k)' = TftOf(d, k)
      BY DEF TftOf, tables
<1>2. t.id = cmd.b
      BY OwnBearer
<1>3. Turn(t)
      BY <1>1, <1>2 DEF Turn, tables
<1> QED BY <1>3 DEF LInv, Typed, TypeOK, tables

(* And one that leaves the lists alone.                                    *)
LEMMA SameLists ==
  ASSUME LInv, UNCHANGED tables, UNCHANGED list, Leaving' = Leaving
  PROVE  HeapTyped /\ ListsSound' /\ CellsKept
<1>1. HeapTyped
      BY DEF LInv, Typed, TypeOK, HeapTyped, list
<1>2. \A d : Recorded(d)' = Recorded(d)
      BY DEF Recorded, tables
<1>3. ListsSound'
      BY <1>2 DEF LInv, ListsSound, list
<1>4. CellsKept
      BY DEF CellsKept, SameFilter, list
<1> QED BY <1>1, <1>3, <1>4

(* The bearers of a dedicated entry's handler are dedicated.               *)
LEMMA OwnDedicated ==
  ASSUME LInv, cmd.op # "none", cmd.idx # DEFAULT
  PROVE  /\ cmd.b \in DedicatedIds
         /\ \A x \in net \cup goal : x.id = cmd.b => x.id # x.pdn /\ InForce(x) = x.tft
<1> PICK ct : ct = cmd.ct
    OBVIOUS
<1> PICK i : i = cmd.idx
    OBVIOUS
<1>1. ct \in Pdns /\ i \in Entries(ct) /\ TftOf(ct, i).id = cmd.b
      BY OwnBearer
<1>2. i \in 0 .. (MAX_DEDICATED_BEARER_PER_PDN - 1) /\ i < u8NumDedicatedBearers[ct]
      BY <1>1, EntryTyped
<1>3. cmd.b \in DedicatedIds
  <2>1. TftOf(ct, i) = tDedicatedBearer[ct][i]
        BY DEF TftOf
  <2> QED BY <1>1, <1>2, <2>1 DEF LInv, EntriesKnown
<1>4. \A x \in net \cup goal : x.pdn \in DefaultIds
      BY DEF LInv, NetSound
<1>5. ASSUME NEW x \in net \cup goal, x.id = cmd.b PROVE x.id # x.pdn
      BY <1>3, <1>4, <1>5, QosAgentAssumption
<1> QED BY <1>3, <1>5 DEF InForce

(* Qa_Delete_Filter is done: no filter the message names is left.          *)
LEMMA DeleteEndStep ==
  ASSUME LInv, Qa_Delete_Filter_end
  PROVE  LInv'
<1>u. PICK u : u = TftOf(cmd.ct, cmd.idx)
      OBVIOUS
<1>1. /\ cmd.op = "delete" /\ cmd.op # "none" /\ SlotsWith(u, cmd.pfids) = {}
      /\ Done /\ UNCHANGED tables /\ UNCHANGED list
      BY <1>u DEF Qa_Delete_Filter_end
<1>2. /\ Turn(u)
      /\ tDefaultBearer' \in [Pdns -> Tft]
      /\ tDedicatedBearer' \in [Pdns -> [0 .. (MAX_DEDICATED_BEARER_PER_PDN - 1) -> Tft]]
      BY <1>1, <1>u, SelfTurn
<1>3. HeapTyped /\ ListsSound' /\ CellsKept
  <2>1. Leaving = {} /\ Leaving' = {}
        BY <1>1 DEF Leaving, Done, NoCmd
  <2> QED BY <1>1, <2>1, SameLists
<1>4. PICK x \in net : /\ x.id = cmd.b /\ \A z \in net : z.id = cmd.b => z = x
                       /\ HasFilters(u, cell, Must(x), May(x))
  <2>1. Now = net
        BY <1>1 DEF Now
  <2> QED BY <1>1, <1>u, <2>1, OwnBearer
<1>5. cmd.idx # DEFAULT /\ InForce(x) = x.tft
      BY <1>1, <1>4, OwnDedicated DEF LInv, CmdSound
<1>6. PICK y \in goal : Carries(y, x) /\ y.tft = {f \in x.tft : f.pfid \notin cmd.pfids}
      BY <1>1, <1>4 DEF LInv, CmdSound
<1>7. \A z \in goal : z.id = cmd.b => z = y
      BY <1>4, <1>6 DEF LInv, NetSound, Carries
<1>8. InForce(y) = y.tft
      BY <1>1, <1>4, <1>5, <1>6, OwnDedicated DEF Carries
<1>9. Now' = goal /\ \A z : Must(z)' = InForce(z) /\ May(z)' = InForce(z)
      BY <1>1 DEF Now, Must, May, InForce, Done, NoCmd
<1>10. NowKept
  <2>1. Now = net
        BY <1>1 DEF Now
  <2>2. \A z \in net \cup goal : z.id # cmd.b => (z \in net <=> z \in goal)
        BY <1>1 DEF LInv, CmdSound
  <2> QED BY <1>4, <1>6, <1>7, <1>9, <2>1, <2>2 DEF NowKept, Carries
<1>11. OwnHeld(u)
  <2>1. Must(x) = y.tft /\ May(x) = x.tft
        BY <1>1, <1>4, <1>5, <1>6 DEF Must, May
  <2>2. HasFilters(u, cell, y.tft, y.tft)
    <3>1. ASSUME NEW j \in Held(u) PROVE \E f \in y.tft : Holds(cell, u.pf[j], f)
      <4>1. PICK f \in x.tft : Holds(cell, u.pf[j], f)
            BY <1>4, <2>1 DEF HasFilters
      <4>2. f.pfid \notin cmd.pfids
            BY <1>1, <4>1 DEF SlotsWith, Held, Holds
      <4> QED BY <1>6, <4>1, <4>2
    <3> QED BY <1>4, <2>1, <3>1 DEF HasFilters
  <2>3. cell' = cell
        BY <1>1 DEF list
  <2> QED BY <1>7, <1>8, <1>9, <2>2, <2>3 DEF OwnHeld
<1>12. OwnNum(u)
  <2>1. cmd.ct \in Pdns /\ cmd.idx \in Entries(cmd.ct)
        BY <1>1, OwnBearer
  <2>2. u.num = Cardinality(Held(u))
        BY <1>1, <1>u, <2>1 DEF LInv, EntriesSound
  <2> QED BY <2>2 DEF OwnNum
<1>13. OwnMatchAll(u)
      BY <1>5 DEF OwnMatchAll
<1>14. UNCHANGED <<u8MatchAll, u8PdnAddress>>
      BY <1>1 DEF tables
<1> QED BY <1>1, <1>2, <1>3, <1>10, <1>11, <1>12, <1>13, <1>14, DoneTurn

(* The end of a release: the entry is counted out.                         *)
LEMMA ReleaseEndStep ==
  ASSUME LInv, Qa_Bearer_Delete_end
  PROVE  LInv'
<1>c. PICK ct : ct = cmd.ct
      OBVIOUS
<1>i. PICK idx : idx = cmd.idx
      OBVIOUS
<1>b. PICK b : b = cmd.b
      OBVIOUS
<1> DEFINE B == 0 .. (MAX_DEDICATED_BEARER_PER_PDN - 1)
           num == u8NumDedicatedBearers
<1>1. /\ cmd.op = "release" /\ cmd.op # "none"
      /\ \A j \in Slots : TftOf(ct, idx).pf[j] = NULL
      /\ SetTft(ct, idx, EmptyTft)
      /\ num' = [num EXCEPT ![ct] = num[ct] - 1]
      /\ cmd' = NoCmd /\ cmd'.op = "none" /\ net' = goal /\ goal' = goal
      /\ u8MatchAll' = u8MatchAll /\ u8PdnAddress' = u8PdnAddress
      /\ UNCHANGED list
      BY <1>c, <1>i DEF Qa_Bearer_Delete_end, Entry, Done, NoCmd
<1>2. ct \in Pdns /\ idx \in Entries(ct) /\ TftOf(ct, idx).id = b /\ b # NoId
      BY <1>c, <1>i, <1>b, <1>1, OwnBearer
<1>3. idx # DEFAULT /\ idx = num[ct] - 1 /\ \A y \in goal : y.id # b
      BY <1>c, <1>i, <1>b, <1>1 DEF LInv, CmdSound
<1>4. /\ tDefaultBearer \in [Pdns -> Tft] /\ tDedicatedBearer \in [Pdns -> [B -> Tft]]
      /\ num \in [Pdns -> 0 .. MAX_DEDICATED_BEARER_PER_PDN]
      BY DEF LInv, Typed, TypeOK
<1>5. idx \in B /\ num[ct] \in Nat /\ num[ct] # 0
  <2>1. idx \in B
        BY <1>2, <1>3, EntryTyped
  <2>2. num[ct] \in Nat
        BY <1>2, <1>4, QosAgentAssumption
  <2> QED BY <1>3, <2>1, <2>2
<1>6. /\ tDefaultBearer' = tDefaultBearer
      /\ tDedicatedBearer' = [tDedicatedBearer EXCEPT ![ct][idx] = EmptyTft]
      BY <1>1, <1>3 DEF SetTft
<1>7. \A d \in Pdns : \A k \in B :
        tDedicatedBearer'[d][k] = IF d = ct /\ k = idx THEN EmptyTft
                                  ELSE tDedicatedBearer[d][k]
      BY <1>2, <1>4, <1>5, <1>6
<1>8. \A d \in Pdns : num'[d] = IF d = ct THEN num[ct] - 1 ELSE num[d]
      BY <1>1, <1>2, <1>4
<1>9. \A d \in Pdns : \A k : k \in Entries(d)' <=> k \in Entries(d) /\ ~ (d = ct /\ k = idx)
  <2>1. ASSUME NEW d \in Pdns, d # ct PROVE Entries(d)' = Entries(d)
        BY <1>8, <2>1 DEF Entries
  <2>2. Entries(ct)' = {DEFAULT} \cup (0 .. (num[ct] - 2))
        BY <1>2, <1>5, <1>8 DEF Entries
  <2>3. \A k : k \in Entries(ct)' <=> k \in Entries(ct) /\ k # idx
        BY <1>3, <1>5, <2>2 DEF Entries
  <2> QED BY <2>1, <2>3
<1>10. \A d \in Pdns : \A k \in Entries(d) : ~ (d = ct /\ k = idx) =>
         TftOf(d, k)' = TftOf(d, k)
  <2>1. \A d \in Pdns : \A k \in Entries(d) : k # DEFAULT => k \in B
        BY EntryTyped
  <2> QED BY <1>6, <1>7, <2>1 DEF TftOf
<1>11. \A d \in Pdns : \A k \in Entries(d) : TftOf(d, k).id = b => d = ct /\ k = idx
      BY <1>2, IdsApart
<1>12. Now = net /\ Now' = goal
      BY <1>1 DEF Now
<1>13. \A x : x \in goal <=> x \in net /\ x.id # b
  <2>1. \A x \in net \cup goal : x.id # cmd.b => (x \in net <=> x \in goal)
        BY <1>1 DEF LInv, CmdSound
  <2> QED BY <1>3, <1>b, <2>1
<1>14. EntriesKnown /\ EntriesSound
      BY DEF LInv
<1>15. EntriesKnown'
  <2>1. ASSUME NEW d \in Pdns
        PROVE  /\ tDefaultBearer'[d].id \in DefaultIds \cup {NoId}
               /\ tDefaultBearer'[d].id = NoId =>
                    tDefaultBearer'[d] = EmptyTft /\ num'[d] = 0
    <3>1. /\ tDefaultBearer[d].id \in DefaultIds \cup {NoId}
          /\ tDefaultBearer[d].id = NoId => tDefaultBearer[d] = EmptyTft /\ num[d] = 0
          BY <1>14 DEF EntriesKnown
    <3> QED BY <1>5, <1>6, <1>8, <3>1
  <2>2. ASSUME NEW d \in Pdns, NEW i \in B
        PROVE  IF i < num'[d] THEN tDedicatedBearer'[d][i].id \in DedicatedIds
               ELSE tDedicatedBearer'[d][i] = EmptyTft
    <3>1. IF i < num[d] THEN tDedicatedBearer[d][i].id \in DedicatedIds
          ELSE tDedicatedBearer[d][i] = EmptyTft
          BY <1>14 DEF EntriesKnown
    <3>2. CASE d # ct
          BY <1>7, <1>8, <3>1, <3>2
    <3>3. CASE d = ct
      <4>1. i \in Nat
            BY QosAgentAssumption
      <4>2. i < num[ct] - 1 <=> i < num[ct] /\ i # idx
            BY <1>3, <1>5, <4>1
      <4> QED BY <1>7, <1>8, <3>1, <3>3, <4>2
    <3> QED BY <3>2, <3>3
  <2>3. ASSUME NEW d \in Pdns, NEW i \in Entries(d)', TftOf(d, i)'.id # NoId
        PROVE  \E x \in goal : x.id = TftOf(d, i)'.id /\ x.pdn = tDefaultBearer'[d].id
    <3>1. i \in Entries(d) /\ ~ (d = ct /\ i = idx) /\ TftOf(d, i)' = TftOf(d, i)
          BY <1>9, <1>10
    <3>2. PICK x \in net : x.id = TftOf(d, i).id /\ x.pdn = tDefaultBearer[d].id
          BY <1>12, <1>14, <2>3, <3>1 DEF EntriesKnown
    <3>3. x \in goal
          BY <1>11, <1>13, <3>1, <3>2
    <3> QED BY <1>6, <3>1, <3>2, <3>3
  <2>4. ASSUME NEW x \in goal
        PROVE  \E d \in Pdns : \E i \in Entries(d)' :
                 tDefaultBearer'[d].id = x.pdn /\ TftOf(d, i)'.id = x.id
    <3>1. x \in net /\ x.id # b
          BY <1>13
    <3>2. PICK d \in Pdns : \E i \in Entries(d) :
                 tDefaultBearer[d].id = x.pdn /\ TftOf(d, i).id = x.id
          BY <1>12, <1>14, <3>1 DEF EntriesKnown
    <3>3. PICK i \in Entries(d) : tDefaultBearer[d].id = x.pdn /\ TftOf(d, i).id = x.id
          BY <3>2
    <3>4. ~ (d = ct /\ i = idx)
          BY <1>2, <3>1, <3>3
    <3> QED BY <1>6, <1>9, <1>10, <3>3, <3>4
  <2>5. ASSUME NEW c \in Pdns, NEW d \in Pdns, NEW i \in Entries(c)', NEW j \in Entries(d)',
               TftOf(c, i)'.id = TftOf(d, j)'.id, TftOf(c, i)'.id # NoId
        PROVE  c = d /\ i = j
    <3>1. i \in Entries(c) /\ j \in Entries(d) /\ TftOf(c, i).id = TftOf(d, j).id
          /\ TftOf(c, i).id # NoId
          BY <1>9, <1>10, <2>5
    <3> QED BY <3>1, IdsApart
  <2> QED BY <1>12, <2>1, <2>2, <2>3, <2>4, <2>5 DEF EntriesKnown
<1>16. \A x : (x.id # b => Must(x) = InForce(x) /\ May(x) = InForce(x))
              /\ Must(x)' = InForce(x) /\ May(x)' = InForce(x)
      BY <1>b, <1>1 DEF Must, May, InForce
<1>c2. cell' = cell
      BY <1>1 DEF list
<1>17. EntriesSound'
  <2>1. ASSUME NEW d \in Pdns, NEW i \in Entries(d)', NEW x \in goal, TftOf(d, i)'.id = x.id
        PROVE  HasFilters(TftOf(d, i)', cell', Must(x)', May(x)')
    <3>1. i \in Entries(d) /\ TftOf(d, i)' = TftOf(d, i) /\ x \in net /\ x.id # b
          BY <1>9, <1>10, <1>13
    <3>2. HasFilters(TftOf(d, i), cell, Must(x), May(x))
          BY <1>12, <1>14, <2>1, <3>1 DEF EntriesSound
    <3> QED BY <1>16, <1>c2, <3>1, <3>2
  <2>2. ASSUME NEW d \in Pdns, NEW x \in goal, tDefaultBearer'[d].id = x.id
        PROVE  /\ u8MatchAll'[d] <=> x.tft = {}
               /\ u8MatchAll'[d] => Held(tDefaultBearer'[d]) = {0}
    <3>1. x \in net
          BY <1>13
    <3> QED BY <1>1, <1>6, <1>12, <1>14, <2>2, <3>1 DEF EntriesSound
  <2>3. ASSUME NEW d \in Pdns, NEW i \in Entries(d)'
        PROVE  TftOf(d, i)'.num = Cardinality(Held(TftOf(d, i)'))
    <3>1. i \in Entries(d) /\ TftOf(d, i)' = TftOf(d, i) /\ TftOf(d, i).id # b
          BY <1>9, <1>10, <1>11
    <3>2. TftOf(d, i).num = Cardinality(Held(TftOf(d, i)))
          BY <1>b, <1>14, <3>1 DEF EntriesSound
    <3> QED BY <3>1, <3>2
  <2> QED BY <1>12, <2>1, <2>2, <2>3 DEF EntriesSound
<1>18. ListsSound'
  <2>1. ASSUME NEW d \in Pdns, NEW n PROVE n \in Recorded(d)' <=> n \in Recorded(d)
    <3>1. n \in Recorded(d) <=>
            \E i \in Entries(d) : \E j \in Held(TftOf(d, i)) : n = TftOf(d, i).pf[j]
          BY RecordedIs
    <3>2. n \in Recorded(d)' <=>
            \E i \in Entries(d)' : \E j \in Held(TftOf(d, i)') : n = TftOf(d, i)'.pf[j]
          BY RecordedWillBe
    <3>3. Held(TftOf(ct, idx)) = {}
          BY <1>1 DEF Held
    <3> QED BY <1>9, <1>10, <3>1, <3>2, <3>3
  <2>2. \A d \in Pdns : Recorded(d)' = Recorded(d)
        BY <2>1
  <2>3. Leaving = {} /\ Leaving' = {}
        BY <1>1 DEF Leaving
  <2> QED BY <1>1, <2>2, <2>3 DEF LInv, ListsSound, list
<1>19. Typed'
  <2>1. HeapTyped
        BY <1>1 DEF LInv, Typed, TypeOK, HeapTyped, list
  <2>2. EmptyTft \in Tft
        BY QosAgentAssumption DEF EmptyTft, Tft
  <2>3. tDedicatedBearer' \in [Pdns -> [B -> Tft]] /\ tDefaultBearer' \in [Pdns -> Tft]
        BY <1>4, <1>6, <2>2
  <2>4. num' \in [Pdns -> 0 .. MAX_DEDICATED_BEARER_PER_PDN]
    <3>1. num[ct] \in 0 .. MAX_DEDICATED_BEARER_PER_PDN
          BY <1>2, <1>4
    <3>2. num[ct] - 1 \in 0 .. MAX_DEDICATED_BEARER_PER_PDN
          BY <1>5, <3>1, QosAgentAssumption
    <3> QED BY <1>1, <1>4, <3>2
  <2>5. /\ u8MatchAll' \in [Pdns -> BOOLEAN] /\ u8PdnAddress' \in [Pdns -> Addrs \cup {NoAddr}]
        /\ cmd'.op \in {"none", "matchall", "add", "replace", "sort", "delete", "release"}
        BY <1>1 DEF LInv, Typed, TypeOK
  <2> QED BY <2>1, <2>3, <2>4, <2>5, TypedAfter
<1>20. CmdSound'
      BY <1>1 DEF CmdSound, FilterOps
<1>21. NetSound(net') /\ NetSound(goal')
      BY <1>1 DEF LInv
<1> QED BY <1>15, <1>17, <1>18, <1>19, <1>20, <1>21 DEF LInv

----------------------------------------------------------------------------
(* Filters are added. A new node is linked at its place; a free slot is    *)
(* found because the bearer's identifiers are different and fit a TFT.     *)

(* A node that is in no list and can be put into one; the list with it.    *)
Unlisted(m, L, n) ==
  /\ m \in Memory /\ L \subseteq m.used /\ Linked(m.head, m.cell, L)
  /\ n \in m.used /\ n \notin L /\ \A y \in L : m.cell[y].prec # m.cell[n].prec

(* The node is in the list at its place, and nothing else has changed.     *)
Listed(r, m, L, n) ==
  /\ r \in Memory /\ r.used = m.used /\ r.ok = m.ok
  /\ Linked(r.head, r.cell, L \cup {n})
  /\ SameFilters(r.cell, m.cell)
  /\ \A y \in Nodes \ (L \cup {n}) :
       r.cell[y].next = m.cell[y].next /\ r.cell[y].prev = m.cell[y].prev

(* InsertSorted does that.                                                 *)
LEMMA InsertLists ==
  ASSUME NEW m, NEW L, NEW n, Unlisted(m, L, n), NEW prec, prec = m.cell[n].prec
  PROVE  Listed(InsertSorted(m, n, prec), m, L, n)
<1>1. /\ m \in Memory /\ L \subseteq m.used /\ Linked(m.head, m.cell, L)
      /\ n \in m.used \ L
      /\ \A y \in L : m.cell[y].prec # m.cell[n].prec
      BY DEF Unlisted
<1>2. LET r == InsertSorted(m, n, m.cell[n].prec)
         IN  /\ r \in Memory /\ r.used = m.used /\ r.ok = m.ok
             /\ Linked(r.head, r.cell, L \cup {n})
             /\ SameFilters(r.cell, m.cell)
             /\ \A y \in Nodes \ (L \cup {n}) :
                  r.cell[y].next = m.cell[y].next /\ r.cell[y].prev = m.cell[y].prev
      BY <1>1, InsertFacts
<1> QED BY <1>2 DEF Listed

(* The same for a new node n with contents w.                              *)
Insertable(m, L, n, w) ==
  /\ m \in Memory /\ L \subseteq m.used /\ Linked(m.head, m.cell, L)
  /\ n \in Nodes \ m.used /\ w \in Cell /\ \A y \in L : m.cell[y].prec # w.prec

(* It has been put there; the filters of the other cells are as before.    *)
Inserted(r, m, L, n, w) ==
  /\ r \in Memory /\ r.used = m.used \cup {n} /\ r.ok = m.ok
  /\ Linked(r.head, r.cell, L \cup {n})
  /\ SameFilter(w, r.cell[n])
  /\ \A y \in Nodes \ {n} : SameFilter(m.cell[y], r.cell[y])
  /\ \A y \in Nodes \ (L \cup {n}) : r.cell[y] = m.cell[y]

(* A new node w is put into its list.                                      *)
LEMMA InsertedFacts ==
  ASSUME NEW m, NEW L, NEW n, NEW w, Insertable(m, L, n, w)
  PROVE  Inserted(InsertSorted([m EXCEPT !.used = m.used \cup {n}, !.cell[n] = w], n, w.prec),
                  m, L, n, w)
<1>0. /\ m \in Memory /\ L \subseteq m.used /\ Linked(m.head, m.cell, L)
      /\ n \in Nodes \ m.used /\ w \in Cell /\ \A y \in L : m.cell[y].prec # w.prec
      BY DEF Insertable
<1> DEFINE c == [m.cell EXCEPT ![n] = w]
           p == [m EXCEPT !.used = m.used \cup {n}, !.cell[n] = w]
           r == InsertSorted(p, n, w.prec)
<1>1. /\ c \in [Nodes -> Cell] /\ c[n] = w /\ \A y \in Nodes \ {n} : c[y] = m.cell[y]
      /\ m.used \subseteq Nodes /\ L \subseteq Nodes \ {n} /\ m.cell \in [Nodes -> Cell]
      BY <1>0 DEF Memory
<1>2. p = [m EXCEPT !.used = m.used \cup {n}, !.cell = c]
      BY <1>0 DEF Memory
<1> HIDE DEF c
<1>3. /\ p \in Memory /\ p.used = m.used \cup {n} /\ p.ok = m.ok /\ p.head = m.head
      /\ p.cell = c
      BY <1>0, <1>1, <1>2 DEF Memory
<1> HIDE DEF p
<1>4. Linked(p.head, p.cell, L)
      BY <1>0, <1>1, <1>3, LinkedFrame
<1>5. L \subseteq p.used /\ n \in p.used \ L /\ p.cell[n].prec = w.prec
      /\ \A y \in L : p.cell[y].prec # p.cell[n].prec
      BY <1>0, <1>1, <1>3
<1>6. Listed(r, p, L, n)
  <2>1. Unlisted(p, L, n)
        BY <1>3, <1>4, <1>5 DEF Unlisted
  <2> QED BY <1>5, <2>1, InsertLists
<1> HIDE DEF r
<1>7. SameFilter(w, r.cell[n]) /\ \A y \in Nodes \ {n} : SameFilter(m.cell[y], r.cell[y])
      BY <1>0, <1>1, <1>3, <1>6 DEF Listed, SameFilters, SameFilter
<1>8. ASSUME NEW y \in Nodes \ (L \cup {n}) PROVE r.cell[y] = m.cell[y]
  <2>1. r.cell[y] \in Cell /\ m.cell[y] \in Cell /\ p.cell[y] = m.cell[y]
        BY <1>1, <1>3, <1>6 DEF Memory, Listed
  <2> QED BY <1>6, <2>1 DEF Listed, Cell, SameFilters
<1> QED BY <1>0, <1>3, <1>6, <1>7, <1>8 DEF Inserted, Listed, r, p

(* A bearer without a filter v has room for it.                            *)
LEMMA RoomFor ==
  ASSUME NEW g \in [Slots -> 1 .. MAX_FILTERS_PER_TFT], NEW v \in 1 .. MAX_FILTERS_PER_TFT,
         \A j \in Slots : g[j] # v
  PROVE  \E j, k \in Slots : j # k /\ g[j] = g[k]
<1> DEFINE N == MAX_FILTERS_PER_TFT
           T == 1 .. N
<1>1. N \in Nat /\ 1 \in Int /\ N \in Int /\ 0 \in Int /\ N - 1 \in Int
      BY QosAgentAssumption
<1>2. IsFiniteSet(Slots) /\ Cardinality(Slots) = N
  <2>1. 0 <= N - 1 /\ (N - 1) - 0 + 1 = N
        BY QosAgentAssumption
  <2> QED BY <1>1, <2>1, FS_Interval DEF Slots
<1>3. IsFiniteSet(T) /\ Cardinality(T) = N
  <2>1. 1 <= N /\ N - 1 + 1 = N
        BY QosAgentAssumption
  <2> QED BY <1>1, <2>1, FS_Interval
<1> HIDE DEF T, N
<1>4. IsFiniteSet(T \ {v}) /\ Cardinality(T \ {v}) = N - 1
  <2>1. v \in T
        BY DEF T, N
  <2> QED BY <1>3, <2>1, FS_RemoveElement
<1>5. Cardinality(T \ {v}) < Cardinality(Slots)
      BY <1>1, <1>2, <1>4
<1>6. g \in [Slots -> T \ {v}]
      BY DEF T, N
<1> QED BY <1>2, <1>4, <1>5, <1>6, FS_PigeonHole

(* What a handler writes when it adds a filter.                            *)
Added(t, u, j, n) ==
  t \in Tft /\ t.id = u.id /\ t.pf = [u.pf EXCEPT ![j] = n]

(* A node n of bearer cmd.b is linked into its list and put into slot j.   *)
AddsNode(ct, idx, j, n, w, t) ==
  /\ j \in Slots \ Held(TftOf(ct, idx))
  /\ n \in Nodes \ used /\ w \in Cell /\ w.eps = cmd.b
  /\ \A y \in Recorded(ct) : cell[y].prec # w.prec
  /\ Added(t, TftOf(ct, idx), j, n)
  /\ Commit(ct, InsertSorted([Mem(ct) EXCEPT !.used = Mem(ct).used \cup {n},
                                !.cell[n] = w], n, w.prec))
  /\ SetTft(ct, idx, t)

(* Such a turn keeps the lists sound.                                      *)
LEMMA AddTurn ==
  ASSUME LInv, cmd.op = "add", NEW ct, ct = cmd.ct, NEW idx, idx = cmd.idx,
         NEW j, NEW n, NEW w, NEW t, AddsNode(ct, idx, j, n, w, t),
         u8NumDedicatedBearers' = u8NumDedicatedBearers, cmd'.op # "sort"
  PROVE  /\ Turn(t)
         /\ tDefaultBearer' \in [Pdns -> Tft]
         /\ tDedicatedBearer' \in
              [Pdns -> [0 .. (MAX_DEDICATED_BEARER_PER_PDN - 1) -> Tft]]
         /\ HeapTyped
         /\ ListsSound'
         /\ CellsKept
         /\ Held(t) = Held(TftOf(ct, idx)) \cup {j}
         /\ t.pf[j] = n /\ SameFilter(w, cell'[n])
         /\ \A k \in Held(TftOf(ct, idx)) :
              /\ t.pf[k] = TftOf(ct, idx).pf[k]
              /\ SameFilter(cell[t.pf[k]], cell'[t.pf[k]])
         /\ Cardinality(Held(t)) = Cardinality(Held(TftOf(ct, idx))) + 1
<1> DEFINE u == TftOf(ct, idx)
           m == Mem(ct)
           r == InsertSorted([m EXCEPT !.used = m.used \cup {n}, !.cell[n] = w], n, w.prec)
           L == Recorded(ct)
<1>0. t \in Tft /\ t.id = u.id /\ t.pf = [u.pf EXCEPT ![j] = n]
      BY DEF Added, AddsNode
<1> j \in Slots /\ j \notin Held(u) /\ n \in Nodes /\ n \notin used /\ w \in Cell
    /\ w.eps = cmd.b
    BY DEF AddsNode
<1>s. SetTft(ct, idx, t) /\ \A y \in Recorded(ct) : cell[y].prec # w.prec
      BY DEF AddsNode
<1>1. ct \in Pdns /\ idx \in Entries(ct) /\ u.id = cmd.b /\ cmd.op # "none"
      BY DEF LInv, CmdSound
<1>3. Recorded(ct) \ Leaving = L
      BY DEF Leaving
<1>4. /\ m \in Memory /\ m.used = used /\ m.cell = cell /\ m.ok = TRUE
      /\ m.head = tClassifierTable[ct] /\ L \subseteq used
      /\ Linked(m.head, m.cell, L)
      /\ used \subseteq Nodes /\ NULL \notin Nodes
  <2>1. /\ m \in Memory /\ m.used = used /\ m.cell = cell /\ m.ok = TRUE
        /\ m.head = tClassifierTable[ct] /\ Recorded(ct) \subseteq used
        /\ Linked(m.head, m.cell, Recorded(ct) \ Leaving)
        /\ used \subseteq Nodes /\ NULL \notin Nodes
        BY <1>1, MemFacts
  <2> QED BY <1>3, <2>1
<1>6. Commit(ct, r)
      BY DEF AddsNode
<1> HIDE DEF m, L
<1>5. /\ r \in Memory /\ r.used = m.used \cup {n} /\ r.ok = m.ok
      /\ Linked(r.head, r.cell, L \cup {n})
      /\ SameFilter(w, r.cell[n])
      /\ \A y \in Nodes \ {n} : SameFilter(m.cell[y], r.cell[y])
      /\ \A y \in Nodes \ (L \cup {n}) : r.cell[y] = m.cell[y]
  <2>1. L \subseteq m.used /\ n \in Nodes \ m.used /\ \A y \in L : m.cell[y].prec # w.prec
        BY <1>s, <1>4 DEF L
  <2>2. Insertable(m, L, n, w)
        BY <1>4, <2>1 DEF Insertable
  <2>3. Inserted(r, m, L, n, w)
        BY <2>2, InsertedFacts
  <2> QED BY <2>3 DEF Inserted
<1> HIDE DEF r
<1>7. /\ Turn(t)
      /\ tDefaultBearer' \in [Pdns -> Tft]
      /\ tDedicatedBearer' \in
           [Pdns -> [0 .. (MAX_DEDICATED_BEARER_PER_PDN - 1) -> Tft]]
      BY <1>0, <1>1, <1>s, SetTftTurn
<1>8. \A y \in Nodes \ r.used : r.cell[y] = FreeCell
  <2>1. \A y \in Nodes \ used : cell[y] = FreeCell
        BY DEF LInv, Typed, TypeOK
  <2>2. \A y \in Nodes \ r.used : r.cell[y] = cell[y]
        BY <1>4, <1>5
  <2> QED BY <1>4, <1>5, <2>1, <2>2
<1>9. /\ HeapTyped
      /\ used' = r.used /\ cell' = r.cell /\ tClassifierTable'[ct] = r.head
      /\ \A d \in Pdns : d # ct => tClassifierTable'[d] = tClassifierTable[d]
      BY <1>1, <1>4, <1>5, <1>6, <1>8, CommitTyped
<1>10. u.pf \in [Slots -> Nodes \cup {NULL}]
  <2>1. u \in Tft
        BY <1>1, EntryTyped
  <2> QED BY <2>1 DEF Tft
<1>11. Held(t) = Held(u) \cup {j} /\ t.pf[j] = n /\ \A k \in Held(u) : t.pf[k] = u.pf[k]
      BY <1>0, <1>4, <1>10 DEF Held
<1>12. Cardinality(Held(t)) = Cardinality(Held(u)) + 1
  <2>1. IsFiniteSet(Held(u)) /\ j \notin Held(u)
        BY HeldFinite
  <2> QED BY <1>11, <2>1, FS_AddElement
<1>13. ASSUME NEW k \in Held(u)
       PROVE  u.pf[k] # n /\ u.pf[k] \in used /\ cell[u.pf[k]].eps = cmd.b /\ u.pf[k] \in L
      BY <1>1, Owned DEF L
<1>14. \A y \in used : SameFilter(cell[y], cell'[y])
      BY <1>4, <1>5, <1>9
<1>r. /\ \A d \in Pdns \ {ct} : \A y \in Recorded(d) : cell[y].eps # cmd.b
      /\ \A y : y \in Recorded(ct)' <=> \/ y \in Recorded(ct) /\ cell[y].eps # cmd.b
                                        \/ \E k \in Held(t) : y = t.pf[k]
  <2>1. \A v : Turn(v) =>
          /\ \A d \in Pdns \ {ct} : \A y \in Recorded(d) : cell[y].eps # cmd.b
          /\ \A y : y \in Recorded(ct)' <=> \/ y \in Recorded(ct) /\ cell[y].eps # cmd.b
                                            \/ \E k \in Held(v) : y = v.pf[k]
        BY <1>1, TurnRecords
  <2> QED BY <1>7, <2>1, Zenon
<1>15. \A y : y \in used' <=> \/ y \in used /\ cell[y].eps # cmd.b
                              \/ \E k \in Held(t) : y = t.pf[k]
  <2>1. ASSUME NEW y \in used, cell[y].eps = cmd.b
        PROVE  \E k \in Held(t) : y = t.pf[k]
    <3>1. PICK d \in Pdns : y \in Recorded(d)
          BY DEF LInv, ListsSound
    <3>2. d = ct
          BY <1>r, <2>1, <3>1
    <3>3. PICK k \in Held(u) : y = u.pf[k]
          BY <1>1, <2>1, <3>1, <3>2, RecordsApart
    <3> QED BY <1>11, <3>3
  <2>2. used' = used \cup {n}
        BY <1>4, <1>5, <1>9
  <2>3. ASSUME NEW k \in Held(t) PROVE t.pf[k] \in used \cup {n}
        BY <1>11, <1>13
  <2>4. n = t.pf[j] /\ j \in Held(t)
        BY <1>11
  <2> QED BY <2>1, <2>2, <2>3, <2>4
<1>16. \A y : y \in Recorded(ct)' <=> y \in L \cup {n}
  <2>2. ASSUME NEW y \in L, cell[y].eps = cmd.b
        PROVE  \E k \in Held(t) : y = t.pf[k]
    <3>1. PICK k \in Held(u) : y = u.pf[k]
          BY <1>1, <2>2, RecordsApart DEF L
    <3> QED BY <1>11, <3>1
  <2>3. ASSUME NEW k \in Held(t) PROVE t.pf[k] \in L \cup {n}
        BY <1>11, <1>13
  <2>4. n = t.pf[j] /\ j \in Held(t)
        BY <1>11
  <2> QED BY <1>r, <2>2, <2>3, <2>4 DEF L
<1>17. Leaving' = {}
      BY DEF Leaving
<1>18. Linked(tClassifierTable'[ct], cell', Recorded(ct)' \ Leaving')
  <2>1. Recorded(ct)' \ Leaving' = L \cup {n}
        BY <1>16, <1>17
  <2> QED BY <1>5, <1>9, <2>1
<1>19. ListsSound'
  <2>1. \A y \in used : y \notin Recorded(ct) => cell'[y] = cell[y]
        BY <1>4, <1>5, <1>9 DEF L
  <2>2. \A y \in Leaving' : cell[y].eps = cmd.b \/ y \notin used
        BY <1>17
  <2>3. \A d \in Pdns : d # ct => tClassifierTable'[d] = tClassifierTable[d]
        BY <1>9
  <2>4. \A v : Turn(v) /\ (\A y : y \in used' <=> \/ y \in used /\ cell[y].eps # cmd.b
                                                  \/ \E k \in Held(v) : y = v.pf[k])
              => ListsSound'
        BY <1>1, <1>18, <2>1, <2>2, <2>3, ListsKept
  <2> QED BY <1>7, <1>15, <2>4, Zenon
<1>20. CellsKept
      BY <1>14 DEF CellsKept
<1>21. \A k \in Held(u) : t.pf[k] = u.pf[k] /\ SameFilter(cell[t.pf[k]], cell'[t.pf[k]])
      BY <1>11, <1>13, <1>14
<1>22. SameFilter(w, cell'[n])
      BY <1>5, <1>9
<1> QED BY <1>7, <1>9, <1>11, <1>12, <1>19, <1>20, <1>21, <1>22

(* No bearer can have more filters than a TFT has slots: the code takes 4  *)
(* bits of a filter for its identifier (Qa_BearerMod_Process_Filter), and  *)
(* MAX_FILTERS_PER_TFT is 16.                                              *)
PfidsFit == \A f \in Filters : f.pfid \in 1 .. MAX_FILTERS_PER_TFT

(* The filters of a handler's bearer while it adds some.                   *)
LEMMA AddingBearer ==
  ASSUME LInv, cmd.op = "add"
  PROVE  \E y \in goal :
           /\ y.id = cmd.b /\ y.pdn = tDefaultBearer[cmd.ct].id
           /\ \A z \in goal : z.id = cmd.b => z = y
           /\ y.tft \subseteq Filters /\ InForce(y) = y.tft /\ y.tft # {}
           /\ ToSet(cmd.fs) \subseteq y.tft
           /\ HasFilters(TftOf(cmd.ct, cmd.idx), cell,
                         y.tft \ ToSet(cmd.fs), y.tft \ ToSet(cmd.fs))
<1>1. Now = goal /\ cmd.op # "none"
      BY DEF Now
<1>2. PICK y \in goal :
        /\ y.id = cmd.b /\ y.pdn = tDefaultBearer[cmd.ct].id
        /\ \A z \in goal : z.id = cmd.b => z = y
        /\ HasFilters(TftOf(cmd.ct, cmd.idx), cell, Must(y), May(y))
      BY <1>1, OwnBearer
<1>3. cmd.fs \in Seq(Filters) /\ cmd.fs # << >> /\ ToSet(cmd.fs) \subseteq y.tft
      BY <1>2 DEF LInv, CmdSound, FilterOps
<1>4. y.tft # {}
  <2>1. 1 \in DOMAIN cmd.fs
        BY <1>3
  <2> QED BY <1>3, <2>1 DEF ToSet
<1>5. InForce(y) = y.tft
      BY <1>4 DEF InForce
<1>6. May(y) = y.tft \ ToSet(cmd.fs) /\ Must(y) = May(y)
      BY <1>2, <1>5 DEF Must, May
<1>7. y.tft \subseteq Filters
      BY DEF LInv, NetSound
<1> QED BY <1>2, <1>3, <1>4, <1>5, <1>6, <1>7

(* No filter of the PDN has the precedence of one that is to be added, and *)
(* its bearer has a free slot.                                             *)
LEMMA AddRoom ==
  ASSUME LInv, PfidsFit, cmd.op = "add", NEW f \in ToSet(cmd.fs), NEW ct, ct = cmd.ct,
         NEW idx, idx = cmd.idx
  PROVE  /\ \A n \in Recorded(ct) : cell[n].prec # f.prec
         /\ \E j \in Slots : TftOf(ct, idx).pf[j] = NULL
         /\ \A j \in Held(TftOf(ct, idx)) : cell[TftOf(ct, idx).pf[j]].pfid # f.pfid
<1>u. PICK u : u = TftOf(ct, idx)
      OBVIOUS
<1>1. PICK y \in goal :
        /\ y.id = cmd.b /\ y.pdn = tDefaultBearer[ct].id
        /\ \A z \in goal : z.id = cmd.b => z = y
        /\ y.tft \subseteq Filters /\ InForce(y) = y.tft
        /\ ToSet(cmd.fs) \subseteq y.tft
        /\ HasFilters(u, cell, y.tft \ ToSet(cmd.fs), y.tft \ ToSet(cmd.fs))
      BY <1>u, AddingBearer
<1>2. NetSound(goal) /\ Now = goal /\ ct \in Pdns
      BY DEF LInv, Now, CmdSound
<1>3. ASSUME NEW n \in Recorded(ct) PROVE cell[n].prec # f.prec
  <2>1. PICK i \in Entries(ct) : \E j \in Held(TftOf(ct, i)) : n = TftOf(ct, i).pf[j]
        BY RecordedIs
  <2>2. PICK x \in goal : /\ x.pdn = tDefaultBearer[ct].id
                          /\ \E g \in May(x) : Holds(cell, n, g)
        BY <1>2, <2>1, Owned
  <2>3. PICK g \in May(x) : Holds(cell, n, g)
        BY <2>2
  <2>4. g \in InForce(x) /\ (x = y => g \notin ToSet(cmd.fs))
        BY <1>1 DEF May
  <2>5. f \in InForce(y)
        BY <1>1
  <2>6. g.prec = f.prec => x = y /\ g = f
        BY <1>1, <1>2, <2>2, <2>4, <2>5 DEF NetSound
  <2> QED BY <2>3, <2>4, <2>6 DEF Holds
<1>4. ASSUME NEW j \in Held(u)
      PROVE  /\ cell[u.pf[j]].pfid # f.pfid
             /\ cell[u.pf[j]].pfid \in 1 .. MAX_FILTERS_PER_TFT
  <2>1. PICK g \in y.tft \ ToSet(cmd.fs) : Holds(cell, u.pf[j], g)
        BY <1>1 DEF HasFilters
  <2>2. g # f /\ f \in y.tft
        BY <1>1
  <2>3. g.pfid # f.pfid
        BY <1>2, <2>1, <2>2 DEF NetSound
  <2> QED BY <1>1, <2>1, <2>3 DEF Holds, PfidsFit
<1>5. ASSUME \A j \in Slots : u.pf[j] # NULL PROVE FALSE
  <2> DEFINE g == [j \in Slots |-> cell[u.pf[j]].pfid]
  <2>1. Held(u) = Slots
        BY <1>5 DEF Held
  <2>2. g \in [Slots -> 1 .. MAX_FILTERS_PER_TFT] /\ \A j \in Slots : g[j] # f.pfid
        BY <1>4, <2>1
  <2>3. f.pfid \in 1 .. MAX_FILTERS_PER_TFT
        BY <1>1 DEF PfidsFit
  <2>4. \A j, k \in Slots : g[j] = g[k] => j = k
        BY <1>1, <2>1 DEF HasFilters
  <2> HIDE DEF g
  <2> QED BY <2>2, <2>3, <2>4, RoomFor
<1> QED BY <1>u, <1>3, <1>4, <1>5

(* What an entry holds when a filter f is put into its slot j.             *)
Gains(u, t, c, d, j, n, f) ==
  /\ t.id = u.id /\ Held(t) = Held(u) \cup {j} /\ t.pf[j] = n /\ j \notin Held(u)
  /\ \A k \in Held(u) : t.pf[k] = u.pf[k] /\ SameFilter(c[t.pf[k]], d[t.pf[k]])
  /\ \A k \in Held(u) : c[u.pf[k]].pfid # f.pfid
  /\ Holds(d, n, f) /\ d[n].eps = t.id

(* The entry then has the one filter more.                                 *)
LEMMA AddHolds ==
  ASSUME NEW u, NEW t, NEW c, NEW d, NEW S, NEW f, NEW j, NEW n,
         HasFilters(u, c, S, S), Gains(u, t, c, d, j, n, f)
  PROVE  HasFilters(t, d, S \cup {f}, S \cup {f})
<1>0. /\ t.id = u.id /\ Held(t) = Held(u) \cup {j} /\ t.pf[j] = n /\ j \notin Held(u)
      /\ \A k \in Held(u) : c[u.pf[k]].pfid # f.pfid
      /\ Holds(d, n, f) /\ d[n].eps = t.id
      BY DEF Gains
<1>1. \A k \in Held(u) : SameFilter(c[u.pf[k]], d[u.pf[k]]) /\ t.pf[k] = u.pf[k]
      BY DEF Gains
<1>2. HasFilters(u, d, S, S)
      BY <1>1, FiltersFrame DEF SameFilter
<1>3. \A k \in Held(u) : d[t.pf[k]].pfid # f.pfid
      BY <1>0, <1>1 DEF SameFilter
<1>4. \A k \in Held(t) : d[t.pf[k]].eps = t.id /\ \E g \in S \cup {f} : Holds(d, t.pf[k], g)
      BY <1>0, <1>1, <1>2 DEF HasFilters
<1>5. \A g \in S \cup {f} : \E k \in Held(t) : Holds(d, t.pf[k], g)
  <2>1. ASSUME NEW g \in S PROVE \E k \in Held(t) : Holds(d, t.pf[k], g)
        BY <1>0, <1>1, <1>2 DEF HasFilters
  <2> QED BY <1>0, <2>1
<1>6. \A k, l \in Held(t) : d[t.pf[k]].pfid = d[t.pf[l]].pfid => k = l
  <2>1. d[t.pf[j]].pfid = f.pfid
        BY <1>0 DEF Holds
  <2> QED BY <1>0, <1>1, <1>2, <1>3, <2>1 DEF HasFilters
<1> QED BY <1>4, <1>5, <1>6 DEF HasFilters

(* What is left to add when the first filter has been.                     *)
LEMMA TailFacts ==
  ASSUME NEW S, NEW s \in Seq(S), s # << >>, Len(s) # 1,
         \A i, j \in DOMAIN s : i # j => s[i].pfid # s[j].pfid
  PROVE  /\ Tail(s) \in Seq(S) /\ Tail(s) # << >>
         /\ \A i, j \in DOMAIN Tail(s) : i # j => Tail(s)[i].pfid # Tail(s)[j].pfid
         /\ ToSet(Tail(s)) = ToSet(s) \ {Head(s)}
<1>1. /\ Len(s) \in Nat /\ Len(s) > 1 /\ DOMAIN s = 1 .. Len(s)
      /\ Tail(s) \in Seq(S) /\ Len(Tail(s)) = Len(s) - 1
      /\ DOMAIN Tail(s) = 1 .. (Len(s) - 1)
      /\ \A i \in 1 .. (Len(s) - 1) : Tail(s)[i] = s[i + 1]
      /\ Head(s) = s[1]
  <2>1. Len(s) \in Nat /\ Len(s) > 1 /\ DOMAIN s = 1 .. Len(s) /\ Head(s) = s[1]
    <3>1. Len(s) \in Nat /\ DOMAIN s = 1 .. Len(s) /\ Head(s) = s[1]
          OBVIOUS
    <3>2. Len(s) # 0
          OBVIOUS
    <3> QED BY <3>1, <3>2
  <2>2. Tail(s) \in Seq(S) /\ Len(Tail(s)) = Len(s) - 1
        OBVIOUS
  <2>3. DOMAIN Tail(s) = 1 .. (Len(s) - 1)
        BY <2>1, <2>2
  <2>4. \A i \in 1 .. (Len(s) - 1) : Tail(s)[i] = s[i + 1]
        BY <2>1
  <2> QED BY <2>1, <2>2, <2>3, <2>4
<1>2. Tail(s) # << >>
      BY <1>1
<1>3. \A i \in 1 .. (Len(s) - 1) : i + 1 \in DOMAIN s /\ i + 1 # 1
      BY <1>1
<1>4. ASSUME NEW i \in DOMAIN Tail(s), NEW j \in DOMAIN Tail(s), i # j
      PROVE  Tail(s)[i].pfid # Tail(s)[j].pfid
  <2>1. i + 1 # j + 1 /\ i + 1 \in DOMAIN s /\ j + 1 \in DOMAIN s
        BY <1>1, <1>3, <1>4
  <2> QED BY <1>1, <2>1
<1>5. ASSUME NEW i \in DOMAIN Tail(s)
      PROVE  Tail(s)[i] \in ToSet(s) \ {Head(s)}
  <2>1. i + 1 \in DOMAIN s /\ i + 1 # 1 /\ 1 \in DOMAIN s
        BY <1>1, <1>3
  <2>2. s[i + 1] # s[1]
        BY <2>1
  <2> QED BY <1>1, <2>1, <2>2 DEF ToSet
<1>6. ASSUME NEW k \in DOMAIN s, s[k] # Head(s)
      PROVE  s[k] \in ToSet(Tail(s))
  <2>1. k # 1 /\ k - 1 \in 1 .. (Len(s) - 1) /\ (k - 1) + 1 = k
        BY <1>1, <1>6
  <2>2. Tail(s)[k - 1] = s[k]
        BY <1>1, <2>1
  <2> QED BY <1>1, <2>1, <2>2 DEF ToSet
<1>7. ToSet(Tail(s)) = ToSet(s) \ {Head(s)}
      BY <1>5, <1>6 DEF ToSet
<1> QED BY <1>1, <1>2, <1>4, <1>7

(* One turn of Qa_Add_SortTFT: the filter finds a free slot and a          *)
(* precedence no other filter of the PDN has.                              *)
LEMMA AddStep ==
  ASSUME LInv, IInv, PfidsFit, Qa_Add_SortTFT
  PROVE  LInv'
<1>c. PICK ct : ct = cmd.ct
      OBVIOUS
<1>i. PICK idx : idx = cmd.idx
      OBVIOUS
<1>u. PICK u : u = TftOf(ct, idx)
      OBVIOUS
<1>f. PICK fs : fs = cmd.fs
      OBVIOUS
<1>h. PICK f : f = Head(fs)
      OBVIOUS
<1>j. PICK j : j = Min({k \in Slots : u.pf[k] = NULL})
      OBVIOUS
<1>1. /\ cmd.op = "add" /\ cmd.op # "none"
      /\ cmd.fs \in Seq(Filters) /\ cmd.fs # << >>
      /\ \A k, l \in DOMAIN cmd.fs : k # l => cmd.fs[k].pfid # cmd.fs[l].pfid
      BY DEF Qa_Add_SortTFT, LInv, CmdSound, FilterOps
<1>2. f \in ToSet(cmd.fs) /\ f \in Filters
  <2>1. 1 \in DOMAIN cmd.fs /\ f = cmd.fs[1] /\ cmd.fs[1] \in Filters
        BY <1>f, <1>h, <1>1
  <2> QED BY <2>1 DEF ToSet
<1>3. /\ \A z \in Recorded(ct) : cell[z].prec # f.prec
      /\ \E k \in Slots : u.pf[k] = NULL
      /\ \A k \in Held(u) : cell[u.pf[k]].pfid # f.pfid
      BY <1>c, <1>i, <1>u, <1>1, <1>2, AddRoom
<1>4. j \in Slots \ Held(u) /\ {k \in Slots : u.pf[k] = NULL} # {}
  <2>1. {k \in Slots : u.pf[k] = NULL} \subseteq Nat /\ {k \in Slots : u.pf[k] = NULL} # {}
        BY <1>3, QosAgentAssumption DEF Slots
  <2> QED BY <1>j, <2>1, FirstOf DEF Held
<1>5. ct \in Pdns /\ idx \in Entries(ct) /\ u.id = cmd.b /\ u \in Tft
      BY <1>c, <1>i, <1>u, <1>1, OwnBearer, EntryTyped
<1>n. u.num = Cardinality(Held(u)) /\ u.num + 1 \in 0 .. MAX_FILTERS_PER_TFT
  <2>1. u.num = Cardinality(Held(u))
        BY <1>u, <1>1, <1>5 DEF LInv, EntriesSound
  <2>2. Held(u) \cup {j} \subseteq Slots /\ j \notin Held(u)
        BY <1>4 DEF Held
  <2>3. IsFiniteSet(Slots) /\ Cardinality(Slots) = MAX_FILTERS_PER_TFT
    <3>1. 0 \in Int /\ MAX_FILTERS_PER_TFT - 1 \in Int /\ 0 <= MAX_FILTERS_PER_TFT - 1
          /\ (MAX_FILTERS_PER_TFT - 1) - 0 + 1 = MAX_FILTERS_PER_TFT
          BY QosAgentAssumption
    <3> QED BY <3>1, FS_Interval DEF Slots
  <2>4. Cardinality(Held(u) \cup {j}) = Cardinality(Held(u)) + 1
        BY <2>2, HeldFinite, FS_AddElement
  <2>5. Cardinality(Held(u) \cup {j}) <= MAX_FILTERS_PER_TFT
        BY <2>2, <2>3, FS_Subset
  <2>6. Cardinality(Held(u)) \in Nat
        BY HeldFinite
  <2> QED BY <2>1, <2>4, <2>5, <2>6, QosAgentAssumption
<1>w. PICK w : w = [FreeCell EXCEPT !.pfid = f.pfid, !.prec = f.prec,
                      !.dir = f.dir, !.flow = f.flow, !.eps = cmd.b]
      OBVIOUS
<1>6. PICK n \in Nodes \ used :
        /\ Commit(ct, InsertSorted([Mem(ct) EXCEPT !.used = Mem(ct).used \cup {n},
                                      !.cell[n] = w], n, f.prec))
        /\ SetTft(ct, idx, [u EXCEPT !.pf[j] = n, !.num = u.num + 1])
      BY <1>c, <1>i, <1>u, <1>f, <1>h, <1>j, <1>4, <1>w DEF Qa_Add_SortTFT
<1>7. /\ IF Len(cmd.fs) = 1 THEN Done
         ELSE cmd' = [cmd EXCEPT !.fs = Tail(cmd.fs)] /\ UNCHANGED <<net, goal>>
      /\ UNCHANGED <<u8NumDedicatedBearers, u8MatchAll, u8PdnAddress>>
      BY <1>c, <1>i, <1>u, <1>4 DEF Qa_Add_SortTFT
<1>8. w \in Cell /\ w.eps = cmd.b /\ w.prec = f.prec /\ w.pfid = f.pfid /\ w.dir = f.dir
      /\ w.flow = f.flow
  <2>1. f.pfid \in Nat /\ f.prec \in Nat /\ f.dir \in {"none", "DL", "UL", "BI"} /\ f.flow \in Int
    <3>1. f.pfid \in Nat /\ f.prec \in 0 .. 254 /\ f.dir \in {"DL", "UL", "BI"}
          /\ f.flow \in Flows /\ Flows \subseteq Nat
          BY <1>2, QosAgentAssumption
    <3>2. f.flow \in Nat
          BY <3>1, Zenon
    <3>3. f.prec \in Nat /\ f.flow \in Int
          BY <3>1, <3>2
    <3> QED BY <3>1, <3>3
  <2>2. cmd.b \in Ids
        BY <1>5 DEF Tft, Ids
  <2> QED BY <1>w, <2>1, <2>2 DEF FreeCell, Cell, Ref
<1>t. PICK t : t = [u EXCEPT !.pf[j] = n, !.num = u.num + 1]
      OBVIOUS
<1>9. t \in Tft /\ t.id = u.id /\ t.num = u.num + 1 /\ t.pf = [u.pf EXCEPT ![j] = n]
  <2>1. [u.pf EXCEPT ![j] = n] \in [Slots -> Nodes \cup {NULL}]
        BY <1>5 DEF Tft
  <2> PICK q : q = u.num + 1
      OBVIOUS
  <2>2. LET v == [u EXCEPT !.pf[j] = n, !.num = q]
        IN  v \in Tft /\ v.id = u.id /\ v.num = q /\ v.pf = [u.pf EXCEPT ![j] = n]
    <3>1. q \in 0 .. MAX_FILTERS_PER_TFT
          BY <1>n
    <3> QED BY <1>5, <2>1, <3>1 DEF Tft
  <2> QED BY <1>t, <2>2, Zenon
<1>10. cmd'.op # "sort" /\ u8NumDedicatedBearers' = u8NumDedicatedBearers
  <2>1. CASE Len(cmd.fs) = 1
        BY <1>7, <2>1 DEF Done, NoCmd
  <2>2. CASE Len(cmd.fs) # 1
        BY <1>1, <1>7, <2>2 DEF IInv, Shapes
  <2> QED BY <1>7, <2>1, <2>2
<1>11. /\ Turn(t)
       /\ tDefaultBearer' \in [Pdns -> Tft]
       /\ tDedicatedBearer' \in
            [Pdns -> [0 .. (MAX_DEDICATED_BEARER_PER_PDN - 1) -> Tft]]
       /\ HeapTyped
       /\ ListsSound'
       /\ CellsKept
       /\ Held(t) = Held(u) \cup {j}
       /\ t.pf[j] = n /\ SameFilter(w, cell'[n])
       /\ \A k \in Held(u) :
            /\ t.pf[k] = u.pf[k]
            /\ SameFilter(cell[t.pf[k]], cell'[t.pf[k]])
       /\ Cardinality(Held(t)) = Cardinality(Held(u)) + 1
  <2>1. Added(t, TftOf(ct, idx), j, n) /\ j \in Slots \ Held(TftOf(ct, idx))
        BY <1>u, <1>4, <1>9 DEF Added
  <2>2. SetTft(ct, idx, t)
        BY <1>6, <1>t
  <2>3. Commit(ct, InsertSorted([Mem(ct) EXCEPT !.used = Mem(ct).used \cup {n},
                                   !.cell[n] = w], n, w.prec))
        BY <1>6, <1>8
  <2>4. \A z \in Recorded(ct) : cell[z].prec # w.prec
        BY <1>3, <1>8
  <2>5. AddsNode(ct, idx, j, n, w, t)
        BY <1>8, <2>1, <2>2, <2>3, <2>4 DEF AddsNode
  <2> QED BY <1>c, <1>i, <1>u, <1>1, <1>10, <2>5, AddTurn
<1>12. PICK y \in goal :
           /\ y.id = cmd.b
           /\ \A z \in goal : z.id = cmd.b => z = y
           /\ InForce(y) = y.tft /\ y.tft # {}
           /\ ToSet(cmd.fs) \subseteq y.tft
           /\ HasFilters(u, cell, y.tft \ ToSet(cmd.fs), y.tft \ ToSet(cmd.fs))
      BY <1>c, <1>i, <1>u, <1>1, AddingBearer
<1>S. PICK S : S = y.tft \ ToSet(cmd.fs)
      OBVIOUS
<1>13. HasFilters(t, cell', S \cup {f}, S \cup {f})
  <2>1. Holds(cell', n, f) /\ cell'[n].eps = t.id
        BY <1>5, <1>8, <1>9, <1>11 DEF SameFilter, Holds
  <2>2. HasFilters(u, cell, S, S) /\ j \notin Held(u)
        BY <1>S, <1>4, <1>12
  <2>3. Gains(u, t, cell, cell', j, n, f)
        BY <1>3, <1>9, <1>11, <2>1, <2>2 DEF Gains
  <2> QED BY <2>2, <2>3, AddHolds
<1>14. Now = goal
      BY <1>1 DEF Now
<1>15. OwnNum(t)
  <2>1. Cardinality(Held(t)) = u.num + 1
        BY <1>11, <1>n
  <2> QED BY <1>9, <2>1, Zenon DEF OwnNum
<1>16. cmd.idx = DEFAULT => u8MatchAll[ct] = FALSE
  <2>1. ASSUME cmd.idx = DEFAULT PROVE tDefaultBearer[ct].id = y.id
        BY <1>i, <1>u, <1>5, <1>12, <2>1 DEF TftOf
  <2>2. u8MatchAll[ct] \in BOOLEAN
        BY <1>5 DEF LInv, Typed, TypeOK
  <2> QED BY <1>5, <1>12, <1>14, <2>1, <2>2 DEF LInv, EntriesSound
<1>17. ASSUME Now' = goal PROVE OwnMatchAll(t) /\ NowKept
  <2>1. OwnMatchAll(t)
        BY <1>c, <1>7, <1>12, <1>16, <1>17 DEF OwnMatchAll
  <2>2. NowKept
        BY <1>14, <1>17 DEF NowKept, Carries
  <2> QED BY <2>1, <2>2
<1>18. CASE Len(cmd.fs) = 1
  <2>1. Done /\ Now' = goal /\ \A z : Must(z)' = InForce(z) /\ May(z)' = InForce(z)
        BY <1>7, <1>18 DEF Done, NoCmd, Now, Must, May, InForce
  <2>2. ToSet(cmd.fs) = {f}
    <3>1. DOMAIN cmd.fs = {1} /\ f = cmd.fs[1]
          BY <1>f, <1>h, <1>1, <1>18
    <3> QED BY <3>1 DEF ToSet
  <2>3. S \cup {f} = InForce(y)
        BY <1>S, <1>12, <2>2
  <2>4. OwnHeld(t)
        BY <1>12, <1>13, <2>1, <2>3 DEF OwnHeld
  <2>5. UNCHANGED <<u8MatchAll, u8PdnAddress>>
        BY <1>7
  <2> QED BY <1>1, <1>11, <1>15, <1>17, <2>1, <2>4, <2>5, DoneTurn
<1>19. CASE Len(cmd.fs) # 1
  <2>1. /\ cmd' = [cmd EXCEPT !.fs = Tail(cmd.fs)] /\ net' = net /\ goal' = goal
        BY <1>7, <1>19
  <2>2. /\ cmd'.op = "add" /\ cmd'.ct = cmd.ct /\ cmd'.idx = cmd.idx /\ cmd'.b = cmd.b
        /\ cmd'.fs = Tail(cmd.fs)
        BY <1>1, <2>1 DEF IInv, Shapes
  <2>3. Now' = goal
        BY <2>1, <2>2 DEF Now
  <2>4. /\ Tail(cmd.fs) \in Seq(Filters) /\ Tail(cmd.fs) # << >>
        /\ \A k, l \in DOMAIN Tail(cmd.fs) : k # l => Tail(cmd.fs)[k].pfid # Tail(cmd.fs)[l].pfid
        /\ ToSet(Tail(cmd.fs)) = ToSet(cmd.fs) \ {f}
        BY <1>f, <1>h, <1>1, <1>19, TailFacts
  <2>5. OwnHeld(t)
    <3>1. Must(y)' = InForce(y) \ ToSet(Tail(cmd.fs)) /\ May(y)' = Must(y)'
          BY <1>12, <2>2 DEF Must, May, InForce
    <3>2. S \cup {f} = InForce(y) \ ToSet(Tail(cmd.fs))
          BY <1>S, <1>2, <1>12, <2>4
    <3> QED BY <1>12, <1>13, <2>3, <3>1, <3>2 DEF OwnHeld
  <2>6. OthersKept
        BY <1>14, <2>2, <2>3 DEF OthersKept, Must, May
  <2>7. EntriesSound'
    <3>1. OthersMatchAll
          BY <1>7 DEF OthersMatchAll
    <3> QED BY <1>1, <1>11, <1>15, <1>17, <2>3, <2>5, <2>6, <3>1, SoundKept
  <2>8. EntriesKnown'
        BY <1>1, <1>11, <1>17, <2>3, KnownKept
  <2>9. Typed'
    <3>1. /\ u8NumDedicatedBearers' \in [Pdns -> 0 .. MAX_DEDICATED_BEARER_PER_PDN]
          /\ u8MatchAll' \in [Pdns -> BOOLEAN]
          /\ u8PdnAddress' \in [Pdns -> Addrs \cup {NoAddr}]
          /\ cmd'.op \in {"none", "matchall", "add", "replace", "sort", "delete", "release"}
          BY <1>7, <2>2 DEF LInv, Typed, TypeOK
    <3> QED BY <1>11, <3>1, TypedAfter
  <2>10. NetSound(net') /\ NetSound(goal')
        BY <2>1 DEF LInv
  <2>11. CmdSound'
    <3>1. cmd'.ct \in Pdns /\ cmd'.idx \in Entries(cmd.ct)' /\ TftOf(cmd.ct, cmd.idx)'.id = cmd'.b
          /\ cmd'.b # NoId
      <4>1. idx \in Entries(ct)' /\ TftOf(ct, idx)'.id = cmd.b /\ cmd.b # NoId
            BY <1>c, <1>i, <1>u, <1>1, <1>5, <1>11, TurnIds
      <4> QED BY <1>c, <1>i, <1>5, <2>2, <4>1 DEF Entries, TftOf
    <3>2. /\ \A x \in net \cup goal : x.id # cmd.b => (x \in net <=> x \in goal)
          /\ \A x \in net : x.id = cmd.b => x.tft \cap ToSet(cmd.fs) = {}
          BY <1>1 DEF LInv, CmdSound, FilterOps
    <3>3. \A x \in net : x.id = cmd.b => x.tft \cap ToSet(Tail(cmd.fs)) = {}
          BY <2>4, <3>2
    <3>4. \A z \in goal : z.id = cmd.b => ToSet(Tail(cmd.fs)) \subseteq z.tft
          BY <1>12, <2>4
    <3> QED BY <2>1, <2>2, <2>4, <3>1, <3>2, <3>3, <3>4 DEF CmdSound, FilterOps
  <2> QED BY <1>11, <2>7, <2>8, <2>9, <2>10, <2>11 DEF LInv
<1> QED BY <1>18, <1>19

----------------------------------------------------------------------------
(* Filters are replaced: first taken out of the list and overwritten, one  *)
(* by one, then put back in one by one. Overwritten and Resorted are       *)
(* recursive functions; these are the facts about each of their turns.     *)

(* g records the turns of Qa_Delete_Filter_Replace for nb filters.         *)
Overwrites(g, m, t, b, fs, nb) ==
  g = [k \in 0 .. nb |-> IF k = 0 THEN m ELSE Overwrite(g[k - 1], t, b, fs[k])]

(* There is such a function ...                                            *)
LEMMA OverwritesExist ==
  ASSUME NEW m, NEW t, NEW b, NEW fs, NEW nb \in Nat
  PROVE  \E g : Overwrites(g, m, t, b, fs, nb)
<1> DEFINE Bad == {k \in Nat : ~\E g : Overwrites(g, m, t, b, fs, k)}
<1>1. ASSUME Bad # {} PROVE FALSE
  <2>1. PICK k \in Bad : \A i \in Bad : k <= i
        BY <1>1, FirstOf
  <2>2. CASE k = 0
    <3>1. Overwrites([i \in 0 .. 0 |-> m], m, t, b, fs, 0)
          BY DEF Overwrites
    <3> QED BY <2>2, <3>1
  <2>3. CASE k # 0
    <3>1. k - 1 \in Nat /\ k \in Nat
          BY <2>3
    <3>2. k - 1 \notin Bad
          BY <2>1, <3>1
    <3>3. PICK g : Overwrites(g, m, t, b, fs, k - 1)
          BY <3>1, <3>2
    <3> DEFINE h == [i \in 0 .. k |-> IF i = 0 THEN m ELSE Overwrite(g[i - 1], t, b, fs[i])]
    <3>4. \A i \in 0 .. (k - 1) : h[i] = g[i]
      <4> TAKE i \in 0 .. (k - 1)
      <4> DEFINE next == IF i = 0 THEN m ELSE Overwrite(g[i - 1], t, b, fs[i])
      <4>1. i \in 0 .. k
            BY <3>1
      <4>2. h[i] = next
            BY <4>1
      <4>3. g[i] = next
            BY <3>3, Zenon DEF Overwrites
      <4> QED BY <4>2, <4>3
    <3>5. \A i \in 0 .. k : i # 0 => i - 1 \in 0 .. (k - 1)
          BY <3>1
    <3>6. Overwrites(h, m, t, b, fs, k)
          BY <3>4, <3>5 DEF Overwrites
    <3> QED BY <3>6
  <2> QED BY <2>2, <2>3
<1> QED BY <1>1

(* The turns one by one.                                                   *)
LEMMA OverwrittenIs ==
  ASSUME NEW m, NEW t, NEW b, NEW fs, Len(fs) \in Nat
  PROVE  \E g : /\ g[0] = m
                /\ \A k \in 1 .. Len(fs) : g[k] = Overwrite(g[k - 1], t, b, fs[k])
                /\ Overwritten(m, t, b, fs) = g[Len(fs)]
<1> DEFINE g == CHOOSE g : Overwrites(g, m, t, b, fs, Len(fs))
<1>1. Overwrites(g, m, t, b, fs, Len(fs))
      BY OverwritesExist
<1>2. Overwritten(m, t, b, fs) = g[Len(fs)]
      BY DEF Overwritten, Overwrites
<1> HIDE DEF g
<1>3. 0 \in 0 .. Len(fs) /\ \A k \in 1 .. Len(fs) : k \in 0 .. Len(fs) /\ k # 0
      OBVIOUS
<1>4. g[0] = m
      BY <1>1, <1>3, Zenon DEF Overwrites
<1>5. \A k \in 1 .. Len(fs) : g[k] = Overwrite(g[k - 1], t, b, fs[k])
      BY <1>1, <1>3, Zenon DEF Overwrites
<1> QED BY <1>2, <1>4, <1>5

(* The same for Qa_Replace_SortTFT.                                        *)
Resorts(g, m, t, fs, nb) ==
  g = [k \in 0 .. nb |-> IF k = 0 THEN [temp1 |-> NULL, m |-> m]
                         ELSE Resort(g[k - 1], t, fs[k])]

(* There is such a function ...                                            *)
LEMMA ResortsExist ==
  ASSUME NEW m, NEW t, NEW fs, NEW nb \in Nat
  PROVE  \E g : Resorts(g, m, t, fs, nb)
<1> DEFINE Bad == {k \in Nat : ~\E g : Resorts(g, m, t, fs, k)}
           s == [temp1 |-> NULL, m |-> m]
<1>1. ASSUME Bad # {} PROVE FALSE
  <2>1. PICK k \in Bad : \A i \in Bad : k <= i
        BY <1>1, FirstOf
  <2>2. CASE k = 0
    <3>1. Resorts([i \in 0 .. 0 |-> s], m, t, fs, 0)
          BY DEF Resorts
    <3> QED BY <2>2, <3>1
  <2>3. CASE k # 0
    <3>1. k - 1 \in Nat /\ k \in Nat
          BY <2>3
    <3>2. k - 1 \notin Bad
          BY <2>1, <3>1
    <3>3. PICK g : Resorts(g, m, t, fs, k - 1)
          BY <3>1, <3>2
    <3> DEFINE h == [i \in 0 .. k |-> IF i = 0 THEN s ELSE Resort(g[i - 1], t, fs[i])]
    <3>4. \A i \in 0 .. (k - 1) : h[i] = g[i]
      <4> TAKE i \in 0 .. (k - 1)
      <4> DEFINE next == IF i = 0 THEN s ELSE Resort(g[i - 1], t, fs[i])
      <4>1. i \in 0 .. k
            BY <3>1
      <4>2. h[i] = next
            BY <4>1
      <4>3. g[i] = next
            BY <3>3, Zenon DEF Resorts
      <4> QED BY <4>2, <4>3
    <3>5. \A i \in 0 .. k : i # 0 => i - 1 \in 0 .. (k - 1)
          BY <3>1
    <3>6. Resorts(h, m, t, fs, k)
          BY <3>4, <3>5 DEF Resorts
    <3> QED BY <3>6
  <2> QED BY <2>2, <2>3
<1> QED BY <1>1

(* The turns of Qa_Replace_SortTFT and what they lead to.                  *)
ResortRun(g, m, t, fs) ==
  /\ g[0] = [temp1 |-> NULL, m |-> m]
  /\ \A k \in 1 .. Len(fs) : g[k] = Resort(g[k - 1], t, fs[k])
  /\ Resorted(m, t, fs) = g[Len(fs)].m

(* ... and Resorted is its last value.                                     *)
LEMMA ResortedIs ==
  ASSUME NEW m, NEW t, NEW fs, Len(fs) \in Nat
  PROVE  \E g : ResortRun(g, m, t, fs)
<1> DEFINE g == CHOOSE g : Resorts(g, m, t, fs, Len(fs))
<1>1. Resorts(g, m, t, fs, Len(fs))
      BY ResortsExist
<1>2. Resorted(m, t, fs) = g[Len(fs)].m
      BY DEF Resorted, Resorts
<1> HIDE DEF g
<1>3. 0 \in 0 .. Len(fs) /\ \A k \in 1 .. Len(fs) : k \in 0 .. Len(fs) /\ k # 0
      OBVIOUS
<1>4. g[0] = [temp1 |-> NULL, m |-> m]
      BY <1>1, <1>3, Zenon DEF Resorts
<1>5. \A k \in 1 .. Len(fs) : g[k] = Resort(g[k - 1], t, fs[k])
      BY <1>1, <1>3, Zenon DEF Resorts
<1>6. ResortRun(g, m, t, fs)
      BY <1>2, <1>4, <1>5 DEF ResortRun
<1> QED BY <1>6

(* The contents of a new node.                                             *)
NewCell(f, b) == [FreeCell EXCEPT !.pfid = f.pfid, !.prec = f.prec, !.dir = f.dir,
                    !.flow = f.flow, !.eps = b]

(* nd gives the node of each filter of a message: nodes of the list L,     *)
(* found in the slots of t.                                                *)
Found(nd, L, t, fs) ==
  /\ nd \in [1 .. Len(fs) -> L]
  /\ \A i, k \in 1 .. Len(fs) : nd[i] = nd[k] => i = k
  /\ \A k \in 1 .. Len(fs) : /\ SlotsWith(t, {fs[k].pfid}) # {}
                             /\ nd[k] = t.pf[Min(SlotsWith(t, {fs[k].pfid}))]

(* The nodes of the first k filters of a message.                          *)
Gone(nd, k) == {nd[i] : i \in 1 .. k}

(* After k turns the first k nodes are out of the list and overwritten.    *)
Overwrote(a, m, L, nd, fs, b, k) ==
  /\ a \in Memory /\ a.used = m.used /\ a.ok = m.ok
  /\ Linked(a.head, a.cell, L \ Gone(nd, k))
  /\ \A z \in Nodes : z \notin Gone(nd, k) => SameFilter(m.cell[z], a.cell[z])
  /\ \A i \in 1 .. k : SameFilter(NewCell(fs[i], b), a.cell[nd[i]])
  /\ \A z \in Nodes \ L : a.cell[z] = m.cell[z]

(* A list and the filters of a message, fit to be written to cells.        *)
Batch(m, L, fs, b) ==
  /\ m \in Memory /\ L \subseteq m.used /\ Linked(m.head, m.cell, L)
  /\ Len(fs) \in Nat /\ \A k \in 1 .. Len(fs) : NewCell(fs[k], b) \in Cell

(* One node n out of the list L and overwritten with w.                    *)
Writable(a, L, n, w) ==
  a \in Memory /\ L \subseteq a.used /\ Linked(a.head, a.cell, L) /\ n \in L /\ w \in Cell

(* Node n is out of the list and holds w.                                  *)
Wrote(r, a, L, n, w) ==
  /\ r \in Memory /\ r.used = a.used /\ r.ok = a.ok
  /\ Linked(r.head, r.cell, L \ {n})
  /\ r.cell[n] = w
  /\ \A y \in Nodes \ {n} : SameFilter(a.cell[y], r.cell[y])
  /\ \A y \in Nodes \ L : r.cell[y] = a.cell[y]

(* Unlinking and overwriting do that.                                      *)
LEMMA OverwriteFacts ==
  ASSUME NEW a, NEW L, NEW n, NEW w, Writable(a, L, n, w)
  PROVE  Wrote([Unlink(a, n) EXCEPT !.cell[n] = w], a, L, n, w)
<1> USE DEF Writable
<1> DEFINE u == Unlink(a, n)
           r == [u EXCEPT !.cell[n] = w]
           c == [u.cell EXCEPT ![n] = w]
<1>1. /\ u \in Memory /\ u.used = a.used /\ u.ok = a.ok
      /\ Linked(u.head, u.cell, L \ {n})
      /\ SameFilters(u.cell, a.cell)
      /\ \A y \in Nodes \ L :
           u.cell[y].next = a.cell[y].next /\ u.cell[y].prev = a.cell[y].prev
      BY UnlinkFacts
<1> HIDE DEF u
<1>2. n \in Nodes /\ L \subseteq Nodes
      BY DEF Memory
<1>4. r = [u EXCEPT !.cell = c]
      BY <1>1, <1>2 DEF Memory
<1>5. c \in [Nodes -> Cell] /\ c[n] = w /\ \A y \in Nodes \ {n} : c[y] = u.cell[y]
      BY <1>1, <1>2 DEF Memory
<1> HIDE DEF c
<1>6. /\ r \in Memory /\ r.used = a.used /\ r.ok = a.ok /\ r.head = u.head
      /\ r.cell = c
      BY <1>1, <1>4, <1>5 DEF Memory
<1> HIDE DEF r
<1>7. Linked(r.head, r.cell, L \ {n})
  <2>1. \A y \in L \ {n} : c[y] = u.cell[y]
        BY <1>2, <1>5
  <2> QED BY <1>1, <1>6, <2>1, LinkedFrame
<1>8. \A y \in Nodes \ {n} : SameFilter(a.cell[y], c[y])
      BY <1>1, <1>5 DEF SameFilters, SameFilter
<1>9. ASSUME NEW y \in Nodes \ L PROVE c[y] = a.cell[y]
  <2>1. c[y] = u.cell[y] /\ u.cell[y] \in Cell /\ a.cell[y] \in Cell
        BY <1>1, <1>5 DEF Memory
  <2> QED BY <1>1, <2>1 DEF Cell, SameFilters
<1> QED BY <1>5, <1>6, <1>7, <1>8, <1>9 DEF r, u, Wrote

(* One turn of the loop ...                                                *)
LEMMA OverwriteTurn ==
  ASSUME NEW m, NEW L, NEW fs, NEW b, NEW nd, NEW t, Batch(m, L, fs, b), Found(nd, L, t, fs),
         NEW k \in 1 .. Len(fs), NEW a, Overwrote(a, m, L, nd, fs, b, k - 1)
  PROVE  Overwrote(Overwrite(a, t, b, fs[k]), m, L, nd, fs, b, k)
<1> DEFINE n == nd[k]
           w == NewCell(fs[k], b)
           K == L \ Gone(nd, k - 1)
           r == [Unlink(a, n) EXCEPT !.cell[n] = w]
<1>1. /\ Len(fs) \in Nat /\ k - 1 \in Nat /\ k \in Nat
      /\ \A i : i \in 1 .. k <=> i \in 1 .. (k - 1) \/ i = k
      /\ \A i \in 1 .. (k - 1) : i \in 1 .. Len(fs) /\ i # k
      BY DEF Batch
<1>2. Overwrite(a, t, b, fs[k]) = r
      BY DEF Found, Overwrite, NewCell
<1>3. n \in L /\ n \notin Gone(nd, k - 1)
      BY <1>1 DEF Found, Gone
<1>4. Gone(nd, k) = Gone(nd, k - 1) \cup {n}
      BY <1>1 DEF Gone
<1>5. w \in Cell /\ a \in Memory /\ K \subseteq a.used /\ Linked(a.head, a.cell, K) /\ n \in K
      BY <1>3 DEF Batch, Overwrote
<1>6. a.used = m.used /\ a.ok = m.ok /\ L \subseteq Nodes
      BY DEF Overwrote, Batch, Memory
<1> HIDE DEF n, w, K
<1>7. /\ r \in Memory /\ r.used = a.used /\ r.ok = a.ok
      /\ Linked(r.head, r.cell, K \ {n})
      /\ r.cell[n] = w
      /\ \A y \in Nodes \ {n} : SameFilter(a.cell[y], r.cell[y])
      /\ \A y \in Nodes \ K : r.cell[y] = a.cell[y]
  <2>1. Writable(a, K, n, w)
        BY <1>5 DEF Writable
  <2>2. Wrote(r, a, K, n, w)
        BY <2>1, OverwriteFacts
  <2> QED BY <2>2 DEF Wrote
<1> HIDE DEF r
<1>8. K \ {n} = L \ Gone(nd, k)
      BY <1>4 DEF K
<1>9. \A z \in Nodes : z \notin Gone(nd, k) => SameFilter(m.cell[z], r.cell[z])
  <2>1. \A z \in Nodes : z \notin Gone(nd, k - 1) => SameFilter(m.cell[z], a.cell[z])
        BY DEF Overwrote
  <2> QED BY <1>4, <1>7, <2>1 DEF SameFilter
<1>10. ASSUME NEW i \in 1 .. k PROVE SameFilter(NewCell(fs[i], b), r.cell[nd[i]])
  <2>1. CASE i = k
        BY <1>7, <2>1 DEF n, w, SameFilter
  <2>2. CASE i # k
    <3>1. i \in 1 .. (k - 1) /\ nd[i] # n /\ nd[i] \in Nodes
          BY <1>1, <1>6, <2>2 DEF Found, n
    <3>2. SameFilter(NewCell(fs[i], b), a.cell[nd[i]])
          BY <3>1 DEF Overwrote
    <3> QED BY <1>7, <3>1, <3>2 DEF SameFilter
  <2> QED BY <2>1, <2>2
<1>11. \A z \in Nodes \ L : r.cell[z] = m.cell[z]
  <2>1. \A z \in Nodes \ L : z \in Nodes \ K /\ a.cell[z] = m.cell[z]
        BY DEF Overwrote, K
  <2> QED BY <1>7, <2>1
<1>12. Overwrote(r, m, L, nd, fs, b, k)
  <2>1. r \in Memory /\ r.used = m.used /\ r.ok = m.ok /\ Linked(r.head, r.cell, L \ Gone(nd, k))
        BY <1>6, <1>7, <1>8
  <2> QED BY <1>9, <1>10, <1>11, <2>1 DEF Overwrote
<1> QED BY <1>2, <1>12

(* ... and all of them.                                                    *)
LEMMA OverwrittenFacts ==
  ASSUME NEW m, NEW L, NEW fs, NEW b, NEW nd, NEW t, Batch(m, L, fs, b), Found(nd, L, t, fs)
  PROVE  Overwrote(Overwritten(m, t, b, fs), m, L, nd, fs, b, Len(fs))
<1>1. Len(fs) \in Nat /\ m \in Memory /\ Linked(m.head, m.cell, L)
      BY DEF Batch
<1>2. PICK g : /\ g[0] = m
               /\ \A k \in 1 .. Len(fs) : g[k] = Overwrite(g[k - 1], t, b, fs[k])
               /\ Overwritten(m, t, b, fs) = g[Len(fs)]
      BY <1>1, OverwrittenIs
<1> DEFINE Good(k) == Overwrote(g[k], m, L, nd, fs, b, k)
           Bad == {k \in 0 .. Len(fs) : ~Good(k)}
<1>3. Good(0)
  <2>1. Gone(nd, 0) = {}
        BY DEF Gone
  <2>2. L \ Gone(nd, 0) = L
        BY <2>1
  <2>3. \A i \in 1 .. 0 : FALSE
        OBVIOUS
  <2>4. \A z \in Nodes : SameFilter(m.cell[z], m.cell[z])
        BY DEF SameFilter
  <2>5. Overwrote(m, m, L, nd, fs, b, 0)
        BY <1>1, <2>2, <2>3, <2>4, Zenon DEF Overwrote
  <2> QED BY <1>2, <2>5
<1>4. ASSUME NEW k \in 1 .. Len(fs), Good(k - 1) PROVE Good(k)
      BY <1>2, <1>4, OverwriteTurn
<1> HIDE DEF Good
<1>5. ASSUME Bad # {} PROVE FALSE
  <2>1. Bad \subseteq Nat
        BY <1>1
  <2>2. PICK k \in Bad : \A i \in Bad : k <= i
        BY <1>5, <2>1, FirstOf
  <2>3. k # 0
        BY <1>3, <2>2
  <2>4. k \in 1 .. Len(fs) /\ k - 1 \in 0 .. Len(fs)
        BY <1>1, <2>3
  <2>5. k - 1 \notin Bad
        BY <1>1, <2>2, <2>4
  <2>6. Good(k)
        BY <1>4, <2>4, <2>5
  <2> QED BY <2>2, <2>6
<1>6. Good(Len(fs))
      BY <1>1, <1>5
<1> QED BY <1>2, <1>6 DEF Good

(* The nodes marked with the handler's bearer are in its entry.            *)
LEMMA OwnNodes ==
  ASSUME LInv, cmd.op # "none", NEW ct, ct = cmd.ct, NEW idx, idx = cmd.idx,
         NEW n \in used, cell[n].eps = cmd.b
  PROVE  n \in Recorded(ct) /\ \E j \in Held(TftOf(ct, idx)) : n = TftOf(ct, idx).pf[j]
<1>1. ct \in Pdns /\ idx \in Entries(ct) /\ TftOf(ct, idx).id = cmd.b /\ cmd.b # NoId
      BY OwnBearer
<1>2. PICK d \in Pdns : n \in Recorded(d)
      BY DEF LInv, ListsSound
<1>3. PICK i \in Entries(d) : \E j \in Held(TftOf(d, i)) : n = TftOf(d, i).pf[j]
      BY <1>2, RecordedIs
<1>4. cell[n].eps = TftOf(d, i).id
      BY <1>3, Owned
<1>5. d = ct /\ i = idx
  <2>1. TftOf(d, i).id = TftOf(ct, idx).id
        BY <1>1, <1>4
  <2> QED BY <1>1, <1>4, <2>1, IdsApart
<1> QED BY <1>2, <1>3, <1>5

(* The cell of a filter holds it.                                          *)
LEMMA NewCellTyped ==
  ASSUME NEW f \in Filters, NEW b \in Ids
  PROVE  /\ NewCell(f, b) \in Cell /\ NewCell(f, b).eps = b /\ NewCell(f, b).pfid = f.pfid
         /\ NewCell(f, b).prec = f.prec /\ NewCell(f, b).dir = f.dir
         /\ NewCell(f, b).flow = f.flow
<1>1. f.pfid \in Nat /\ f.prec \in 0 .. 254 /\ f.dir \in {"DL", "UL", "BI"}
      /\ f.flow \in Flows /\ Flows \subseteq Nat
      BY QosAgentAssumption
<1>2. f.flow \in Nat
      BY <1>1, Zenon
<1>3. f.prec \in Nat /\ f.flow \in Int
      BY <1>1, <1>2
<1> QED BY <1>1, <1>3 DEF NewCell, FreeCell, Cell, Ref

(* The node of a filter of the message in the entry u of its bearer.       *)
NodeOf(u, f) == u.pf[Min(SlotsWith(u, {f.pfid}))]

(* It is the one node of the entry with the filter's identifier.           *)
NodeIs(n, u, f, ct) ==
  /\ \E j \in Held(u) : n = u.pf[j]
  /\ n \in Recorded(ct) /\ n \in used /\ n \in Nodes
  /\ cell[n].pfid = f.pfid /\ cell[n].eps = cmd.b
  /\ \A j \in Held(u) : cell[u.pf[j]].pfid = f.pfid => u.pf[j] = n

(* The search finds it.                                                    *)
LEMMA NodeFound ==
  ASSUME LInv, cmd.op # "none", NEW ct, ct = cmd.ct, NEW u, u = TftOf(ct, cmd.idx)
  PROVE  \A f : SlotsWith(u, {f.pfid}) # {} => NodeIs(NodeOf(u, f), u, f, ct)
<1> SUFFICES ASSUME NEW f, SlotsWith(u, {f.pfid}) # {}
             PROVE  NodeIs(NodeOf(u, f), u, f, ct)
    OBVIOUS
<1> PICK idx : idx = cmd.idx
    OBVIOUS
<1> DEFINE S == SlotsWith(u, {f.pfid})
           j == Min(S)
<1>1. S \subseteq Nat
      BY QosAgentAssumption DEF SlotsWith, Slots
<1>2. j \in S
      BY <1>1, FirstOf
<1>3. j \in Held(u) /\ cell[u.pf[j]].pfid = f.pfid
      BY <1>2 DEF SlotsWith, Held
<1>4. NodeOf(u, f) = u.pf[j]
      BY DEF NodeOf
<1> HIDE DEF j
<1>5. ct \in Pdns /\ idx \in Entries(ct) /\ u.id = cmd.b
      BY OwnBearer
<1>6. u.pf[j] \in Recorded(ct) /\ u.pf[j] \in used /\ u.pf[j] \in Nodes /\ cell[u.pf[j]].eps = u.id
      BY <1>3, <1>5, Owned
<1>7. PICK x \in Now : HasFilters(u, cell, Must(x), May(x))
      BY OwnBearer
<1>8. \A k \in Held(u) : cell[u.pf[k]].pfid = f.pfid => k = j
      BY <1>3, <1>7 DEF HasFilters
<1> QED BY <1>3, <1>4, <1>5, <1>6, <1>8 DEF NodeIs

(* The bearer of a replacement, before it and after.                       *)
LEMMA ReplacingBearer ==
  ASSUME LInv, cmd.op = "replace"
  PROVE  \E x \in net, y \in goal :
           /\ x.id = cmd.b /\ (\A z \in net : z.id = cmd.b => z = x)
           /\ y.id = cmd.b /\ (\A z \in goal : z.id = cmd.b => z = y)
           /\ x.tft # {} /\ y.tft # {} /\ Carries(y, x)
           /\ HasFilters(TftOf(cmd.ct, cmd.idx), cell, x.tft, x.tft)
           /\ \/ /\ Pfids(ToSet(cmd.fs)) \subseteq Pfids(x.tft)
                 /\ y.tft = {f \in x.tft : f.pfid \notin Pfids(ToSet(cmd.fs))} \cup ToSet(cmd.fs)
              \/ y = x /\ Pfids(ToSet(cmd.fs)) \cap Pfids(x.tft) = {}
<1>1. Now = net /\ cmd.op # "none"
      BY DEF Now
<1>2. PICK x \in net :
        /\ x.id = cmd.b /\ (\A z \in net : z.id = cmd.b => z = x)
        /\ HasFilters(TftOf(cmd.ct, cmd.idx), cell, Must(x), May(x))
      BY <1>1, OwnBearer
<1>3. /\ x.tft # {}
      /\ \E y \in goal :
           /\ Carries(y, x)
           /\ \/ /\ Pfids(ToSet(cmd.fs)) \subseteq Pfids(x.tft)
                 /\ y.tft = {f \in x.tft : f.pfid \notin Pfids(ToSet(cmd.fs))} \cup ToSet(cmd.fs)
              \/ y = x /\ Pfids(ToSet(cmd.fs)) \cap Pfids(x.tft) = {}
      BY <1>2 DEF LInv, CmdSound
<1>4. PICK y \in goal :
           /\ Carries(y, x)
           /\ \/ /\ Pfids(ToSet(cmd.fs)) \subseteq Pfids(x.tft)
                 /\ y.tft = {f \in x.tft : f.pfid \notin Pfids(ToSet(cmd.fs))} \cup ToSet(cmd.fs)
              \/ y = x /\ Pfids(ToSet(cmd.fs)) \cap Pfids(x.tft) = {}
      BY <1>3
<1>5. y.id = cmd.b /\ (\A z \in goal : z.id = cmd.b => z = y)
      BY <1>2, <1>4 DEF LInv, NetSound, Carries
<1>6. ToSet(cmd.fs) # {}
  <2>1. cmd.fs \in Seq(Filters) /\ cmd.fs # << >>
        BY DEF LInv, CmdSound, FilterOps
  <2>2. 1 \in DOMAIN cmd.fs
        BY <2>1
  <2> QED BY <2>2 DEF ToSet
<1>7. Must(x) = x.tft /\ May(x) = x.tft
      BY <1>3 DEF Must, May, InForce
<1> QED BY <1>2, <1>3, <1>4, <1>5, <1>6, <1>7

(* What the sections of a replacement have in common: the tables stay, and *)
(* the network's view turns from net to goal.                              *)
LEMMA ReplaceTurn ==
  ASSUME LInv, IInv, cmd.op = "replace", cmd' = [cmd EXCEPT !.op = "sort"],
         UNCHANGED tables, UNCHANGED <<net, goal>>, HeapTyped, ListsSound', CellsKept,
         NEW u, u = TftOf(cmd.ct, cmd.idx),
         \A y \in goal : y.id = cmd.b => HasFilters(u, cell', y.tft, y.tft)
  PROVE  LInv'
<1>1. /\ cmd'.op = "sort" /\ cmd'.ct = cmd.ct /\ cmd'.idx = cmd.idx /\ cmd'.b = cmd.b
      /\ cmd'.fs = cmd.fs
      BY DEF IInv, Shapes
<1>2. Now = net /\ Now' = goal /\ cmd.op # "none"
      BY <1>1 DEF Now
<1>3. PICK x \in net, y \in goal :
           /\ x.id = cmd.b /\ (\A z \in net : z.id = cmd.b => z = x)
           /\ y.id = cmd.b /\ (\A z \in goal : z.id = cmd.b => z = y)
           /\ x.tft # {} /\ y.tft # {} /\ Carries(y, x)
           /\ \/ /\ Pfids(ToSet(cmd.fs)) \subseteq Pfids(x.tft)
                 /\ y.tft = {f \in x.tft : f.pfid \notin Pfids(ToSet(cmd.fs))} \cup ToSet(cmd.fs)
              \/ y = x /\ Pfids(ToSet(cmd.fs)) \cap Pfids(x.tft) = {}
      BY ReplacingBearer
<1>4. \A z \in net \cup goal : z.id # cmd.b => (z \in net <=> z \in goal)
      BY DEF LInv, CmdSound
<1>5. NowKept
      BY <1>2, <1>3, <1>4 DEF NowKept, Carries
<1>6. /\ Turn(u)
      /\ tDefaultBearer' \in [Pdns -> Tft]
      /\ tDedicatedBearer' \in [Pdns -> [0 .. (MAX_DEDICATED_BEARER_PER_PDN - 1) -> Tft]]
      BY <1>2, SelfTurn
<1>7. EntriesKnown'
      BY <1>2, <1>5, <1>6, KnownKept
<1>8. \A z : Must(z)' = InForce(z) /\ May(z)' = InForce(z)
      BY <1>1 DEF Must, May, InForce
<1>9. EntriesSound'
  <2>1. OthersKept
        BY <1>2, <1>4, <1>8 DEF OthersKept
  <2>2. OwnHeld(u)
    <3>1. InForce(y) = y.tft
          BY <1>3 DEF InForce
    <3> QED BY <1>2, <1>3, <1>8, <3>1 DEF OwnHeld
  <2>3. cmd.ct \in Pdns /\ cmd.idx \in Entries(cmd.ct) /\ u.id = cmd.b
        BY <1>2, OwnBearer
  <2>4. OwnNum(u)
        BY <2>3 DEF LInv, EntriesSound, OwnNum
  <2>5. u8MatchAll' = u8MatchAll
        BY DEF tables
  <2>6. OthersMatchAll
        BY <2>5 DEF OthersMatchAll
  <2>7. OwnMatchAll(u)
    <3>1. ASSUME cmd.idx = DEFAULT PROVE u8MatchAll[cmd.ct] = FALSE
      <4>1. tDefaultBearer[cmd.ct].id = x.id
            BY <1>3, <2>3, <3>1 DEF TftOf
      <4>2. u8MatchAll[cmd.ct] \in BOOLEAN
            BY <2>3 DEF LInv, Typed, TypeOK
      <4> QED BY <1>2, <1>3, <2>3, <4>1, <4>2 DEF LInv, EntriesSound
    <3> QED BY <1>2, <1>3, <2>5, <3>1 DEF OwnMatchAll
  <2> QED BY <1>2, <1>6, <2>1, <2>2, <2>4, <2>6, <2>7, SoundKept
<1>10. Typed'
  <2>1. /\ u8NumDedicatedBearers' \in [Pdns -> 0 .. MAX_DEDICATED_BEARER_PER_PDN]
        /\ u8MatchAll' \in [Pdns -> BOOLEAN]
        /\ u8PdnAddress' \in [Pdns -> Addrs \cup {NoAddr}]
        /\ cmd'.op \in {"none", "matchall", "add", "replace", "sort", "delete", "release"}
        BY <1>1 DEF LInv, Typed, TypeOK, tables
  <2> QED BY <1>6, <2>1, TypedAfter
<1>11. CmdSound'
  <2>1. /\ cmd'.ct \in Pdns /\ cmd'.idx \in Entries(cmd.ct)'
        /\ TftOf(cmd.ct, cmd.idx)'.id = cmd'.b /\ cmd'.b # NoId
    <3>1. cmd.ct \in Pdns /\ cmd.idx \in Entries(cmd.ct) /\ u.id = cmd.b /\ cmd.b # NoId
          BY <1>2, OwnBearer
    <3> QED BY <1>1, <3>1 DEF tables, Entries, TftOf
  <2>2. /\ cmd.fs \in Seq(Filters) /\ cmd.fs # << >>
        /\ \A i, j \in DOMAIN cmd.fs : i # j => cmd.fs[i].pfid # cmd.fs[j].pfid
        /\ \A z \in net : z.id = cmd.b => z.tft \cap ToSet(cmd.fs) = {}
        BY DEF LInv, CmdSound, FilterOps
  <2>3. /\ y.tft # {}
        /\ \/ ToSet(cmd.fs) \subseteq y.tft
           \/ Pfids(ToSet(cmd.fs)) \cap Pfids(y.tft) = {}
        BY <1>3
  <2>4. net' = net /\ goal' = goal
        OBVIOUS
  <2> QED BY <1>1, <1>3, <1>4, <2>1, <2>2, <2>3, <2>4 DEF CmdSound, FilterOps
<1>12. NetSound(net') /\ NetSound(goal')
      BY DEF LInv
<1> QED BY <1>7, <1>9, <1>10, <1>11, <1>12 DEF LInv

(* Nothing is replaced when the bearer has none of the filters.            *)
LEMMA ReplaceUnknown ==
  ASSUME LInv, IInv, cmd.op = "replace", cmd' = [cmd EXCEPT !.op = "sort"],
         UNCHANGED tables, UNCHANGED <<net, goal>>, UNCHANGED list,
         NEW x \in net, x.id = cmd.b,
         NEW u, u = TftOf(cmd.ct, cmd.idx), HasFilters(u, cell, x.tft, x.tft),
         \A z \in goal : z.id = cmd.b => z = x,
         Pfids(ToSet(cmd.fs)) \cap Pfids(x.tft) = {}
  PROVE  LInv'
<1>1. cmd'.op = "sort" /\ cmd'.b = cmd.b /\ cmd'.fs = cmd.fs /\ cmd.op # "none"
      BY DEF IInv, Shapes
<1>2. Leaving' = {} /\ Leaving = {}
  <2>1. ASSUME NEW n \in used, cell[n].eps = cmd.b, cell[n].pfid \in Pfids(ToSet(cmd.fs))
        PROVE  FALSE
    <3>1. PICK j \in Held(u) : n = u.pf[j]
          BY <1>1, <2>1, OwnNodes
    <3>2. PICK f \in x.tft : Holds(cell, n, f)
          BY <3>1 DEF HasFilters
    <3> QED BY <2>1, <3>2 DEF Holds, Pfids
  <2> QED BY <1>1, <2>1 DEF Leaving, list
<1>3. HeapTyped /\ ListsSound' /\ CellsKept
      BY <1>2, SameLists
<1>4. \A y \in goal : y.id = cmd.b => HasFilters(u, cell', y.tft, y.tft)
      BY DEF list
<1> QED BY <1>3, <1>4, ReplaceTurn

(* The filters of the entry are taken out of the list and overwritten.     *)
LEMMA ReplaceKnown ==
  ASSUME LInv, IInv, cmd.op = "replace", cmd' = [cmd EXCEPT !.op = "sort"],
         UNCHANGED tables, UNCHANGED <<net, goal>>,
         NEW x \in net, x.id = cmd.b, NEW y \in goal,
         NEW ct, ct = cmd.ct, NEW idx, idx = cmd.idx,
         NEW u, u = TftOf(ct, idx), HasFilters(u, cell, x.tft, x.tft),
         NEW fs, fs = cmd.fs,
         \A k \in 1 .. Len(fs) : SlotsWith(u, {fs[k].pfid}) # {},
         Commit(ct, Overwritten(Mem(ct), u, cmd.b, fs)),
         \A z \in goal : z.id = cmd.b => z = y,
         y.tft = {f \in x.tft : f.pfid \notin Pfids(ToSet(fs))} \cup ToSet(fs)
  PROVE  LInv'
<1>b. PICK b : b = cmd.b
      OBVIOUS
<1>m. PICK m : m = Mem(ct)
      OBVIOUS
<1>L. PICK L : L = Recorded(ct)
      OBVIOUS
<1> DEFINE N == Len(fs)
           nd == [k \in 1 .. N |-> NodeOf(u, fs[k])]
           a == Overwritten(m, u, b, fs)
<1>1. /\ cmd'.op = "sort" /\ cmd'.b = cmd.b /\ cmd'.fs = fs /\ cmd.op # "none"
      BY DEF IInv, Shapes
<1>2. /\ fs \in Seq(Filters) /\ N \in Nat /\ DOMAIN fs = 1 .. N
      /\ \A i, j \in 1 .. N : i # j => fs[i].pfid # fs[j].pfid
      /\ \A i \in 1 .. N : fs[i] \in Filters
  <2>1. /\ fs \in Seq(Filters)
        /\ \A i, j \in DOMAIN fs : i # j => fs[i].pfid # fs[j].pfid
        BY DEF LInv, CmdSound, FilterOps
  <2> QED BY <2>1
<1>3. ct \in Pdns /\ idx \in Entries(ct) /\ u.id = b /\ u \in Tft /\ b \in Ids
  <2>1. ct \in Pdns /\ idx \in Entries(ct) /\ u.id = b
        BY <1>b, <1>1, OwnBearer
  <2>2. u \in Tft
        BY <2>1, EntryTyped
  <2> QED BY <2>1, <2>2 DEF Tft, Ids
<1>4. \A k \in 1 .. N :
        /\ \E j \in Held(u) : nd[k] = u.pf[j]
        /\ nd[k] \in L /\ nd[k] \in used /\ nd[k] \in Nodes
        /\ cell[nd[k]].pfid = fs[k].pfid /\ cell[nd[k]].eps = b
        /\ \A j \in Held(u) : cell[u.pf[j]].pfid = fs[k].pfid => u.pf[j] = nd[k]
  <2> SUFFICES ASSUME NEW k \in 1 .. N
               PROVE  /\ \E j \in Held(u) : nd[k] = u.pf[j]
                      /\ nd[k] \in L /\ nd[k] \in used /\ nd[k] \in Nodes
                      /\ cell[nd[k]].pfid = fs[k].pfid /\ cell[nd[k]].eps = b
                      /\ \A j \in Held(u) : cell[u.pf[j]].pfid = fs[k].pfid => u.pf[j] = nd[k]
      OBVIOUS
  <2>1. nd[k] = NodeOf(u, fs[k])
        OBVIOUS
  <2>2. SlotsWith(u, {fs[k].pfid}) # {}
        OBVIOUS
  <2>3. NodeIs(NodeOf(u, fs[k]), u, fs[k], ct)
    <3>1. \A f : SlotsWith(u, {f.pfid}) # {} => NodeIs(NodeOf(u, f), u, f, ct)
          BY <1>1, NodeFound
    <3> QED BY <2>2, <3>1, Zenon
  <2> HIDE DEF nd
  <2> QED BY <1>b, <1>L, <2>1, <2>3 DEF NodeIs
<1>5. Found(nd, L, u, fs)
  <2>1. nd \in [1 .. N -> L]
        BY <1>4
  <2>3. \A k \in 1 .. N : nd[k] = u.pf[Min(SlotsWith(u, {fs[k].pfid}))]
        BY DEF NodeOf
  <2> HIDE DEF nd
  <2>2. \A i, k \in 1 .. N : nd[i] = nd[k] => i = k
        BY <1>2, <1>4
  <2> QED BY <2>1, <2>2, <2>3 DEF Found
<1>6. /\ \A k \in 1 .. N : /\ NewCell(fs[k], b) \in Cell /\ NewCell(fs[k], b).eps = b
                           /\ NewCell(fs[k], b).pfid = fs[k].pfid
                           /\ NewCell(fs[k], b).prec = fs[k].prec
                           /\ NewCell(fs[k], b).dir = fs[k].dir
                           /\ NewCell(fs[k], b).flow = fs[k].flow
      BY <1>2, <1>3, NewCellTyped
<1> HIDE DEF nd
<1>7. /\ m \in Memory /\ m.used = used /\ m.cell = cell /\ m.ok = TRUE
      /\ m.head = tClassifierTable[ct] /\ L \subseteq used
      /\ Linked(m.head, m.cell, L)
      /\ used \subseteq Nodes
  <2>1. Recorded(ct) \ Leaving = Recorded(ct)
        BY DEF Leaving
  <2>2. /\ m \in Memory /\ m.used = used /\ m.cell = cell /\ m.ok = TRUE
        /\ m.head = tClassifierTable[ct] /\ Recorded(ct) \subseteq used
        /\ Linked(m.head, m.cell, Recorded(ct) \ Leaving)
        /\ used \subseteq Nodes
        BY <1>m, <1>3, MemFacts
  <2> QED BY <1>L, <2>1, <2>2
<1>8. Overwrote(a, m, L, nd, fs, b, N)
  <2>1. Batch(m, L, fs, b)
        BY <1>2, <1>6, <1>7 DEF Batch
  <2> QED BY <1>5, <2>1, OverwrittenFacts
<1>9. Commit(ct, a)
      BY <1>b, <1>m
<1> HIDE DEF a
<1> DEFINE G == Gone(nd, N)
<1>10. /\ a \in Memory /\ a.used = used /\ a.ok = TRUE
       /\ Linked(a.head, a.cell, L \ G)
       /\ \A z \in Nodes : z \notin G => SameFilter(cell[z], a.cell[z])
       /\ \A i \in 1 .. N : SameFilter(NewCell(fs[i], b), a.cell[nd[i]])
       /\ \A z \in Nodes \ L : a.cell[z] = cell[z]
      BY <1>7, <1>8 DEF Overwrote
<1>11. \A z : z \in G <=> \E i \in 1 .. N : z = nd[i]
      BY DEF Gone
<1> HIDE DEF G
<1>12. /\ HeapTyped
       /\ used' = a.used /\ cell' = a.cell /\ tClassifierTable'[ct] = a.head
       /\ \A d \in Pdns : d # ct => tClassifierTable'[d] = tClassifierTable[d]
  <2>1. \A z \in Nodes \ used : cell[z] = FreeCell
        BY DEF LInv, Typed, TypeOK
  <2>2. \A z \in Nodes \ a.used : a.cell[z] = FreeCell
        BY <1>7, <1>10, <2>1
  <2> QED BY <1>3, <1>9, <1>10, <2>2, CommitTyped
<1>13. \A i \in 1 .. N : Holds(cell', nd[i], fs[i]) /\ cell'[nd[i]].eps = b
      BY <1>6, <1>10, <1>12 DEF SameFilter, Holds
<1>14. \A z \in used : z \notin G => SameFilter(cell[z], cell'[z])
      BY <1>7, <1>10, <1>12
<1>15. \A p : p \in Pfids(ToSet(fs)) <=> \E i \in 1 .. N : p = fs[i].pfid
      BY <1>2 DEF Pfids, ToSet
<1>16. \A j \in Held(u) : /\ u.pf[j] \in used /\ cell[u.pf[j]].eps = b
                          /\ u.pf[j] \in G <=> cell[u.pf[j]].pfid \in Pfids(ToSet(fs))
                          /\ cell'[u.pf[j]].eps = b
                          /\ cell'[u.pf[j]].pfid = cell[u.pf[j]].pfid
  <2> TAKE j \in Held(u)
  <2>1. u.pf[j] \in used /\ cell[u.pf[j]].eps = b
        BY <1>3, Owned
  <2>2. u.pf[j] \in G <=> cell[u.pf[j]].pfid \in Pfids(ToSet(fs))
        BY <1>4, <1>11, <1>15
  <2>3. CASE u.pf[j] \in G
    <3>1. PICK i \in 1 .. N : u.pf[j] = nd[i]
          BY <1>11, <2>3
    <3> QED BY <1>4, <1>13, <2>1, <2>2, <3>1 DEF Holds
  <2>4. CASE u.pf[j] \notin G
        BY <1>14, <2>1, <2>2, <2>4 DEF SameFilter
  <2> QED BY <2>1, <2>2, <2>3, <2>4
<1>17. HasFilters(u, cell', y.tft, y.tft)
  <2>1. ASSUME NEW j \in Held(u) PROVE \E f \in y.tft : Holds(cell', u.pf[j], f)
    <3>1. CASE u.pf[j] \in G
      <4>1. PICK i \in 1 .. N : u.pf[j] = nd[i]
            BY <1>11, <3>1
      <4>2. fs[i] \in ToSet(fs)
            BY <1>2 DEF ToSet
      <4> QED BY <1>13, <4>1, <4>2
    <3>2. CASE u.pf[j] \notin G
      <4>1. PICK f \in x.tft : Holds(cell, u.pf[j], f)
            BY DEF HasFilters
      <4>2. f.pfid \notin Pfids(ToSet(fs))
            BY <1>16, <3>2, <4>1 DEF Holds
      <4>3. Holds(cell', u.pf[j], f)
            BY <1>14, <1>16, <3>2, <4>1 DEF Holds, SameFilter
      <4> QED BY <4>2, <4>3
    <3> QED BY <3>1, <3>2
  <2>2. ASSUME NEW f \in y.tft PROVE \E j \in Held(u) : Holds(cell', u.pf[j], f)
    <3>1. CASE f \in ToSet(fs)
      <4>1. PICK i \in 1 .. N : f = fs[i]
            BY <1>2, <3>1 DEF ToSet
      <4> QED BY <1>4, <1>13, <4>1
    <3>2. CASE f \in x.tft /\ f.pfid \notin Pfids(ToSet(fs))
      <4>1. PICK j \in Held(u) : Holds(cell, u.pf[j], f)
            BY <3>2 DEF HasFilters
      <4>2. u.pf[j] \notin G
            BY <1>16, <3>2, <4>1 DEF Holds
      <4>3. SameFilter(cell[u.pf[j]], cell'[u.pf[j]])
            BY <1>14, <1>16, <4>2
      <4>4. Holds(cell', u.pf[j], f)
            BY <4>1, <4>3 DEF Holds, SameFilter
      <4> QED BY <4>4
    <3> QED BY <3>1, <3>2
  <2>3. \A j, k \in Held(u) : cell'[u.pf[j]].pfid = cell'[u.pf[k]].pfid => j = k
        BY <1>16 DEF HasFilters
  <2> QED BY <1>3, <1>16, <2>1, <2>2, <2>3 DEF HasFilters
<1>18. Leaving' = G
  <2>1. ASSUME NEW n \in used, cell'[n].eps = b, cell'[n].pfid \in Pfids(ToSet(fs)), n \notin G
        PROVE  FALSE
    <3>1. cell[n].eps = b
          BY <1>14, <2>1 DEF SameFilter
    <3>2. PICK j \in Held(u) : n = u.pf[j]
          BY <1>b, <1>1, <3>1, OwnNodes
    <3> QED BY <1>16, <2>1, <3>2
  <2>2. ASSUME NEW n \in G
        PROVE  n \in used /\ cell'[n].eps = b /\ cell'[n].pfid \in Pfids(ToSet(fs))
        BY <1>4, <1>11, <1>13, <1>15 DEF Holds
  <2>3. Leaving' = {n \in used' : cell'[n].eps = b /\ cell'[n].pfid \in Pfids(ToSet(fs))}
        BY <1>b, <1>1 DEF Leaving, Pfids, ToSet
  <2>4. used' = used
        BY <1>10, <1>12
  <2> QED BY <2>1, <2>2, <2>3, <2>4
<1>19. Turn(u)
      BY <1>1, SelfTurn
<1>20. Recorded(ct)' = L
      BY <1>L DEF Recorded, tables
<1>21. ListsSound'
  <2>1. \A n \in used : n \notin Recorded(ct) => cell'[n] = cell[n]
        BY <1>L, <1>7, <1>10, <1>12
  <2>2. \A n \in Leaving' : cell[n].eps = cmd.b \/ n \notin used
        BY <1>b, <1>4, <1>11, <1>18
  <2>3. \A d \in Pdns : d # ct => tClassifierTable'[d] = tClassifierTable[d]
        BY <1>12
  <2>4. Linked(tClassifierTable'[ct], cell', Recorded(ct)' \ Leaving')
        BY <1>10, <1>12, <1>18, <1>20
  <2>5. \A n : n \in used' <=> \/ n \in used /\ cell[n].eps # cmd.b
                               \/ \E j \in Held(u) : n = u.pf[j]
    <3>1. used' = used
          BY <1>10, <1>12
    <3>2. \A n \in used : cell[n].eps = cmd.b => \E j \in Held(u) : n = u.pf[j]
          BY <1>1, OwnNodes
    <3> QED BY <1>16, <3>1, <3>2
  <2>6. \A v : Turn(v) /\ (\A n : n \in used' <=> \/ n \in used /\ cell[n].eps # cmd.b
                                                  \/ \E j \in Held(v) : n = v.pf[j])
              => ListsSound'
        BY <1>1, <2>1, <2>2, <2>3, <2>4, ListsKept
  <2> QED BY <1>19, <2>5, <2>6
<1>22. CellsKept
      BY <1>b, <1>4, <1>11, <1>14 DEF CellsKept
<1>23. \A z \in goal : z.id = cmd.b => HasFilters(u, cell', z.tft, z.tft)
      BY <1>17
<1> QED BY <1>12, <1>21, <1>22, <1>23, ReplaceTurn

(* Qa_Delete_Filter_Replace, whether it knows the filters or not.          *)
LEMMA ReplaceStep ==
  ASSUME LInv, IInv, Qa_Delete_Filter_Replace
  PROVE  LInv'
<1>c. PICK ct : ct = cmd.ct
      OBVIOUS
<1>i. PICK idx : idx = cmd.idx
      OBVIOUS
<1>u. PICK u : u = TftOf(ct, idx)
      OBVIOUS
<1>f. PICK fs : fs = cmd.fs
      OBVIOUS
<1>1. /\ cmd.op = "replace"
      /\ IF \A i \in DOMAIN fs : SlotsWith(u, {fs[i].pfid}) # {}
         THEN Commit(ct, Overwritten(Mem(ct), u, cmd.b, fs))
         ELSE UNCHANGED list
      /\ cmd' = [cmd EXCEPT !.op = "sort"]
      /\ UNCHANGED tables /\ UNCHANGED <<net, goal>>
      BY <1>c, <1>i, <1>u, <1>f DEF Qa_Delete_Filter_Replace
<1>2. fs \in Seq(Filters) /\ fs # << >>
      BY <1>f, <1>1 DEF LInv, CmdSound, FilterOps
<1>3. DOMAIN fs = 1 .. Len(fs) /\ 1 \in DOMAIN fs
      BY <1>2
<1>4. PICK x \in net, y \in goal :
           /\ x.id = cmd.b
           /\ y.id = cmd.b /\ (\A z \in goal : z.id = cmd.b => z = y)
           /\ HasFilters(u, cell, x.tft, x.tft)
           /\ \/ /\ Pfids(ToSet(fs)) \subseteq Pfids(x.tft)
                 /\ y.tft = {f \in x.tft : f.pfid \notin Pfids(ToSet(fs))} \cup ToSet(fs)
              \/ y = x /\ Pfids(ToSet(fs)) \cap Pfids(x.tft) = {}
      BY <1>c, <1>i, <1>u, <1>f, <1>1, ReplacingBearer
<1>5. CASE /\ Pfids(ToSet(fs)) \subseteq Pfids(x.tft)
           /\ y.tft = {f \in x.tft : f.pfid \notin Pfids(ToSet(fs))} \cup ToSet(fs)
  <2>1. ASSUME NEW k \in DOMAIN fs PROVE SlotsWith(u, {fs[k].pfid}) # {}
    <3>1. fs[k].pfid \in Pfids(x.tft)
          BY <1>5 DEF Pfids, ToSet
    <3>2. PICK g \in x.tft : g.pfid = fs[k].pfid
          BY <3>1 DEF Pfids
    <3>3. PICK j \in Held(u) : Holds(cell, u.pf[j], g)
          BY <1>4 DEF HasFilters
    <3>4. j \in SlotsWith(u, {fs[k].pfid})
          BY <3>2, <3>3 DEF SlotsWith, Held, Holds
    <3> QED BY <3>4
  <2>2. Commit(ct, Overwritten(Mem(ct), u, cmd.b, fs))
        BY <1>1, <2>1
  <2>3. \A k \in 1 .. Len(fs) : SlotsWith(u, {fs[k].pfid}) # {}
        BY <1>3, <2>1
  <2> QED BY <1>c, <1>i, <1>u, <1>f, <1>1, <1>4, <1>5, <2>2, <2>3, ReplaceKnown
<1>6. CASE y = x /\ Pfids(ToSet(fs)) \cap Pfids(x.tft) = {}
  <2>1. SlotsWith(u, {fs[1].pfid}) = {}
    <3>1. ASSUME NEW j \in SlotsWith(u, {fs[1].pfid}) PROVE FALSE
      <4>1. j \in Held(u) /\ cell[u.pf[j]].pfid = fs[1].pfid
            BY DEF SlotsWith, Held
      <4>2. PICK g \in x.tft : Holds(cell, u.pf[j], g)
            BY <1>4, <4>1 DEF HasFilters
      <4>3. fs[1].pfid \in Pfids(x.tft) /\ fs[1].pfid \in Pfids(ToSet(fs))
            BY <1>3, <4>1, <4>2 DEF Pfids, ToSet, Holds
      <4> QED BY <1>6, <4>3
    <3> QED BY <3>1
  <2>2. UNCHANGED list
        BY <1>1, <1>3, <2>1
  <2>3. \A z \in goal : z.id = cmd.b => z = x
        BY <1>4, <1>6
  <2>4. u = TftOf(cmd.ct, cmd.idx) /\ Pfids(ToSet(cmd.fs)) \cap Pfids(x.tft) = {}
        BY <1>c, <1>i, <1>u, <1>f, <1>6
  <2> QED BY <1>1, <1>4, <2>2, <2>3, <2>4, ReplaceUnknown
<1> QED BY <1>4, <1>5, <1>6

----------------------------------------------------------------------------
(* The filters are put back.                                               *)

(* nd gives the nodes that are to be linked again, outside the list L; no  *)
(* two of all these nodes have one precedence.                             *)
Waiting(nd, m, L, t, fs) ==
  /\ m \in Memory /\ Linked(m.head, m.cell, L)
  /\ Len(fs) \in Nat /\ nd \in [1 .. Len(fs) -> m.used] /\ L \subseteq m.used
  /\ \A k \in 1 .. Len(fs) : nd[k] \notin L
  /\ \A i, k \in 1 .. Len(fs) : nd[i] = nd[k] => i = k
  /\ \A x, y \in L \cup Gone(nd, Len(fs)) : m.cell[x].prec = m.cell[y].prec => x = y
  /\ \A k \in 1 .. Len(fs) : /\ SlotsWith(t, {fs[k].pfid}) # {}
                             /\ nd[k] = t.pf[Min(SlotsWith(t, {fs[k].pfid}))]
                             /\ m.cell[nd[k]].prec = fs[k].prec

(* After k turns the first k are in the list.                              *)
Relisted(a, m, L, nd, k) ==
  /\ a \in Memory /\ a.used = m.used /\ a.ok = m.ok
  /\ Linked(a.head, a.cell, L \cup Gone(nd, k))
  /\ SameFilters(a.cell, m.cell)
  /\ \A z \in Nodes \ (L \cup Gone(nd, k)) :
       a.cell[z].next = m.cell[z].next /\ a.cell[z].prev = m.cell[z].prev

(* One turn of the loop: the node found is linked at its place. It is not  *)
(* left out: no head has its precedence.                                   *)
LEMMA ResortTurn ==
  ASSUME NEW m, NEW L, NEW fs, NEW nd, NEW t, Waiting(nd, m, L, t, fs),
         NEW k \in 1 .. Len(fs), NEW s, Relisted(s.m, m, L, nd, k - 1)
  PROVE  Relisted(Resort(s, t, fs[k]).m, m, L, nd, k)
<1> DEFINE n == nd[k]
           a == s.m
           K == L \cup Gone(nd, k - 1)
           r == InsertSorted(a, n, fs[k].prec)
<1>1. /\ Len(fs) \in Nat /\ k - 1 \in Nat /\ k \in Nat
      /\ \A i : i \in 1 .. k <=> i \in 1 .. (k - 1) \/ i = k
      /\ \A i \in 1 .. k : i \in 1 .. Len(fs)
      /\ \A i \in 1 .. (k - 1) : i \in 1 .. Len(fs) /\ i # k
      BY DEF Waiting
<1>2. /\ n \in m.used /\ n \notin L /\ n \notin Gone(nd, k - 1) /\ n \in Nodes /\ n # NULL
      /\ m.used \subseteq Nodes /\ L \subseteq m.used /\ Gone(nd, k - 1) \subseteq m.used
      /\ n \in Gone(nd, Len(fs)) /\ Gone(nd, k - 1) \subseteq Gone(nd, Len(fs))
  <2>1. n \in m.used /\ n \notin L /\ L \subseteq m.used
        BY DEF Waiting
  <2>2. n \notin Gone(nd, k - 1) /\ Gone(nd, k - 1) \subseteq m.used
        BY <1>1 DEF Waiting, Gone
  <2>3. n \in Gone(nd, Len(fs)) /\ Gone(nd, k - 1) \subseteq Gone(nd, Len(fs))
        BY <1>1 DEF Gone
  <2>4. m.used \subseteq Nodes /\ NULL \notin Nodes
        BY QosAgentAssumption DEF Waiting, Memory
  <2> QED BY <2>1, <2>2, <2>3, <2>4
<1>3. Gone(nd, k) = Gone(nd, k - 1) \cup {n}
      BY <1>1 DEF Gone
<1>4. /\ a \in Memory /\ a.used = m.used /\ a.ok = m.ok /\ Linked(a.head, a.cell, K)
      /\ SameFilters(a.cell, m.cell)
      /\ \A z \in Nodes \ K : a.cell[z].next = m.cell[z].next /\ a.cell[z].prev = m.cell[z].prev
      BY DEF Relisted
<1>5. \A z \in K : a.cell[z].prec # a.cell[n].prec
  <2>1. \A z \in K : m.cell[z].prec = m.cell[n].prec => z = n
        BY <1>2 DEF Waiting
  <2> QED BY <1>2, <1>4, <2>1 DEF SameFilters
<1>6. a.cell[n].prec = fs[k].prec
  <2>1. m.cell[n].prec = fs[k].prec
        BY DEF Waiting
  <2> QED BY <1>2, <1>4, <2>1 DEF SameFilters
<1>7. ~ (a.head # NULL /\ fs[k].prec = a.cell[a.head].prec)
  <2>1. a.head # NULL => a.head \in K
        BY <1>4 DEF Linked
  <2> QED BY <1>5, <1>6, <2>1
<1>8. Resort(s, t, fs[k]).m = r
  <2>1. SlotsWith(t, {fs[k].pfid}) # {} /\ n = t.pf[Min(SlotsWith(t, {fs[k].pfid}))]
        BY DEF Waiting
  <2> QED BY <1>2, <1>7, <2>1 DEF Resort
<1> HIDE DEF n, a, K
<1>9. Unlisted(a, K, n)
      BY <1>2, <1>4, <1>5 DEF Unlisted, K
<1>10. Listed(r, a, K, n)
      BY <1>6, <1>9, InsertLists
<1> HIDE DEF r
<1>11. Relisted(r, m, L, nd, k)
  <2>1. K \cup {n} = L \cup Gone(nd, k)
        BY <1>3 DEF K
  <2>2. r \in Memory /\ r.used = m.used /\ r.ok = m.ok /\ Linked(r.head, r.cell, L \cup Gone(nd, k))
        BY <1>4, <1>10, <2>1 DEF Listed
  <2>3. SameFilters(r.cell, m.cell)
        BY <1>4, <1>10 DEF Listed, SameFilters
  <2>4. ASSUME NEW z \in Nodes \ (L \cup Gone(nd, k))
        PROVE  r.cell[z].next = m.cell[z].next /\ r.cell[z].prev = m.cell[z].prev
    <3>1. z \in Nodes \ (K \cup {n}) /\ z \in Nodes \ K
          BY <2>1
    <3> QED BY <1>4, <1>10, <3>1 DEF Listed
  <2> QED BY <2>2, <2>3, <2>4 DEF Relisted
<1> QED BY <1>8, <1>11

(* All turns.                                                              *)
LEMMA ResortedFacts ==
  ASSUME NEW m, NEW L, NEW fs, NEW nd, NEW t, Waiting(nd, m, L, t, fs)
  PROVE  Relisted(Resorted(m, t, fs), m, L, nd, Len(fs))
<1>1. Len(fs) \in Nat /\ m \in Memory /\ Linked(m.head, m.cell, L)
      BY DEF Waiting
<1>g. PICK g : ResortRun(g, m, t, fs)
      BY <1>1, ResortedIs
<1>2. /\ g[0] = [temp1 |-> NULL, m |-> m]
      /\ \A k \in 1 .. Len(fs) : g[k] = Resort(g[k - 1], t, fs[k])
      /\ Resorted(m, t, fs) = g[Len(fs)].m
      BY <1>g DEF ResortRun
<1> DEFINE Good(k) == Relisted(g[k].m, m, L, nd, k)
           Bad == {k \in 0 .. Len(fs) : ~Good(k)}
<1>3. Good(0)
  <2>1. Gone(nd, 0) = {}
        BY DEF Gone
  <2>2. L \cup Gone(nd, 0) = L
        BY <2>1
  <2>3. SameFilters(m.cell, m.cell)
        BY DEF SameFilters
  <2>4. Relisted(m, m, L, nd, 0)
        BY <1>1, <2>2, <2>3, Zenon DEF Relisted
  <2> QED BY <1>2, <2>4
<1>4. ASSUME NEW k \in 1 .. Len(fs), Good(k - 1) PROVE Good(k)
  <2>1. Relisted(Resort(g[k - 1], t, fs[k]).m, m, L, nd, k)
        BY <1>4, ResortTurn
  <2> QED BY <1>2, <2>1
<1> HIDE DEF Good
<1>5. ASSUME Bad # {} PROVE FALSE
  <2>1. Bad \subseteq Nat
        BY <1>1
  <2>2. PICK k \in Bad : \A i \in Bad : k <= i
        BY <1>5, <2>1, FirstOf
  <2>3. k # 0
        BY <1>3, <2>2
  <2>4. k \in 1 .. Len(fs) /\ k - 1 \in 0 .. Len(fs)
        BY <1>1, <2>3
  <2>5. k - 1 \notin Bad
        BY <1>1, <2>2, <2>4
  <2>6. Good(k)
        BY <1>4, <2>4, <2>5
  <2> QED BY <2>2, <2>6
<1>6. Good(Len(fs))
      BY <1>1, <1>5
<1> QED BY <1>2, <1>6 DEF Good

(* Without any of the filters nothing is linked.                           *)
LEMMA ResortedNothing ==
  ASSUME NEW m, NEW fs, NEW t, Len(fs) \in Nat,
         \A k \in 1 .. Len(fs) : SlotsWith(t, {fs[k].pfid}) = {}
  PROVE  Resorted(m, t, fs) = m
<1>g. PICK g : ResortRun(g, m, t, fs)
      BY ResortedIs
<1>2. /\ g[0] = [temp1 |-> NULL, m |-> m]
      /\ \A k \in 1 .. Len(fs) : g[k] = Resort(g[k - 1], t, fs[k])
      /\ Resorted(m, t, fs) = g[Len(fs)].m
      BY <1>g DEF ResortRun
<1> DEFINE Good(k) == g[k] = [temp1 |-> NULL, m |-> m]
           Bad == {k \in 0 .. Len(fs) : ~Good(k)}
<1>3. Good(0)
      BY <1>2
<1>4. ASSUME NEW k \in 1 .. Len(fs), Good(k - 1) PROVE Good(k)
  <2> PICK s : s = g[k - 1]
      OBVIOUS
  <2>1. s.temp1 = NULL /\ s.m = m
        BY <1>4
  <2>2. Resort(s, t, fs[k]) = [temp1 |-> NULL, m |-> m]
        BY <2>1 DEF Resort
  <2> QED BY <1>2, <2>2
<1> HIDE DEF Good
<1>5. ASSUME Bad # {} PROVE FALSE
  <2>1. Bad \subseteq Nat
        OBVIOUS
  <2>2. PICK k \in Bad : \A i \in Bad : k <= i
        BY <1>5, <2>1, FirstOf
  <2>3. k # 0
        BY <1>3, <2>2
  <2>4. k \in 1 .. Len(fs) /\ k - 1 \in 0 .. Len(fs)
        BY <2>3
  <2>5. k - 1 \notin Bad
        BY <2>2, <2>4
  <2>6. Good(k)
        BY <1>4, <2>4, <2>5
  <2> QED BY <2>2, <2>6
<1>6. Good(Len(fs))
      BY <1>5
<1> QED BY <1>2, <1>6 DEF Good

(* No two filters on record for a PDN have one precedence.                 *)
LEMMA PrecsApart ==
  ASSUME LInv, NEW ct \in Pdns, NEW m \in Recorded(ct), NEW n \in Recorded(ct),
         cell[m].prec = cell[n].prec
  PROVE  m = n
<1>1. PICK i \in Entries(ct) : \E j \in Held(TftOf(ct, i)) : m = TftOf(ct, i).pf[j]
      BY RecordedIs
<1>2. PICK j \in Held(TftOf(ct, i)) : m = TftOf(ct, i).pf[j]
      BY <1>1
<1>3. PICK k \in Entries(ct) : \E l \in Held(TftOf(ct, k)) : n = TftOf(ct, k).pf[l]
      BY RecordedIs
<1>4. PICK l \in Held(TftOf(ct, k)) : n = TftOf(ct, k).pf[l]
      BY <1>3
<1>5. /\ TftOf(ct, i).id # NoId
      /\ \E x \in Now : /\ x.id = TftOf(ct, i).id /\ x.pdn = tDefaultBearer[ct].id
                        /\ \E f \in May(x) : Holds(cell, m, f)
      BY <1>2, Owned
<1>6. \E x \in Now : /\ x.id = TftOf(ct, k).id /\ x.pdn = tDefaultBearer[ct].id
                     /\ \E f \in May(x) : Holds(cell, n, f)
      BY <1>4, Owned
<1>7a. PICK x \in Now : /\ x.id = TftOf(ct, i).id /\ x.pdn = tDefaultBearer[ct].id
                       /\ \E h \in May(x) : Holds(cell, m, h)
      BY <1>5
<1>7b. PICK f \in May(x) : Holds(cell, m, f)
      BY <1>7a
<1>7. x.id = TftOf(ct, i).id /\ x.pdn = tDefaultBearer[ct].id /\ Holds(cell, m, f)
      BY <1>7a, <1>7b
<1>8a. PICK y \in Now : /\ y.id = TftOf(ct, k).id /\ y.pdn = tDefaultBearer[ct].id
                       /\ \E h \in May(y) : Holds(cell, n, h)
      BY <1>6
<1>8b. PICK g \in May(y) : Holds(cell, n, g)
      BY <1>8a
<1>8. y.id = TftOf(ct, k).id /\ y.pdn = tDefaultBearer[ct].id /\ Holds(cell, n, g)
      BY <1>8a, <1>8b
<1>9. f \in InForce(x) /\ g \in InForce(y) /\ f.prec = g.prec
      BY <1>7, <1>8 DEF May, Holds
<1>10. x = y /\ f = g
      BY <1>7, <1>8, <1>9 DEF LInv, NetSound, Now
<1>11. i = k
  <2>1. TftOf(ct, i).id = TftOf(ct, k).id
        BY <1>7, <1>8, <1>10
  <2> QED BY <1>5, <2>1, IdsApart
<1>12. HasFilters(TftOf(ct, i), cell, Must(x), May(x))
      BY <1>7 DEF LInv, EntriesSound
<1>13. j = l
      BY <1>2, <1>4, <1>7, <1>8, <1>10, <1>11, <1>12 DEF HasFilters, Holds
<1> QED BY <1>2, <1>4, <1>11, <1>13

(* The bearer whose filters are put back into the list.                    *)
LEMMA SortingBearer ==
  ASSUME LInv, cmd.op = "sort"
  PROVE  \E y \in goal :
           /\ y.id = cmd.b /\ (\A z \in goal : z.id = cmd.b => z = y)
           /\ y.tft # {} /\ y.tft \subseteq Filters
           /\ (\A f, g \in y.tft : f.pfid = g.pfid => f = g)
           /\ HasFilters(TftOf(cmd.ct, cmd.idx), cell, y.tft, y.tft)
           /\ \/ ToSet(cmd.fs) \subseteq y.tft
              \/ Pfids(ToSet(cmd.fs)) \cap Pfids(y.tft) = {}
<1>1. Now = goal /\ cmd.op # "none"
      BY DEF Now
<1>2. PICK y \in goal :
        /\ y.id = cmd.b /\ (\A z \in goal : z.id = cmd.b => z = y)
        /\ HasFilters(TftOf(cmd.ct, cmd.idx), cell, Must(y), May(y))
      BY <1>1, OwnBearer
<1>3. /\ y.tft # {}
      /\ \/ ToSet(cmd.fs) \subseteq y.tft
         \/ Pfids(ToSet(cmd.fs)) \cap Pfids(y.tft) = {}
      BY <1>2 DEF LInv, CmdSound
<1>4. Must(y) = y.tft /\ May(y) = y.tft
      BY <1>3 DEF Must, May, InForce
<1>5. y.tft \subseteq Filters /\ \A f, g \in y.tft : f.pfid = g.pfid => f = g
      BY <1>2 DEF LInv, NetSound
<1> QED BY <1>2, <1>3, <1>4, <1>5

(* Every filter on record is in the list again.                            *)
BackIn(r, ct) ==
  /\ r \in Memory /\ r.used = used /\ r.ok = TRUE
  /\ Linked(r.head, r.cell, Recorded(ct))
  /\ SameFilters(r.cell, cell)
  /\ \A z \in Nodes \ Recorded(ct) : r.cell[z] = cell[z]

(* The filters of the message are those of the bearer's cells.             *)
LEMMA SortKnown ==
  ASSUME LInv, cmd.op = "sort", NEW y \in goal, NEW ct, ct = cmd.ct, NEW idx, idx = cmd.idx,
         NEW u, u = TftOf(ct, idx), HasFilters(u, cell, y.tft, y.tft),
         \A f, g \in y.tft : f.pfid = g.pfid => f = g,
         NEW fs, fs = cmd.fs, ToSet(fs) \subseteq y.tft
  PROVE  BackIn(Resorted(Mem(ct), u, fs), ct)
<1>b. PICK b : b = cmd.b
      OBVIOUS
<1>m. PICK m : m = Mem(ct)
      OBVIOUS
<1>R. PICK R : R = Recorded(ct)
      OBVIOUS
<1>G. PICK G : G = Leaving
      OBVIOUS
<1> DEFINE N == Len(fs)
           nd == [k \in 1 .. N |-> NodeOf(u, fs[k])]
           a == Resorted(m, u, fs)
<1>1. cmd.op # "none"
      OBVIOUS
<1>2. /\ fs \in Seq(Filters) /\ N \in Nat /\ DOMAIN fs = 1 .. N
      /\ \A i, j \in 1 .. N : i # j => fs[i].pfid # fs[j].pfid
      /\ \A i \in 1 .. N : fs[i] \in y.tft
  <2>1. /\ fs \in Seq(Filters)
        /\ \A i, j \in DOMAIN fs : i # j => fs[i].pfid # fs[j].pfid
        BY DEF LInv, CmdSound, FilterOps
  <2>2. DOMAIN fs = 1 .. N /\ N \in Nat
        BY <2>1
  <2> QED BY <2>1, <2>2 DEF ToSet
<1>3. ct \in Pdns /\ idx \in Entries(ct) /\ u.id = b
      BY <1>b, <1>1, OwnBearer
<1>4. ASSUME NEW k \in 1 .. N
      PROVE  /\ SlotsWith(u, {fs[k].pfid}) # {}
             /\ NodeIs(NodeOf(u, fs[k]), u, fs[k], ct)
             /\ cell[NodeOf(u, fs[k])].prec = fs[k].prec
  <2>1. fs[k] \in y.tft
        BY <1>2
  <2>2. PICK j \in Held(u) : Holds(cell, u.pf[j], fs[k])
        BY <2>1 DEF HasFilters
  <2>3. j \in SlotsWith(u, {fs[k].pfid})
        BY <2>2 DEF SlotsWith, Held, Holds
  <2>4. NodeIs(NodeOf(u, fs[k]), u, fs[k], ct)
    <3>1. \A f : SlotsWith(u, {f.pfid}) # {} => NodeIs(NodeOf(u, f), u, f, ct)
          BY <1>1, NodeFound
    <3> QED BY <2>3, <3>1, Zenon
  <2>5. u.pf[j] = NodeOf(u, fs[k])
        BY <2>2, <2>4 DEF NodeIs, Holds
  <2> QED BY <2>2, <2>3, <2>4, <2>5 DEF Holds
<1>5. \A k \in 1 .. N :
        /\ \E j \in Held(u) : nd[k] = u.pf[j]
        /\ nd[k] \in R /\ nd[k] \in used
        /\ cell[nd[k]].pfid = fs[k].pfid /\ cell[nd[k]].eps = b
        /\ cell[nd[k]].prec = fs[k].prec
        /\ \A j \in Held(u) : cell[u.pf[j]].pfid = fs[k].pfid => u.pf[j] = nd[k]
  <2> TAKE k \in 1 .. N
  <2>1. nd[k] = NodeOf(u, fs[k])
        OBVIOUS
  <2>2. NodeIs(NodeOf(u, fs[k]), u, fs[k], ct) /\ cell[NodeOf(u, fs[k])].prec = fs[k].prec
        BY <1>4
  <2> HIDE DEF nd
  <2>3. NodeIs(nd[k], u, fs[k], ct) /\ cell[nd[k]].prec = fs[k].prec
        BY <2>1, <2>2
  <2> QED BY <1>b, <1>R, <2>3 DEF NodeIs
<1>n. \A k \in 1 .. N : nd[k] = u.pf[Min(SlotsWith(u, {fs[k].pfid}))]
      BY DEF NodeOf
<1>f. DOMAIN nd = 1 .. N /\ nd = [k \in 1 .. N |-> nd[k]]
      OBVIOUS
<1> HIDE DEF nd
<1>g. \A z : z \in Gone(nd, N) <=> \E i \in 1 .. N : z = nd[i]
      BY DEF Gone
<1>6. G = Gone(nd, N)
  <2>1. \A p : p \in Pfids(ToSet(fs)) <=> \E i \in 1 .. N : p = fs[i].pfid
        BY <1>2 DEF Pfids, ToSet
  <2>2. ASSUME NEW n \in used, cell[n].eps = b, cell[n].pfid \in Pfids(ToSet(fs))
        PROVE  n \in Gone(nd, N)
    <3>1. PICK j \in Held(u) : n = u.pf[j]
          BY <1>b, <1>1, <2>2, OwnNodes
    <3>2. PICK i \in 1 .. N : cell[n].pfid = fs[i].pfid
          BY <2>1, <2>2
    <3>3. n = nd[i]
          BY <1>5, <3>1, <3>2
    <3> QED BY <3>3, <1>g
  <2>3. ASSUME NEW n \in Gone(nd, N)
        PROVE  n \in used /\ cell[n].eps = b /\ cell[n].pfid \in Pfids(ToSet(fs))
        BY <1>5, <1>g, <2>1
  <2>4. Leaving = {n \in used : cell[n].eps = b /\ cell[n].pfid \in Pfids(ToSet(fs))}
        BY <1>b DEF Leaving
  <2> QED BY <1>G, <2>2, <2>3, <2>4
<1>7. /\ m \in Memory /\ m.used = used /\ m.cell = cell /\ m.ok = TRUE
      /\ R \subseteq used /\ Linked(m.head, m.cell, R \ G)
      BY <1>m, <1>R, <1>G, <1>3, MemFacts
<1>8. G \subseteq R /\ (R \ G) \cup G = R
      BY <1>5, <1>6, <1>g
<1>9. Waiting(nd, m, R \ G, u, fs)
  <2>1. nd \in [1 .. N -> m.used]
        BY <1>5, <1>7, <1>f
  <2>2. \A k \in 1 .. N : nd[k] \notin R \ G
        BY <1>6, <1>g
  <2>3. \A i, k \in 1 .. N : nd[i] = nd[k] => i = k
        BY <1>2, <1>5
  <2>4. \A v, w \in (R \ G) \cup Gone(nd, N) : m.cell[v].prec = m.cell[w].prec => v = w
        BY <1>R, <1>3, <1>6, <1>7, <1>8, PrecsApart
  <2>5. \A k \in 1 .. N : /\ SlotsWith(u, {fs[k].pfid}) # {}
                          /\ nd[k] = u.pf[Min(SlotsWith(u, {fs[k].pfid}))]
                          /\ m.cell[nd[k]].prec = fs[k].prec
        BY <1>4, <1>5, <1>7, <1>n
  <2>6. R \ G \subseteq m.used /\ m \in Memory /\ Linked(m.head, m.cell, R \ G)
        BY <1>7
  <2> QED BY <1>2, <2>1, <2>2, <2>3, <2>4, <2>5, <2>6 DEF Waiting
<1>10. Relisted(a, m, R \ G, nd, N)
      BY <1>9, ResortedFacts
<1>11. a = Resorted(Mem(ct), u, fs)
      BY <1>m
<1> HIDE DEF a
<1>12. /\ a \in Memory /\ a.used = used /\ a.ok = TRUE /\ Linked(a.head, a.cell, R)
       /\ SameFilters(a.cell, cell)
       /\ \A z \in Nodes \ R : a.cell[z].next = cell[z].next /\ a.cell[z].prev = cell[z].prev
      BY <1>6, <1>7, <1>8, <1>10 DEF Relisted
<1>13. \A z \in Nodes \ R : a.cell[z] = cell[z]
  <2> TAKE z \in Nodes \ R
  <2>1. a.cell[z] \in Cell /\ cell[z] \in Cell
        BY <1>7, <1>12 DEF Memory
  <2> QED BY <1>12, <2>1 DEF Cell, SameFilters
<1> QED BY <1>R, <1>11, <1>12, <1>13 DEF BackIn

(* The message has no filter of the bearer: there was nothing to replace.  *)
LEMMA SortUnknown ==
  ASSUME LInv, cmd.op = "sort", NEW y \in goal, NEW ct, ct = cmd.ct, NEW idx, idx = cmd.idx,
         NEW u, u = TftOf(ct, idx), HasFilters(u, cell, y.tft, y.tft),
         NEW fs, fs = cmd.fs, Pfids(ToSet(fs)) \cap Pfids(y.tft) = {}
  PROVE  BackIn(Resorted(Mem(ct), u, fs), ct)
<1>b. PICK b : b = cmd.b
      OBVIOUS
<1>1. cmd.op # "none"
      OBVIOUS
<1>2. fs \in Seq(Filters) /\ Len(fs) \in Nat /\ DOMAIN fs = 1 .. Len(fs)
  <2>1. fs \in Seq(Filters)
        BY DEF LInv, CmdSound, FilterOps
  <2> QED BY <2>1
<1>3. ct \in Pdns /\ idx \in Entries(ct) /\ u.id = b
      BY <1>b, <1>1, OwnBearer
<1>4. \A j \in Held(u) : cell[u.pf[j]].pfid \notin Pfids(ToSet(fs))
  <2> TAKE j \in Held(u)
  <2>1. PICK f \in y.tft : Holds(cell, u.pf[j], f)
        BY DEF HasFilters
  <2> QED BY <2>1 DEF Holds, Pfids
<1>5. \A k \in 1 .. Len(fs) : SlotsWith(u, {fs[k].pfid}) = {}
  <2>1. \A k \in 1 .. Len(fs) : fs[k].pfid \in Pfids(ToSet(fs))
        BY <1>2 DEF Pfids, ToSet
  <2> QED BY <1>4, <2>1 DEF SlotsWith, Held
<1>6. Resorted(Mem(ct), u, fs) = Mem(ct)
      BY <1>2, <1>5, ResortedNothing
<1>7. Leaving = {}
  <2>1. ASSUME NEW n \in used, cell[n].eps = b, cell[n].pfid \in Pfids(ToSet(fs))
        PROVE  FALSE
    <3>1. PICK j \in Held(u) : n = u.pf[j]
          BY <1>b, <1>1, <2>1, OwnNodes
    <3> QED BY <1>4, <2>1, <3>1
  <2> QED BY <1>b, <2>1 DEF Leaving
<1>8. /\ Mem(ct) \in Memory /\ Mem(ct).used = used /\ Mem(ct).cell = cell /\ Mem(ct).ok = TRUE
      /\ Linked(Mem(ct).head, Mem(ct).cell, Recorded(ct))
  <2>1. Recorded(ct) \ Leaving = Recorded(ct)
        BY <1>7
  <2>2. /\ Mem(ct) \in Memory /\ Mem(ct).used = used /\ Mem(ct).cell = cell
        /\ Mem(ct).ok = TRUE /\ Linked(Mem(ct).head, Mem(ct).cell, Recorded(ct) \ Leaving)
        BY <1>3, MemFacts
  <2> QED BY <2>1, <2>2
<1>9. SameFilters(cell, cell)
      BY DEF SameFilters
<1> QED BY <1>6, <1>8, <1>9 DEF BackIn

(* Qa_Replace_SortTFT: the filters that were taken out are in again.       *)
LEMMA SortStep ==
  ASSUME LInv, Qa_Replace_SortTFT
  PROVE  LInv'
<1>c. PICK ct : ct = cmd.ct
      OBVIOUS
<1>i. PICK idx : idx = cmd.idx
      OBVIOUS
<1>u. PICK u : u = TftOf(ct, idx)
      OBVIOUS
<1>f. PICK fs : fs = cmd.fs
      OBVIOUS
<1>a. PICK a : a = Resorted(Mem(ct), u, fs)
      OBVIOUS
<1>1. /\ cmd.op = "sort" /\ cmd.op # "none" /\ Commit(ct, a) /\ Done /\ UNCHANGED tables
      BY <1>c, <1>i, <1>u, <1>f, <1>a DEF Qa_Replace_SortTFT
<1>2. PICK y \in goal :
           /\ y.id = cmd.b /\ (\A z \in goal : z.id = cmd.b => z = y)
           /\ y.tft # {}
           /\ (\A f, g \in y.tft : f.pfid = g.pfid => f = g)
           /\ HasFilters(u, cell, y.tft, y.tft)
           /\ \/ ToSet(fs) \subseteq y.tft
              \/ Pfids(ToSet(fs)) \cap Pfids(y.tft) = {}
      BY <1>c, <1>i, <1>u, <1>f, <1>1, SortingBearer
<1>3. BackIn(a, ct)
  <2>1. CASE ToSet(fs) \subseteq y.tft
        BY <1>c, <1>i, <1>u, <1>f, <1>a, <1>1, <1>2, <2>1, SortKnown
  <2>2. CASE Pfids(ToSet(fs)) \cap Pfids(y.tft) = {}
        BY <1>c, <1>i, <1>u, <1>f, <1>a, <1>1, <1>2, <2>2, SortUnknown
  <2> QED BY <1>2, <2>1, <2>2
<1>4. ct \in Pdns /\ idx \in Entries(ct) /\ u.id = cmd.b
      BY <1>c, <1>i, <1>u, <1>1, OwnBearer
<1>5. /\ HeapTyped
      /\ used' = used /\ cell' = a.cell /\ tClassifierTable'[ct] = a.head
      /\ \A d \in Pdns : d # ct => tClassifierTable'[d] = tClassifierTable[d]
  <2>1. /\ a \in Memory /\ a.used = used /\ a.ok = TRUE
        /\ \A z \in Nodes \ Recorded(ct) : a.cell[z] = cell[z]
        BY <1>3 DEF BackIn
  <2>2. (\A z \in Nodes \ used : cell[z] = FreeCell) /\ Recorded(ct) \subseteq used
        BY <1>4, MemFacts DEF LInv, Typed, TypeOK
  <2>3. \A z \in Nodes \ a.used : a.cell[z] = FreeCell
        BY <2>1, <2>2
  <2> QED BY <1>1, <1>4, <2>1, <2>3, CommitTyped
<1>6. \A n \in Nodes : SameFilter(cell[n], cell'[n])
      BY <1>3, <1>5 DEF BackIn, SameFilters, SameFilter
<1>7. used \subseteq Nodes
      BY DEF LInv, Typed, TypeOK
<1>8. CellsKept
      BY <1>6, <1>7 DEF CellsKept
<1>9. /\ Turn(u)
      /\ tDefaultBearer' \in [Pdns -> Tft]
      /\ tDedicatedBearer' \in [Pdns -> [0 .. (MAX_DEDICATED_BEARER_PER_PDN - 1) -> Tft]]
      BY <1>c, <1>i, <1>u, <1>1, SelfTurn
<1>10. Now = goal /\ Now' = goal /\ \A z : Must(z)' = InForce(z) /\ May(z)' = InForce(z)
      BY <1>1 DEF Now, Must, May, InForce, Done, NoCmd
<1>11. NowKept
      BY <1>10 DEF NowKept, Carries
<1>12. \A j \in Held(u) : u.pf[j] \in used /\ cell[u.pf[j]].eps = cmd.b
      BY <1>u, <1>4, Owned
<1>13. OwnHeld(u)
  <2>1. InForce(y) = y.tft
        BY <1>2 DEF InForce
  <2>2. HasFilters(u, cell', y.tft, y.tft)
        BY <1>2, <1>6, <1>7, <1>12, FiltersFrame DEF SameFilter
  <2> QED BY <1>2, <1>10, <2>1, <2>2 DEF OwnHeld
<1>14. OwnNum(u)
      BY <1>u, <1>1, <1>4 DEF LInv, EntriesSound, OwnNum
<1>15. u8MatchAll' = u8MatchAll /\ u8PdnAddress' = u8PdnAddress
      BY <1>1 DEF tables
<1>16. OwnMatchAll(u)
  <2>1. ASSUME idx = DEFAULT PROVE u8MatchAll[ct] = FALSE
    <3>1. tDefaultBearer[ct].id = y.id
          BY <1>u, <1>2, <1>4, <2>1 DEF TftOf
    <3>2. u8MatchAll[ct] \in BOOLEAN
          BY <1>4 DEF LInv, Typed, TypeOK
    <3> QED BY <1>2, <1>4, <1>10, <3>1, <3>2 DEF LInv, EntriesSound
  <2> QED BY <1>c, <1>i, <1>2, <1>10, <1>15, <2>1 DEF OwnMatchAll
<1>17. ListsSound'
  <2>1. Recorded(ct)' = Recorded(ct)
        BY <1>1 DEF Recorded, tables
  <2>2. Leaving' = {}
        BY <1>1 DEF Leaving, Done, NoCmd
  <2>3. \A n \in used : n \notin Recorded(ct) => cell'[n] = cell[n]
        BY <1>3, <1>5, <1>7 DEF BackIn
  <2>4. Linked(tClassifierTable'[ct], cell', Recorded(ct)' \ Leaving')
    <3>1. Recorded(ct)' \ Leaving' = Recorded(ct)
          BY <2>1, <2>2
    <3> QED BY <1>3, <1>5, <3>1 DEF BackIn
  <2>5. \A n : n \in used' <=> \/ n \in used /\ cell[n].eps # cmd.b
                               \/ \E j \in Held(u) : n = u.pf[j]
    <3>1. \A n \in used : cell[n].eps = cmd.b => \E j \in Held(u) : n = u.pf[j]
          BY <1>c, <1>i, <1>u, <1>1, OwnNodes
    <3> QED BY <1>5, <1>12, <3>1
  <2>6. \A d \in Pdns : d # ct => tClassifierTable'[d] = tClassifierTable[d]
        BY <1>5
  <2>7. \A n \in Leaving' : cell[n].eps = cmd.b \/ n \notin used
        BY <2>2
  <2>8. \A v : Turn(v) /\ (\A n : n \in used' <=> \/ n \in used /\ cell[n].eps # cmd.b
                                                  \/ \E j \in Held(v) : n = v.pf[j])
              => ListsSound'
        BY <1>c, <1>1, <2>3, <2>4, <2>6, <2>7, ListsKept
  <2> QED BY <1>9, <2>5, <2>8
<1> QED BY <1>1, <1>5, <1>8, <1>9, <1>11, <1>13, <1>14, <1>15, <1>16, <1>17, DoneTurn

----------------------------------------------------------------------------
(* PDNs come and go.                                                       *)

(* The match-all filter, and its cell in a new PDN.                        *)
MatchAll == [pfid |-> 0, prec |-> 255, dir |-> "BI", flow |-> MATCH_ALL]

MatchAllCell(b) == [FreeCell EXCEPT !.eps = b, !.prec = 255, !.dir = "BI", !.flow = MATCH_ALL]

(* Its cell holds the match-all filter.                                    *)
LEMMA MatchAllTyped ==
  ASSUME NEW b \in Ids
  PROVE  /\ MatchAllCell(b) \in Cell /\ MatchAllCell(b).eps = b
         /\ MatchAllCell(b).pfid = MatchAll.pfid /\ MatchAllCell(b).prec = MatchAll.prec
         /\ MatchAllCell(b).dir = MatchAll.dir /\ MatchAllCell(b).flow = MatchAll.flow
         /\ MatchAllCell(b).next = NULL /\ MatchAllCell(b).prev = NULL
<1>p. PICK p : p = 255
      OBVIOUS
<1>d. PICK d : d = "BI"
      OBVIOUS
<1>f. PICK f : f = MATCH_ALL
      OBVIOUS
<1>1. MatchAllCell(b) = [FreeCell EXCEPT !.eps = b, !.prec = p, !.dir = d, !.flow = f]
      BY <1>p, <1>d, <1>f, Zenon DEF MatchAllCell
<1>2. p \in Nat /\ d \in {"none", "DL", "UL", "BI"} /\ f \in Int
      BY <1>p, <1>d, <1>f DEF MATCH_ALL
<1>w. LET w == [FreeCell EXCEPT !.eps = b, !.prec = p, !.dir = d, !.flow = f]
      IN  /\ w \in Cell /\ w.eps = b /\ w.pfid = 0 /\ w.prec = p /\ w.dir = d
          /\ w.flow = f /\ w.next = NULL /\ w.prev = NULL
      BY <1>2 DEF FreeCell, Cell, Ref
<1>3. LET w == MatchAllCell(b)
      IN  /\ w \in Cell /\ w.eps = b /\ w.pfid = 0 /\ w.prec = 255 /\ w.dir = "BI"
          /\ w.flow = MATCH_ALL /\ w.next = NULL /\ w.prev = NULL
      BY <1>p, <1>d, <1>f, <1>1, <1>w
<1>4. MatchAll.pfid = 0 /\ MatchAll.prec = 255 /\ MatchAll.dir = "BI" /\ MatchAll.flow = MATCH_ALL
      BY DEF MatchAll
<1> QED BY <1>3, <1>4

(* A list of one node.                                                     *)
LEMMA LinkedOne ==
  ASSUME NEW c, NEW n, c[n].prec \in Nat, c[n].next = NULL, c[n].prev = NULL
  PROVE  Linked(n, c, {n})
<1>1. c[n].prec <= c[n].prec
      OBVIOUS
<1>2. After(c, {n}, n, NULL) /\ Before(c, {n}, n, NULL)
      BY <1>1 DEF After, Before
<1> QED BY <1>1, <1>2 DEF Linked

(* While no message is being handled, the network's view is one.           *)
LEMMA IdleFacts ==
  ASSUME LInv, Idle
  PROVE  /\ cmd = NoCmd /\ cmd.op = "none" /\ net = goal /\ Now = net /\ Leaving = {}
         /\ \A x : Must(x) = InForce(x) /\ May(x) = InForce(x)
<1>1. cmd = NoCmd /\ cmd.op = "none"
      BY DEF Idle, NoCmd
<1> QED BY <1>1 DEF LInv, CmdSound, Now, Leaving, Must, May

(* Every bearer of a PDN has its default bearer with it.                   *)
LEMMA PdnKnown ==
  ASSUME LInv, NEW x \in Now
  PROVE  /\ \E y \in Now : y.id = x.pdn /\ y.pdn = x.pdn
         /\ \E ct \in Pdns : tDefaultBearer[ct].id = x.pdn
<1>1. PICK ct \in Pdns : tDefaultBearer[ct].id = x.pdn
      BY DEF LInv, EntriesKnown
<1>2. x.pdn # NoId
  <2>1. x.pdn \in DefaultIds
        BY DEF LInv, NetSound, Now
  <2> QED BY <2>1, QosAgentAssumption
<1>3. DEFAULT \in Entries(ct) /\ TftOf(ct, DEFAULT) = tDefaultBearer[ct]
      BY DEF Entries, TftOf
<1>4. \E y \in Now : y.id = x.pdn /\ y.pdn = x.pdn
      BY <1>1, <1>2, <1>3 DEF LInv, EntriesKnown
<1> QED BY <1>1, <1>4

(* The network's view with a new PDN.                                      *)
LEMMA NetSoundNewPdn ==
  ASSUME LInv, Idle, NEW b \in DefaultIds, NEW a,
         b \notin {x.id : x \in net}
  PROVE  NetSound(net \cup {[id |-> b, pdn |-> b, addr |-> a, tft |-> {}]})
<1>y. PICK y : y = [id |-> b, pdn |-> b, addr |-> a, tft |-> {}]
      OBVIOUS
<1>1. y.id = b /\ y.pdn = b /\ y.tft = {}
      BY <1>y
<1>2. NetSound(net) /\ Now = net
      BY IdleFacts DEF LInv
<1>3. \A x \in net : x.id # b /\ x.pdn # b
      BY <1>2, PdnKnown
<1>4. InForce(y) = {[pfid |-> 0, prec |-> 255, dir |-> "BI", flow |-> MATCH_ALL]}
      BY <1>1 DEF InForce
<1>5. \A f, g \in InForce(y) : f = g
      BY <1>4
<1>6. NetSound(net \cup {y})
  <2>1. ASSUME NEW x \in net \cup {y}
        PROVE  /\ x.tft \subseteq Filters /\ x.pdn \in DefaultIds
               /\ x.id = x.pdn \/ x.id \in DedicatedIds
               /\ \A f, g \in x.tft : f.pfid = g.pfid => f = g
        BY <1>1, <1>2 DEF NetSound
  <2>2. \A x, z \in net \cup {y} : x.id = z.id => x = z
        BY <1>1, <1>2, <1>3 DEF NetSound
  <2>3. ASSUME NEW x \in net \cup {y}, NEW z \in net \cup {y}, x.pdn = z.pdn,
               NEW f \in InForce(x), NEW g \in InForce(z), f.prec = g.prec
        PROVE  x = z /\ f = g
        BY <1>1, <1>2, <1>3, <1>5, <2>3 DEF NetSound
  <2> QED BY <2>1, <2>2, <2>3 DEF NetSound
<1> QED BY <1>y, <1>6

(* A PDN comes: its list is the match-all filter.                          *)
LEMMA NewPdnStep ==
  ASSUME LInv, Idle, NEW ct \in Pdns, NEW b \in DefaultIds, NEW a \in Addrs,
         tDefaultBearer[ct].id = NoId, Fresh(b, a), NewPdn(ct, b, a, a)
  PROVE  LInv'
<1> DEFINE B == 0 .. (MAX_DEDICATED_BEARER_PER_PDN - 1)
           num == u8NumDedicatedBearers
<1>y. PICK y : y = [id |-> b, pdn |-> b, addr |-> a, tft |-> {}]
      OBVIOUS
<1>0. PICK n \in Nodes \ used :
       /\ tDefaultBearer' = [tDefaultBearer EXCEPT ![ct] =
            [id |-> b, num |-> 1, pf |-> [tDefaultBearer[ct].pf EXCEPT ![0] = n]]]
       /\ tClassifierTable' = [tClassifierTable EXCEPT ![ct] = n]
       /\ used' = used \cup {n}
       /\ cell' = [cell EXCEPT ![n] = MatchAllCell(b)]
      BY Zenon DEF NewPdn, MatchAllCell
<1>t. PICK t : t = [id |-> b, num |-> 1, pf |-> [tDefaultBearer[ct].pf EXCEPT ![0] = n]]
      OBVIOUS
<1>1. /\ num' = [num EXCEPT ![ct] = 0] /\ u8MatchAll' = [u8MatchAll EXCEPT ![ct] = TRUE]
      /\ u8PdnAddress' = [u8PdnAddress EXCEPT ![ct] = a]
      /\ goal' = net \cup {y} /\ net' = net \cup {y}
      /\ tDedicatedBearer' = tDedicatedBearer /\ cmd' = cmd /\ halted' = halted
      BY <1>y, Zenon DEF NewPdn
<1>2. /\ cmd = NoCmd /\ cmd.op = "none" /\ net = goal /\ Now = net /\ Leaving = {}
      /\ \A x : Must(x) = InForce(x) /\ May(x) = InForce(x)
      BY IdleFacts
<1>3. /\ Now' = net \cup {y} /\ Leaving' = {}
      /\ \A x : Must(x)' = InForce(x) /\ May(x)' = InForce(x)
      BY <1>1, <1>2 DEF Now, Leaving, Must, May, InForce
<1>4. /\ tDefaultBearer \in [Pdns -> Tft] /\ tDedicatedBearer \in [Pdns -> [B -> Tft]]
      /\ num \in [Pdns -> 0 .. MAX_DEDICATED_BEARER_PER_PDN]
      /\ u8MatchAll \in [Pdns -> BOOLEAN] /\ u8PdnAddress \in [Pdns -> Addrs \cup {NoAddr}]
      /\ tClassifierTable \in [Pdns -> Nodes \cup {NULL}] /\ used \subseteq Nodes
      /\ cell \in [Nodes -> Cell] /\ halted = FALSE
      /\ \A z \in Nodes \ used : cell[z] = FreeCell
      BY DEF LInv, Typed, TypeOK
<1>5. tDefaultBearer[ct] = EmptyTft /\ num[ct] = 0 /\ EntriesKnown /\ EntriesSound
      BY DEF LInv, EntriesKnown
<1>6. b # NoId /\ b \in Ids /\ n \in Nodes /\ n \notin used /\ n # NULL /\ 0 \in Slots
      /\ 1 \in 0 .. MAX_FILTERS_PER_TFT
      BY QosAgentAssumption DEF Ids, Slots
<1>7. /\ t \in Tft /\ t.id = b /\ t.num = 1 /\ Held(t) = {0} /\ t.pf[0] = n
  <2>1. tDefaultBearer[ct].pf \in [Slots -> Nodes \cup {NULL}]
        BY <1>4 DEF Tft
  <2>2. \A j \in Slots : tDefaultBearer[ct].pf[j] = NULL
        BY <1>5 DEF EmptyTft
  <2>3. PICK q : q = [tDefaultBearer[ct].pf EXCEPT ![0] = n]
        OBVIOUS
  <2>4. q \in [Slots -> Nodes \cup {NULL}] /\ \A j \in Slots : q[j] = IF j = 0 THEN n ELSE NULL
        BY <1>6, <2>1, <2>2, <2>3
  <2>5. t = [id |-> b, num |-> 1, pf |-> q]
        BY <1>t, <2>3
  <2>6. t \in Tft /\ t.id = b /\ t.num = 1 /\ t.pf = q
        BY <1>6, <2>4, <2>5 DEF Tft, Ids
  <2> QED BY <1>6, <2>4, <2>6 DEF Held
<1>8. /\ num' = num
      /\ \A d \in Pdns : Entries(d)' = Entries(d)
      /\ Entries(ct) = {DEFAULT}
  <2>1. num' = num
        BY <1>1, <1>4, <1>5
  <2>2. Entries(ct) = {DEFAULT}
        BY <1>5 DEF Entries
  <2> QED BY <2>1, <2>2 DEF Entries
<1>9. \A d \in Pdns : tDefaultBearer'[d] = IF d = ct THEN t ELSE tDefaultBearer[d]
      BY <1>0, <1>4, <1>t
<1>10. \A d \in Pdns : \A k \in Entries(d) : TftOf(d, k)' = IF d = ct THEN t ELSE TftOf(d, k)
      BY <1>1, <1>8, <1>9 DEF TftOf
<1>11. \A x \in net : x.id # b /\ x.pdn # b
      BY <1>2, PdnKnown DEF Fresh
<1>12. \A d \in Pdns : \A k \in Entries(d) : TftOf(d, k).id # b
  <2> TAKE d \in Pdns
  <2> TAKE k \in Entries(d)
  <2>1. TftOf(d, k).id # NoId => \E x \in net : x.id = TftOf(d, k).id
        BY <1>2, <1>5 DEF EntriesKnown
  <2> QED BY <1>6, <1>11, <2>1
<1>13. \A d \in Pdns : DEFAULT \in Entries(d) /\ TftOf(d, DEFAULT) = tDefaultBearer[d]
      BY DEF Entries, TftOf
<1>14. y.id = b /\ y.pdn = b /\ y.tft = {}
      BY <1>y
<1>15. EntriesKnown'
  <2>1. ASSUME NEW d \in Pdns
        PROVE  /\ tDefaultBearer'[d].id \in DefaultIds \cup {NoId}
               /\ tDefaultBearer'[d].id = NoId =>
                    tDefaultBearer'[d] = EmptyTft /\ num'[d] = 0
    <3>1. CASE d = ct
          BY <1>6, <1>7, <1>9, <3>1
    <3>2. CASE d # ct
          BY <1>5, <1>8, <1>9, <3>2 DEF EntriesKnown
    <3> QED BY <3>1, <3>2
  <2>2. ASSUME NEW d \in Pdns, NEW i \in B
        PROVE  IF i < num'[d] THEN tDedicatedBearer'[d][i].id \in DedicatedIds
               ELSE tDedicatedBearer'[d][i] = EmptyTft
        BY <1>1, <1>5, <1>8 DEF EntriesKnown
  <2>3. ASSUME NEW d \in Pdns, NEW i \in Entries(d)', TftOf(d, i)'.id # NoId
        PROVE  \E x \in net \cup {y} : x.id = TftOf(d, i)'.id /\ x.pdn = tDefaultBearer'[d].id
    <3>1. CASE d = ct
          BY <1>7, <1>8, <1>9, <1>10, <1>14, <3>1
    <3>2. CASE d # ct
      <4>1. TftOf(d, i)' = TftOf(d, i) /\ i \in Entries(d)
            BY <1>8, <1>10, <3>2
      <4>2. PICK x \in net : x.id = TftOf(d, i).id /\ x.pdn = tDefaultBearer[d].id
            BY <1>2, <1>5, <2>3, <4>1 DEF EntriesKnown
      <4> QED BY <1>9, <3>2, <4>1, <4>2
    <3> QED BY <3>1, <3>2
  <2>4. ASSUME NEW x \in net \cup {y}
        PROVE  \E d \in Pdns : \E i \in Entries(d)' :
                 tDefaultBearer'[d].id = x.pdn /\ TftOf(d, i)'.id = x.id
    <3>1. CASE x = y
      <4>1. tDefaultBearer'[ct].id = x.pdn /\ TftOf(ct, DEFAULT)'.id = x.id
            /\ DEFAULT \in Entries(ct)'
            BY <1>7, <1>8, <1>9, <1>10, <1>14, <3>1
      <4> QED BY <4>1
    <3>2. CASE x \in net
      <4>1. PICK d \in Pdns : \E i \in Entries(d) :
                 tDefaultBearer[d].id = x.pdn /\ TftOf(d, i).id = x.id
            BY <1>2, <1>5, <3>2 DEF EntriesKnown
      <4>2. d # ct
        <5>1. x.pdn \in DefaultIds
              BY <3>2 DEF LInv, NetSound
        <5> QED BY <4>1, <5>1, QosAgentAssumption
      <4> QED BY <1>8, <1>9, <1>10, <4>1, <4>2
    <3> QED BY <3>1, <3>2
  <2>5. ASSUME NEW c \in Pdns, NEW d \in Pdns, NEW i \in Entries(c)', NEW j \in Entries(d)',
               TftOf(c, i)'.id = TftOf(d, j)'.id, TftOf(c, i)'.id # NoId
        PROVE  c = d /\ i = j
    <3>1. i \in Entries(c) /\ j \in Entries(d)
          BY <1>8
    <3>2. CASE c = ct \/ d = ct
          BY <1>7, <1>8, <1>10, <1>12, <2>5, <3>1, <3>2
    <3>3. CASE c # ct /\ d # ct
      <4>1. TftOf(c, i).id = TftOf(d, j).id /\ TftOf(c, i).id # NoId
            BY <1>10, <2>5, <3>1, <3>3
      <4> QED BY <3>1, <4>1, IdsApart
    <3> QED BY <3>2, <3>3
  <2> QED BY <1>3, <2>1, <2>2, <2>3, <2>4, <2>5 DEF EntriesKnown
<1>16. /\ cell' \in [Nodes -> Cell] /\ cell'[n] = MatchAllCell(b)
       /\ \A z \in Nodes : z # n => cell'[z] = cell[z]
  <2>1. MatchAllCell(b) \in Cell
        BY <1>6, MatchAllTyped
  <2> QED BY <1>0, <1>4, <2>1
<1>17. \A d \in Pdns : \A k \in Entries(d) : \A j \in Held(TftOf(d, k)) :
         TftOf(d, k).pf[j] \in used
      BY Owned
<1>18. HasFilters(t, cell', InForce(y), InForce(y))
  <2>1. InForce(y) = {MatchAll}
        BY <1>14 DEF InForce, MatchAll
  <2>2. Holds(cell', n, MatchAll) /\ cell'[n].eps = b
        BY <1>6, <1>16, MatchAllTyped DEF Holds
  <2> QED BY <1>7, <2>1, <2>2 DEF HasFilters
<1>19. EntriesSound'
  <2>1. ASSUME NEW d \in Pdns, NEW i \in Entries(d)', NEW x \in net \cup {y},
               TftOf(d, i)'.id = x.id
        PROVE  HasFilters(TftOf(d, i)', cell', InForce(x), InForce(x))
    <3>1. i \in Entries(d)
          BY <1>8
    <3>2. CASE d = ct
      <4>1. TftOf(d, i)' = t /\ x.id = b
            BY <1>7, <1>10, <2>1, <3>1, <3>2
      <4>2. x = y
            BY <1>11, <4>1
      <4> QED BY <1>18, <4>1, <4>2
    <3>3. CASE d # ct
      <4>1. TftOf(d, i)' = TftOf(d, i) /\ x \in net
            BY <1>10, <1>12, <1>14, <2>1, <3>1, <3>3
      <4>2. HasFilters(TftOf(d, i), cell, InForce(x), InForce(x))
            BY <1>2, <1>5, <2>1, <3>1, <4>1 DEF EntriesSound
      <4>3. \A j \in Held(TftOf(d, i)) : cell'[TftOf(d, i).pf[j]] = cell[TftOf(d, i).pf[j]]
            BY <1>4, <1>6, <1>16, <1>17, <3>1
      <4>4. HasFilters(TftOf(d, i), cell', InForce(x), InForce(x))
            BY <4>2, <4>3, FiltersFrame
      <4> QED BY <4>1, <4>4
    <3> QED BY <3>2, <3>3
  <2>2. ASSUME NEW d \in Pdns, NEW x \in net \cup {y}, tDefaultBearer'[d].id = x.id
        PROVE  /\ u8MatchAll'[d] <=> x.tft = {}
               /\ u8MatchAll'[d] => Held(tDefaultBearer'[d]) = {0}
    <3>1. CASE d = ct
      <4>1. x = y
            BY <1>7, <1>9, <1>11, <2>2, <3>1
      <4>2. u8MatchAll'[d] = TRUE
            BY <1>1, <1>4, <3>1
      <4> QED BY <1>7, <1>9, <1>14, <3>1, <4>1, <4>2
    <3>2. CASE d # ct
      <4>1. tDefaultBearer'[d] = tDefaultBearer[d] /\ x \in net /\ u8MatchAll'[d] = u8MatchAll[d]
            BY <1>1, <1>4, <1>9, <1>12, <1>13, <1>14, <2>2, <3>2
      <4> QED BY <1>2, <1>5, <2>2, <4>1 DEF EntriesSound
    <3> QED BY <3>1, <3>2
  <2>3. ASSUME NEW d \in Pdns, NEW i \in Entries(d)'
        PROVE  TftOf(d, i)'.num = Cardinality(Held(TftOf(d, i)'))
    <3>1. i \in Entries(d)
          BY <1>8
    <3>2. CASE d = ct
      <4>1. Cardinality({0}) = 1
            BY FS_Singleton
      <4> QED BY <1>7, <1>10, <3>1, <3>2, <4>1
    <3>3. CASE d # ct
      <4>1. TftOf(d, i)' = TftOf(d, i)
            BY <1>10, <3>1, <3>3
      <4>2. TftOf(d, i).num = Cardinality(Held(TftOf(d, i)))
            BY <1>2, <1>5, <3>1 DEF EntriesSound
      <4> QED BY <4>1, <4>2
    <3> QED BY <3>2, <3>3
  <2> QED BY <1>3, <2>1, <2>2, <2>3 DEF EntriesSound
<1>20. ListsSound'
  <2>1. ASSUME NEW d \in Pdns, d # ct
        PROVE  Recorded(d)' = Recorded(d)
    <3>1. \A k \in Entries(d) : TftOf(d, k)' = TftOf(d, k)
          BY <1>10, <2>1
    <3>2. ASSUME NEW z PROVE z \in Recorded(d)' <=> z \in Recorded(d)
      <4>1. z \in Recorded(d) <=>
              \E i \in Entries(d) : \E j \in Held(TftOf(d, i)) : z = TftOf(d, i).pf[j]
            BY RecordedIs
      <4>2. z \in Recorded(d)' <=>
              \E i \in Entries(d)' : \E j \in Held(TftOf(d, i)') : z = TftOf(d, i)'.pf[j]
            BY RecordedWillBe
      <4> QED BY <1>8, <3>1, <4>1, <4>2
    <3> QED BY <3>2
  <2>2. Recorded(ct)' = {n}
    <3>1. ASSUME NEW z PROVE z \in Recorded(ct)' <=> z = n
      <4>1. z \in Recorded(ct)' <=>
              \E i \in Entries(ct)' : \E j \in Held(TftOf(ct, i)') : z = TftOf(ct, i)'.pf[j]
            BY RecordedWillBe
      <4> QED BY <1>7, <1>8, <1>10, <4>1
    <3> QED BY <3>1
  <2>3. Recorded(ct) = {}
    <3>1. ASSUME NEW z \in Recorded(ct) PROVE FALSE
      <4>1. \E i \in Entries(ct) : \E j \in Held(TftOf(ct, i)) : z = TftOf(ct, i).pf[j]
            BY RecordedIs
      <4>2. Held(EmptyTft) = {}
            BY DEF Held, EmptyTft
      <4> QED BY <1>5, <1>8, <1>13, <4>1, <4>2
    <3> QED BY <3>1
  <2>4. /\ \A d \in Pdns : Linked(tClassifierTable[d], cell, Recorded(d) \ Leaving)
        /\ used = UNION {Recorded(d) : d \in Pdns}
        BY DEF LInv, ListsSound
  <2>5. used' = UNION {Recorded(d)' : d \in Pdns}
    <3>1. \A z : z \in used' <=> \E d \in Pdns : z \in Recorded(d)'
          BY <1>0, <2>1, <2>2, <2>3, <2>4
    <3> QED BY <3>1
  <2>6. ASSUME NEW d \in Pdns
        PROVE  Linked(tClassifierTable'[d], cell', Recorded(d)' \ Leaving')
    <3>1. CASE d = ct
      <4>1. cell'[n].prec \in Nat /\ cell'[n].next = NULL /\ cell'[n].prev = NULL
            BY <1>6, <1>16, MatchAllTyped DEF Cell
      <4>2. Linked(n, cell', {n})
            BY <4>1, LinkedOne
      <4>3. tClassifierTable'[ct] = n /\ Recorded(ct)' \ Leaving' = {n}
            BY <1>0, <1>3, <1>4, <2>2
      <4> QED BY <3>1, <4>2, <4>3
    <3>2. CASE d # ct
      <4>1. tClassifierTable'[d] = tClassifierTable[d]
            BY <1>0, <1>4, <3>2
      <4>2. Recorded(d)' \ Leaving' = Recorded(d) /\ Recorded(d) \ Leaving = Recorded(d)
            BY <1>2, <1>3, <2>1, <3>2
      <4>3. \A z \in Recorded(d) : cell'[z] = cell[z]
            BY <1>4, <1>6, <1>16, <2>4
      <4>4. Linked(tClassifierTable[d], cell, Recorded(d))
            BY <2>4, <4>2
      <4>5. Linked(tClassifierTable[d], cell', Recorded(d))
            BY <4>3, <4>4, LinkedFrame
      <4> QED BY <4>1, <4>2, <4>5
    <3> QED BY <3>1, <3>2
  <2> QED BY <2>5, <2>6 DEF ListsSound
<1>21. Typed'
  <2>1. HeapTyped
    <3>1. used' \subseteq Nodes /\ \A z \in Nodes \ used' : cell'[z] = FreeCell
          BY <1>0, <1>4, <1>6, <1>16
    <3>2. tClassifierTable' \in [Pdns -> Nodes \cup {NULL}]
          BY <1>0, <1>4, <1>6
    <3> QED BY <1>1, <1>4, <1>16, <3>1, <3>2 DEF HeapTyped
  <2>2. tDefaultBearer' \in [Pdns -> Tft]
        BY <1>0, <1>4, <1>7, <1>t
  <2>3. /\ tDedicatedBearer' \in [Pdns -> [B -> Tft]]
        /\ num' \in [Pdns -> 0 .. MAX_DEDICATED_BEARER_PER_PDN]
        BY <1>1, <1>4, <1>8
  <2>4. u8MatchAll' \in [Pdns -> BOOLEAN] /\ u8PdnAddress' \in [Pdns -> Addrs \cup {NoAddr}]
        BY <1>1, <1>4
  <2>5. cmd'.op \in {"none", "matchall", "add", "replace", "sort", "delete", "release"}
        BY <1>1, <1>2
  <2> QED BY <2>1, <2>2, <2>3, <2>4, <2>5, TypedAfter
<1>22. NetSound(net') /\ NetSound(goal')
  <2>1. NetSound(net \cup {y})
        BY <1>y, NetSoundNewPdn DEF Fresh
  <2> QED BY <1>1, <2>1
<1>23. CmdSound'
      BY <1>1, <1>2 DEF CmdSound, FilterOps
<1> QED BY <1>15, <1>19, <1>20, <1>21, <1>22, <1>23 DEF LInv

(* A free entry.                                                           *)
LEMMA EmptyTftFacts ==
  /\ EmptyTft \in Tft /\ EmptyTft.id = NoId /\ EmptyTft.num = 0 /\ Held(EmptyTft) = {}
  /\ Cardinality(Held(EmptyTft)) = 0
<1>1. EmptyTft \in Tft
      BY QosAgentAssumption DEF EmptyTft, Tft
<1>2. Held(EmptyTft) = {}
      BY DEF EmptyTft, Held
<1>3. Cardinality({}) = 0
      BY FS_EmptySet
<1> QED BY <1>1, <1>2, <1>3 DEF EmptyTft

(* Identifiers of bearers are not 0.                                       *)
LEMMA BearerIds ==
  ASSUME NEW S, NetSound(S), NEW x \in S
  PROVE  x.id # NoId /\ x.pdn # NoId /\ x.pdn \in DefaultIds
<1>1. x.pdn \in DefaultIds /\ (x.id = x.pdn \/ x.id \in DedicatedIds)
      BY DEF NetSound
<1> QED BY <1>1, QosAgentAssumption

(* A PDN goes with all its bearers and the whole of its list.              *)
LEMMA ReleasePdnStep ==
  ASSUME LInv, Beyond = {}, NEW d, Qa_Bearer_Delete_default(d)
  PROVE  LInv'
<1> DEFINE B == 0 .. (MAX_DEDICATED_BEARER_PER_PDN - 1)
           num == u8NumDedicatedBearers
<1>0. Idle /\ d \in net /\ d.id = d.pdn
      BY DEF Qa_Bearer_Delete_default
<1>1. PICK ct \in Pdns :
       /\ tDefaultBearer[ct].id = d.id
       /\ tDefaultBearer' = [tDefaultBearer EXCEPT ![ct] = EmptyTft]
       /\ tDedicatedBearer' = [tDedicatedBearer EXCEPT ![ct] =
            [i \in DOMAIN tDedicatedBearer[ct] |->
               IF i < num[ct] THEN EmptyTft ELSE tDedicatedBearer[ct][i]]]
       /\ num' = [num EXCEPT ![ct] = 0]
       /\ Commit(ct, [used |-> used \ NodesOf(Mem(ct)),
                      cell |-> [n \in Nodes |-> IF n \in NodesOf(Mem(ct))
                                                THEN FreeCell ELSE cell[n]],
                      head |-> NULL,
                      ok |-> Ends(Mem(ct))])
      BY Zenon DEF Qa_Bearer_Delete_default, Tables
<1>2. /\ goal' = {x \in net : x.pdn # d.id} /\ net' = {x \in net : x.pdn # d.id}
      /\ u8MatchAll' = u8MatchAll /\ u8PdnAddress' = u8PdnAddress /\ cmd' = cmd
  <2>1. AfterTftDelete(d) = {}
        BY DEF AfterTftDelete
  <2>2. goal' = {x \in net : x.pdn # d.id}
        BY <2>1 DEF Qa_Bearer_Delete_default
  <2> QED BY <2>2, Zenon DEF Qa_Bearer_Delete_default
<1>3. /\ cmd = NoCmd /\ cmd.op = "none" /\ net = goal /\ Now = net /\ Leaving = {}
      /\ \A x : Must(x) = InForce(x) /\ May(x) = InForce(x)
      BY <1>0, IdleFacts
<1>4. /\ Now' = net' /\ Leaving' = {}
      /\ \A x : Must(x)' = InForce(x) /\ May(x)' = InForce(x)
      BY <1>2, <1>3 DEF Now, Leaving, Must, May, InForce
<1>n. PICK N : N = net'
      OBVIOUS
<1>5. \A x : x \in N <=> x \in net /\ x.pdn # d.id
      BY <1>2, <1>n
<1>6. /\ tDefaultBearer \in [Pdns -> Tft] /\ tDedicatedBearer \in [Pdns -> [B -> Tft]]
      /\ num \in [Pdns -> 0 .. MAX_DEDICATED_BEARER_PER_PDN]
      /\ u8MatchAll \in [Pdns -> BOOLEAN] /\ u8PdnAddress \in [Pdns -> Addrs \cup {NoAddr}]
      /\ tClassifierTable \in [Pdns -> Nodes \cup {NULL}] /\ used \subseteq Nodes
      /\ cell \in [Nodes -> Cell] /\ halted = FALSE
      /\ \A z \in Nodes \ used : cell[z] = FreeCell
      BY DEF LInv, Typed, TypeOK
<1>7. EntriesKnown /\ EntriesSound /\ NetSound(net)
      BY DEF LInv
<1>8. d.id # NoId
      BY <1>0, <1>7, BearerIds
<1>R. PICK R : R = Recorded(ct)
      OBVIOUS
<1>9. /\ used' = used \ R /\ halted' = FALSE
      /\ cell' = [n \in Nodes |-> IF n \in R THEN FreeCell ELSE cell[n]]
      /\ tClassifierTable' = [tClassifierTable EXCEPT ![ct] = NULL]
  <2>1. /\ Mem(ct) \in Memory /\ R \subseteq Mem(ct).used
        /\ Linked(Mem(ct).head, Mem(ct).cell, R)
    <3>1. Recorded(ct) \ Leaving = R
          BY <1>3, <1>R
    <3>2. /\ Mem(ct) \in Memory /\ Mem(ct).used = used /\ Recorded(ct) \subseteq used
          /\ Linked(Mem(ct).head, Mem(ct).cell, Recorded(ct) \ Leaving)
          BY MemFacts
    <3> QED BY <1>R, <3>1, <3>2
  <2>2. NodesOf(Mem(ct)) = R /\ Ends(Mem(ct)) = TRUE
    <3>1. NodesOf(Mem(ct)) = R /\ Ends(Mem(ct))
          BY <2>1, WalkOrder
    <3> QED BY <3>1 DEF Ends
  <2>3. Commit(ct, [used |-> used \ R,
                    cell |-> [n \in Nodes |-> IF n \in R THEN FreeCell ELSE cell[n]],
                    head |-> NULL, ok |-> TRUE])
        BY <1>1, <2>2
  <2> QED BY <2>3 DEF Commit
<1>10. \A e \in Pdns : tDefaultBearer'[e] = IF e = ct THEN EmptyTft ELSE tDefaultBearer[e]
      BY <1>1, <1>6
<1>11. /\ \A e \in Pdns : e # ct => tDedicatedBearer'[e] = tDedicatedBearer[e]
       /\ \A i \in B : tDedicatedBearer'[ct][i] = EmptyTft
       /\ tDedicatedBearer' \in [Pdns -> [B -> Tft]]
  <2>1. \A i \in B : ~ (i < num[ct]) => tDedicatedBearer[ct][i] = EmptyTft
        BY <1>7 DEF EntriesKnown
  <2>2. DOMAIN tDedicatedBearer[ct] = B
        BY <1>6
  <2>3. PICK q : q = [i \in B |-> IF i < num[ct] THEN EmptyTft ELSE tDedicatedBearer[ct][i]]
        OBVIOUS
  <2>4. \A i \in B : q[i] = EmptyTft
        BY <2>1, <2>3
  <2>5. q \in [B -> Tft]
        BY <2>3, <2>4, EmptyTftFacts
  <2>6. tDedicatedBearer' = [tDedicatedBearer EXCEPT ![ct] = q]
        BY <1>1, <2>2, <2>3
  <2> QED BY <1>6, <2>4, <2>5, <2>6
<1>12. \A e \in Pdns : num'[e] = IF e = ct THEN 0 ELSE num[e]
      BY <1>1, <1>6
<1>13. Entries(ct)' = {DEFAULT} /\ \A e \in Pdns : e # ct => Entries(e)' = Entries(e)
  <2>1. num'[ct] = 0
        BY <1>12
  <2>2. Entries(ct)' = {DEFAULT}
        BY <2>1 DEF Entries
  <2> QED BY <1>12, <2>2 DEF Entries
<1>14. /\ TftOf(ct, DEFAULT)' = EmptyTft
       /\ \A e \in Pdns : e # ct => \A k \in Entries(e) : TftOf(e, k)' = TftOf(e, k)
      BY <1>10, <1>11 DEF TftOf
<1>15. \A e \in Pdns : e # ct => tDefaultBearer[e].id # d.id
  <2> TAKE e \in Pdns
  <2>1. /\ DEFAULT \in Entries(e) /\ TftOf(e, DEFAULT) = tDefaultBearer[e]
        /\ DEFAULT \in Entries(ct) /\ TftOf(ct, DEFAULT) = tDefaultBearer[ct]
        BY DEF Entries, TftOf
  <2> QED BY <1>1, <1>8, <2>1, IdsApart
<1>e. EmptyTft.id = NoId /\ EmptyTft.num = 0 /\ Held(EmptyTft) = {}
      /\ Cardinality(Held(EmptyTft)) = 0 /\ EmptyTft \in Tft
      BY EmptyTftFacts
<1>16. EntriesKnown'
  <2>1. ASSUME NEW e \in Pdns
        PROVE  /\ tDefaultBearer'[e].id \in DefaultIds \cup {NoId}
               /\ tDefaultBearer'[e].id = NoId =>
                    tDefaultBearer'[e] = EmptyTft /\ num'[e] = 0
    <3>1. CASE e = ct
          BY <1>10, <1>12, <1>e, <3>1
    <3>2. CASE e # ct
          BY <1>7, <1>10, <1>12, <3>2 DEF EntriesKnown
    <3> QED BY <3>1, <3>2
  <2>2. ASSUME NEW e \in Pdns, NEW i \in B
        PROVE  IF i < num'[e] THEN tDedicatedBearer'[e][i].id \in DedicatedIds
               ELSE tDedicatedBearer'[e][i] = EmptyTft
    <3>1. CASE e = ct
      <4>1. ~ (i < num'[e])
            BY <1>12, <3>1, QosAgentAssumption
      <4> QED BY <1>11, <3>1, <4>1
    <3>2. CASE e # ct
      <4>1. num'[e] = num[e] /\ tDedicatedBearer'[e] = tDedicatedBearer[e]
            BY <1>11, <1>12, <3>2
      <4>2. IF i < num[e] THEN tDedicatedBearer[e][i].id \in DedicatedIds
               ELSE tDedicatedBearer[e][i] = EmptyTft
            BY <1>7 DEF EntriesKnown
      <4> QED BY <4>1, <4>2
    <3> QED BY <3>1, <3>2
  <2>3. ASSUME NEW e \in Pdns, NEW i \in Entries(e)', TftOf(e, i)'.id # NoId
        PROVE  \E x \in N : x.id = TftOf(e, i)'.id /\ x.pdn = tDefaultBearer'[e].id
    <3>1. e # ct
          BY <1>13, <1>14, <1>e, <2>3
    <3>2. TftOf(e, i)' = TftOf(e, i) /\ i \in Entries(e)
          BY <1>13, <1>14, <3>1
    <3>3. PICK x \in net : x.id = TftOf(e, i).id /\ x.pdn = tDefaultBearer[e].id
          BY <1>3, <1>7, <2>3, <3>2 DEF EntriesKnown
    <3>4. x \in N
          BY <1>5, <1>15, <3>1, <3>3
    <3> QED BY <1>10, <3>1, <3>2, <3>3, <3>4
  <2>4. ASSUME NEW x \in N
        PROVE  \E e \in Pdns : \E i \in Entries(e)' :
                 tDefaultBearer'[e].id = x.pdn /\ TftOf(e, i)'.id = x.id
    <3>1. x \in net /\ x.pdn # d.id
          BY <1>5
    <3>2. PICK e \in Pdns : \E i \in Entries(e) :
                 tDefaultBearer[e].id = x.pdn /\ TftOf(e, i).id = x.id
          BY <1>3, <1>7, <3>1 DEF EntriesKnown
    <3>3. e # ct
          BY <1>1, <3>1, <3>2
    <3> QED BY <1>10, <1>13, <1>14, <3>2, <3>3
  <2>5. ASSUME NEW c \in Pdns, NEW e \in Pdns, NEW i \in Entries(c)', NEW j \in Entries(e)',
               TftOf(c, i)'.id = TftOf(e, j)'.id, TftOf(c, i)'.id # NoId
        PROVE  c = e /\ i = j
    <3>1. c # ct /\ e # ct
          BY <1>13, <1>14, <1>e, <2>5
    <3>2. /\ i \in Entries(c) /\ j \in Entries(e) /\ TftOf(c, i).id = TftOf(e, j).id
          /\ TftOf(c, i).id # NoId
          BY <1>13, <1>14, <2>5, <3>1
    <3> QED BY <3>2, IdsApart
  <2> QED BY <1>4, <1>n, <2>1, <2>2, <2>3, <2>4, <2>5 DEF EntriesKnown
<1>17. \A z \in Nodes : cell'[z] = IF z \in R THEN FreeCell ELSE cell[z]
      BY <1>9
<1>18. \A e \in Pdns : e # ct => \A z \in Recorded(e) :
         z \in Nodes /\ z \in used /\ z \notin R /\ cell'[z] = cell[z]
  <2> TAKE e \in Pdns
  <2> HAVE e # ct
  <2> TAKE z \in Recorded(e)
  <2>1. z \in used /\ z \in Nodes /\ z \notin Recorded(ct)
        BY RecordsApart
  <2> QED BY <1>R, <1>17, <2>1
<1>19. EntriesSound'
  <2>1. ASSUME NEW e \in Pdns, NEW i \in Entries(e)', NEW x \in N, TftOf(e, i)'.id = x.id
        PROVE  HasFilters(TftOf(e, i)', cell', InForce(x), InForce(x))
    <3>1. x \in net /\ x.id # NoId
          BY <1>5, <1>7, BearerIds
    <3>2. e # ct
          BY <1>13, <1>14, <1>e, <2>1, <3>1
    <3>3. i \in Entries(e) /\ TftOf(e, i)' = TftOf(e, i)
          BY <1>13, <1>14, <3>2
    <3>4. HasFilters(TftOf(e, i), cell, InForce(x), InForce(x))
          BY <1>3, <1>7, <2>1, <3>1, <3>3 DEF EntriesSound
    <3>5. \A j \in Held(TftOf(e, i)) : cell'[TftOf(e, i).pf[j]] = cell[TftOf(e, i).pf[j]]
      <4> TAKE j \in Held(TftOf(e, i))
      <4>1. TftOf(e, i).pf[j] \in Recorded(e)
            BY <3>3, Owned
      <4> QED BY <1>18, <3>2, <4>1
    <3>6. HasFilters(TftOf(e, i), cell', InForce(x), InForce(x))
          BY <3>4, <3>5, FiltersFrame
    <3> QED BY <3>3, <3>6
  <2>2. ASSUME NEW e \in Pdns, NEW x \in N, tDefaultBearer'[e].id = x.id
        PROVE  /\ u8MatchAll'[e] <=> x.tft = {}
               /\ u8MatchAll'[e] => Held(tDefaultBearer'[e]) = {0}
    <3>1. x \in net /\ x.id # NoId
          BY <1>5, <1>7, BearerIds
    <3>2. e # ct
          BY <1>10, <1>e, <2>2, <3>1
    <3> QED BY <1>2, <1>3, <1>7, <1>10, <2>2, <3>1, <3>2 DEF EntriesSound
  <2>3. ASSUME NEW e \in Pdns, NEW i \in Entries(e)'
        PROVE  TftOf(e, i)'.num = Cardinality(Held(TftOf(e, i)'))
    <3>1. CASE e = ct
          BY <1>13, <1>14, <1>e, <3>1
    <3>2. CASE e # ct
      <4>1. TftOf(e, i)' = TftOf(e, i) /\ i \in Entries(e)
            BY <1>13, <1>14, <3>2
      <4>2. TftOf(e, i).num = Cardinality(Held(TftOf(e, i)))
            BY <1>3, <1>7, <4>1 DEF EntriesSound
      <4> QED BY <4>1, <4>2
    <3> QED BY <3>1, <3>2
  <2> QED BY <1>4, <1>n, <2>1, <2>2, <2>3 DEF EntriesSound
<1>20. ListsSound'
  <2>1. ASSUME NEW e \in Pdns, e # ct
        PROVE  Recorded(e)' = Recorded(e)
    <3>1. Entries(e)' = Entries(e) /\ \A k \in Entries(e) : TftOf(e, k)' = TftOf(e, k)
          BY <1>13, <1>14, <2>1
    <3>2. ASSUME NEW z PROVE z \in Recorded(e)' <=> z \in Recorded(e)
      <4>1. z \in Recorded(e) <=>
              \E i \in Entries(e) : \E j \in Held(TftOf(e, i)) : z = TftOf(e, i).pf[j]
            BY RecordedIs
      <4>2. z \in Recorded(e)' <=>
              \E i \in Entries(e)' : \E j \in Held(TftOf(e, i)') : z = TftOf(e, i)'.pf[j]
            BY RecordedWillBe
      <4> QED BY <3>1, <4>1, <4>2
    <3> QED BY <3>2
  <2>2. Recorded(ct)' = {}
    <3>1. ASSUME NEW z PROVE z \notin Recorded(ct)'
      <4>1. z \in Recorded(ct)' <=>
              \E i \in Entries(ct)' : \E j \in Held(TftOf(ct, i)') : z = TftOf(ct, i)'.pf[j]
            BY RecordedWillBe
      <4> QED BY <1>13, <1>14, <1>e, <4>1
    <3> QED BY <3>1
  <2>3. /\ \A e \in Pdns : Linked(tClassifierTable[e], cell, Recorded(e) \ Leaving)
        /\ used = UNION {Recorded(e) : e \in Pdns}
        BY DEF LInv, ListsSound
  <2>4. used' = UNION {Recorded(e)' : e \in Pdns}
    <3>1. \A z : z \in used' <=> \E e \in Pdns : z \in Recorded(e)'
      <4>1. ASSUME NEW z \in used' PROVE \E e \in Pdns : z \in Recorded(e)'
        <5>1. PICK e \in Pdns : z \in Recorded(e)
              BY <1>9, <2>3
        <5>2. e # ct
              BY <1>9, <1>R, <5>1
        <5> QED BY <2>1, <5>1, <5>2
      <4>2. ASSUME NEW e \in Pdns, NEW z \in Recorded(e)' PROVE z \in used'
        <5>1. e # ct /\ z \in Recorded(e)
              BY <2>1, <2>2
        <5> QED BY <1>9, <1>18, <5>1
      <4> QED BY <4>1, <4>2
    <3> QED BY <3>1
  <2>5. ASSUME NEW e \in Pdns
        PROVE  Linked(tClassifierTable'[e], cell', Recorded(e)' \ Leaving')
    <3>1. CASE e = ct
      <4>1. tClassifierTable'[ct] = NULL /\ Recorded(ct)' \ Leaving' = {}
            BY <1>6, <1>9, <2>2
      <4>2. Linked(NULL, cell', {})
            BY DEF Linked
      <4> QED BY <3>1, <4>1, <4>2
    <3>2. CASE e # ct
      <4>1. tClassifierTable'[e] = tClassifierTable[e]
            BY <1>6, <1>9, <3>2
      <4>2. Recorded(e)' \ Leaving' = Recorded(e) /\ Recorded(e) \ Leaving = Recorded(e)
            BY <1>3, <1>4, <2>1, <3>2
      <4>3. \A z \in Recorded(e) : cell'[z] = cell[z]
            BY <1>18, <3>2
      <4>4. Linked(tClassifierTable[e], cell, Recorded(e))
            BY <2>3, <4>2
      <4>5. Linked(tClassifierTable[e], cell', Recorded(e))
            BY <4>3, <4>4, LinkedFrame
      <4> QED BY <4>1, <4>2, <4>5
    <3> QED BY <3>1, <3>2
  <2> QED BY <2>4, <2>5 DEF ListsSound
<1>21. Typed'
  <2>1. HeapTyped
    <3>1. FreeCell \in Cell
          BY DEF FreeCell, Cell, Ids, Ref
    <3>2. used' \subseteq Nodes /\ \A z \in Nodes \ used' : cell'[z] = FreeCell
          BY <1>6, <1>9, <1>17
    <3>3. tClassifierTable' \in [Pdns -> Nodes \cup {NULL}]
          BY <1>6, <1>9
    <3>4. cell' \in [Nodes -> Cell]
          BY <1>6, <1>9, <3>1
    <3> QED BY <1>9, <3>2, <3>3, <3>4 DEF HeapTyped
  <2>2. tDefaultBearer' \in [Pdns -> Tft]
        BY <1>1, <1>6, <1>e
  <2>3. num' \in [Pdns -> 0 .. MAX_DEDICATED_BEARER_PER_PDN]
    <3>1. 0 \in 0 .. MAX_DEDICATED_BEARER_PER_PDN
          BY QosAgentAssumption
    <3> QED BY <1>1, <1>6, <3>1
  <2>4. u8MatchAll' \in [Pdns -> BOOLEAN] /\ u8PdnAddress' \in [Pdns -> Addrs \cup {NoAddr}]
        BY <1>2, <1>6
  <2>5. cmd'.op \in {"none", "matchall", "add", "replace", "sort", "delete", "release"}
        BY <1>2, <1>3
  <2> QED BY <1>11, <2>1, <2>2, <2>3, <2>4, <2>5, TypedAfter
<1>22. NetSound(net') /\ NetSound(goal')
  <2>1. NetSound(N)
        BY <1>5, <1>7 DEF NetSound
  <2> QED BY <1>2, <1>n, <2>1
<1>23. CmdSound'
      BY <1>2, <1>3 DEF CmdSound, FilterOps
<1> QED BY <1>16, <1>19, <1>20, <1>21, <1>22, <1>23 DEF LInv

----------------------------------------------------------------------------
(* Messages begin. The network keeps the TFT rules, so its view after the  *)
(* message is sound too.                                                   *)

(* The filters of one message.                                             *)
LEMMA BatchFacts ==
  ASSUME NEW fs \in Batches
  PROVE  /\ fs \in Seq(Filters) /\ fs # << >>
         /\ \A i, j \in DOMAIN fs : i # j => fs[i].pfid # fs[j].pfid
         /\ ToSet(fs) \subseteq Filters /\ ToSet(fs) # {}
         /\ \A f, g \in ToSet(fs) : f.pfid = g.pfid => f = g
         /\ \A f, g \in ToSet(fs) : f.prec = g.prec => f = g
<1>1. PICK n \in 1 .. MaxBatch : fs \in [1 .. n -> Filters]
      BY DEF Batches
<1>2. \A i, j \in DOMAIN fs : i # j => fs[i].pfid # fs[j].pfid /\ fs[i].prec # fs[j].prec
      BY DEF Batches
<1>3. n \in Nat /\ n # 0
      BY <1>1, QosAgentAssumption
<1>4. fs \in Seq(Filters) /\ fs # << >> /\ 1 \in DOMAIN fs
      BY <1>1, <1>3
<1>5. ToSet(fs) \subseteq Filters
      BY <1>1 DEF ToSet
<1>6. fs[1] \in ToSet(fs)
      BY <1>4 DEF ToSet
<1> QED BY <1>2, <1>4, <1>5, <1>6 DEF ToSet

(* Their precedences are new to the PDN.                                   *)
LEMMA PrecsAway ==
  ASSUME NEW x, NEW fs, NEW kept, PrecsFree(x, fs, kept), NEW f \in ToSet(fs)
  PROVE  /\ \A g \in kept : g.prec # f.prec
         /\ \A z \in net : z.pdn = x.pdn /\ z # x => \A g \in z.tft : g.prec # f.prec
<1>1. f.prec \in Precs(ToSet(fs))
      BY DEF Precs
<1>2. ASSUME NEW g \in kept PROVE g.prec # f.prec
      BY <1>1 DEF PrecsFree, Precs
<1>3. ASSUME NEW z \in net, z.pdn = x.pdn, z # x, NEW g \in z.tft PROVE g.prec # f.prec
  <2> DEFINE U == UNION {y.tft : y \in {w \in net : w.pdn = x.pdn /\ w # x}}
  <2>1. g \in U
        BY <1>3
  <2>2. g.prec \in Precs(kept \cup U)
        BY <2>1 DEF Precs
  <2> QED BY <1>1, <2>2 DEF PrecsFree
<1> QED BY <1>2, <1>3

(* Filters and the match-all filter have different precedences.            *)
LEMMA ForceFacts ==
  ASSUME NEW S, NetSound(S), NEW z \in S
  PROVE  /\ z.tft \subseteq Filters
         /\ \A g \in InForce(z) : g \in z.tft \/ g.prec = 255
         /\ z.tft # {} => InForce(z) = z.tft
         /\ z.id # z.pdn => InForce(z) = z.tft
         /\ \A g \in z.tft : g \in InForce(z)
         /\ \A f \in Filters : f.prec # 255
<1>1. z.tft \subseteq Filters
      BY DEF NetSound
<1>2. \A f \in Filters : f.prec # 255
  <2> TAKE f \in Filters
  <2>1. f.prec \in 0 .. 254
        BY QosAgentAssumption
  <2> QED BY <2>1
<1> QED BY <1>1, <1>2 DEF InForce

(* A bearer with new filters T: new ones, and some it has had.             *)
NewFilters(S, x, T, new) ==
  /\ T \subseteq x.tft \cup new /\ new \subseteq Filters
  /\ T # {} \/ x.id # x.pdn
  /\ \A f, g \in T : f.pfid = g.pfid => f = g
  /\ \A f \in new \cap T : \A g \in T : f.prec = g.prec => f = g
  /\ \A f \in new : \A z \in S : z.pdn = x.pdn /\ z # x => \A g \in z.tft : g.prec # f.prec

(* The network's view with a bearer's new filters keeps the TFT rules.     *)
LEMMA NetSoundTft ==
  ASSUME NEW S, NetSound(S), NEW x \in S, NEW T, NEW new, NewFilters(S, x, T, new),
         NEW y, y.id = x.id, y.pdn = x.pdn, y.tft = T
  PROVE  NetSound((S \ {x}) \cup {y})
<1>1. T \subseteq Filters /\ InForce(y) = T
  <2>1. x.tft \subseteq Filters
        BY ForceFacts
  <2> QED BY <2>1 DEF NewFilters, InForce
<1>2. \A z \in S : z.id = x.id => z = x
      BY DEF NetSound
<1>3. ASSUME NEW f \in T, NEW g \in T, f.prec = g.prec PROVE f = g
  <2>1. CASE f \in new \/ g \in new
        BY <1>3, <2>1 DEF NewFilters
  <2>2. CASE f \in x.tft /\ g \in x.tft
    <3>1. f \in InForce(x) /\ g \in InForce(x)
          BY <2>2, ForceFacts
    <3> QED BY <1>3, <3>1 DEF NetSound
  <2> QED BY <2>1, <2>2 DEF NewFilters
<1>4. ASSUME NEW z \in S, z # x, z.pdn = x.pdn, NEW f \in T, NEW g \in InForce(z)
      PROVE  f.prec # g.prec
  <2>1. g \in z.tft \/ g.prec = 255
        BY ForceFacts
  <2>2. CASE g.prec = 255
    <3>1. f.prec # 255
          BY <1>1, ForceFacts
    <3> QED BY <2>2, <3>1
  <2>3. CASE f \in new /\ g \in z.tft
        BY <1>4, <2>3 DEF NewFilters
  <2>4. CASE f \in x.tft
    <3>1. f \in InForce(x)
          BY <2>4, ForceFacts
    <3> QED BY <1>4, <3>1 DEF NetSound
  <2> QED BY <2>1, <2>2, <2>3, <2>4 DEF NewFilters
<1> DEFINE U == (S \ {x}) \cup {y}
<1>5. ASSUME NEW z \in U
      PROVE  /\ z.tft \subseteq Filters /\ z.pdn \in DefaultIds
             /\ z.id = z.pdn \/ z.id \in DedicatedIds
             /\ \A f, g \in z.tft : f.pfid = g.pfid => f = g
      BY <1>1 DEF NetSound, NewFilters
<1>6. \A v, w \in U : v.id = w.id => v = w
      BY <1>2 DEF NetSound
<1>7. ASSUME NEW v \in U, NEW w \in U, v.pdn = w.pdn,
             NEW f \in InForce(v), NEW g \in InForce(w), f.prec = g.prec
      PROVE  v = w /\ f = g
  <2>1. CASE v = y /\ w = y
        BY <1>1, <1>3, <1>7, <2>1
  <2>2. CASE v = y /\ w # y
    <3>1. w \in S /\ w # x /\ w.pdn = x.pdn /\ f \in T
          BY <1>1, <1>7, <2>2
    <3> QED BY <1>4, <1>7, <3>1
  <2>3. CASE v # y /\ w = y
    <3>1. v \in S /\ v # x /\ v.pdn = x.pdn /\ g \in T
          BY <1>1, <1>7, <2>3
    <3> QED BY <1>4, <1>7, <3>1
  <2>4. CASE v # y /\ w # y
        BY <1>7, <2>4 DEF NetSound
  <2> QED BY <2>1, <2>2, <2>3, <2>4
<1> QED BY <1>5, <1>6, <1>7 DEF NetSound

(* A bearer is found in the table of its PDN.                              *)
LEMMA BearerFound ==
  ASSUME LInv, Idle, NEW x \in net, NEW ct \in Tables(x.pdn)
  PROVE  /\ ct \in Pdns /\ IndexOf(x, ct) \in Entries(ct)
         /\ TftOf(ct, IndexOf(x, ct)).id = x.id /\ x.id # NoId
         /\ x.id = x.pdn <=> IndexOf(x, ct) = DEFAULT
         /\ x.id # x.pdn => /\ BearerIndex(ct, x.id) # u8NumDedicatedBearers[ct]
                            /\ IndexOf(x, ct) = BearerIndex(ct, x.id)
<1> DEFINE num == u8NumDedicatedBearers[ct]
           S == {i \in 0 .. (num - 1) : tDedicatedBearer[ct][i].id = x.id}
<1>1. Now = net /\ NetSound(net)
      BY IdleFacts DEF LInv
<1>2. x.id # NoId /\ x.pdn # NoId
      BY <1>1, BearerIds
<1>3. ct \in Pdns /\ tDefaultBearer[ct].id = x.pdn
      BY DEF Tables
<1>4. PICK c \in Pdns : \E i \in Entries(c) :
        tDefaultBearer[c].id = x.pdn /\ TftOf(c, i).id = x.id
      BY <1>1 DEF LInv, EntriesKnown
<1>5. \A e \in Pdns : DEFAULT \in Entries(e) /\ TftOf(e, DEFAULT) = tDefaultBearer[e]
      BY DEF Entries, TftOf
<1>6. c = ct
      BY <1>2, <1>3, <1>4, <1>5, IdsApart
<1>7. PICK i \in Entries(ct) : TftOf(ct, i).id = x.id
      BY <1>4, <1>6
<1>8. CASE x.id = x.pdn
      BY <1>2, <1>3, <1>5, <1>8 DEF IndexOf
<1>9. CASE x.id # x.pdn
  <2>1. i # DEFAULT
        BY <1>3, <1>5, <1>7, <1>9
  <2>2. i \in 0 .. (num - 1) /\ num \in Nat
    <3>1. num \in 0 .. MAX_DEDICATED_BEARER_PER_PDN
          BY <1>3 DEF LInv, Typed, TypeOK
    <3> QED BY <1>7, <2>1, <3>1, QosAgentAssumption DEF Entries
  <2>3. TftOf(ct, i) = tDedicatedBearer[ct][i]
        BY <2>1 DEF TftOf
  <2>4. i \in S
        BY <1>7, <2>2, <2>3
  <2>5. BearerIndex(ct, x.id) = Min(S \cup {num})
        BY DEF BearerIndex
  <2>6. S \cup {num} \subseteq Nat
        BY <2>2
  <2>k. PICK k : k = Min(S \cup {num})
        OBVIOUS
  <2>7. k \in S \cup {num} /\ k <= i
        BY <2>4, <2>6, <2>k, FirstOf
  <2>8. k \in S
        BY <2>2, <2>7
  <2>9. k \in 0 .. (num - 1) /\ tDedicatedBearer[ct][k].id = x.id /\ k # DEFAULT /\ k # num
        BY <2>2, <2>8 DEF DEFAULT
  <2>10. k \in Entries(ct) /\ TftOf(ct, k) = tDedicatedBearer[ct][k]
        BY <2>9 DEF Entries, TftOf
  <2>11. IndexOf(x, ct) = k /\ BearerIndex(ct, x.id) = k
        BY <1>9, <2>5, <2>k DEF IndexOf
  <2> QED BY <1>2, <1>3, <1>9, <2>9, <2>10, <2>11
<1> QED BY <1>8, <1>9

(* A bearer as a message that has just begun will leave it, and as it is:  *)
(* the tables do not yet show the difference.                              *)
Begins(z, x, must, may) ==
  /\ z.id = x.id /\ z.pdn = x.pdn
  /\ z.id = z.pdn => (z.tft = {} <=> x.tft = {})
  /\ may = InForce(x) /\ must \subseteq InForce(x)

(* A message that changes neither the tables nor the lists as it begins.   *)
LEMMA StartTurn ==
  ASSUME LInv, Idle, UNCHANGED <<tables, list>>,
         cmd'.op \in {"none", "matchall", "add", "replace", "delete", "release"},
         \A z \in Now' : \E x \in net : Begins(z, x, Must(z)', May(z)'),
         \A x \in net : \E z \in Now' : z.id = x.id /\ z.pdn = x.pdn
  PROVE  Typed' /\ EntriesKnown' /\ EntriesSound' /\ ListsSound'
<1>1. /\ tDefaultBearer' = tDefaultBearer /\ tDedicatedBearer' = tDedicatedBearer
      /\ u8NumDedicatedBearers' = u8NumDedicatedBearers /\ u8MatchAll' = u8MatchAll
      /\ u8PdnAddress' = u8PdnAddress
      /\ tClassifierTable' = tClassifierTable /\ used' = used /\ cell' = cell
      /\ halted' = halted
      BY DEF tables, list
<1>2. /\ cmd = NoCmd /\ cmd.op = "none" /\ net = goal /\ Now = net /\ Leaving = {}
      /\ \A x : Must(x) = InForce(x) /\ May(x) = InForce(x)
      BY IdleFacts
<1>3. /\ \A d : Entries(d)' = Entries(d) /\ Recorded(d)' = Recorded(d)
      /\ \A d, i : TftOf(d, i)' = TftOf(d, i)
      BY <1>1 DEF Entries, TftOf, Recorded
<1>4. Leaving' = {}
      BY DEF Leaving
<1>5. Typed /\ EntriesKnown /\ EntriesSound /\ ListsSound
      BY DEF LInv
<1>6. Typed'
  <2>1. TypeOK' 
        BY <1>1, <1>5 DEF Typed, TypeOK
  <2> QED BY <1>1, <1>5, <2>1 DEF Typed
<1>7. ListsSound'
      BY <1>1, <1>2, <1>3, <1>4, <1>5 DEF ListsSound
<1>8. EntriesKnown'
  <2>1. ASSUME NEW ct \in Pdns
        PROVE  /\ tDefaultBearer'[ct].id \in DefaultIds \cup {NoId}
               /\ tDefaultBearer'[ct].id = NoId =>
                    tDefaultBearer'[ct] = EmptyTft /\ u8NumDedicatedBearers'[ct] = 0
               /\ \A i \in 0 .. (MAX_DEDICATED_BEARER_PER_PDN - 1) :
                    IF i < u8NumDedicatedBearers'[ct]
                    THEN tDedicatedBearer'[ct][i].id \in DedicatedIds
                    ELSE tDedicatedBearer'[ct][i] = EmptyTft
        BY <1>1, <1>5 DEF EntriesKnown
  <2>2. ASSUME NEW ct \in Pdns, NEW i \in Entries(ct)', TftOf(ct, i)'.id # NoId
        PROVE  \E z \in Now' : z.id = TftOf(ct, i)'.id /\ z.pdn = tDefaultBearer'[ct].id
    <3>1. PICK x \in net : x.id = TftOf(ct, i).id /\ x.pdn = tDefaultBearer[ct].id
          BY <1>2, <1>3, <1>5, <2>2 DEF EntriesKnown
    <3> QED BY <1>1, <1>3, <3>1
  <2>3. ASSUME NEW z \in Now'
        PROVE  \E ct \in Pdns : \E i \in Entries(ct)' :
                 tDefaultBearer'[ct].id = z.pdn /\ TftOf(ct, i)'.id = z.id
    <3>1. PICK x \in net : z.id = x.id /\ z.pdn = x.pdn
          BY DEF Begins
    <3>2. \E ct \in Pdns : \E i \in Entries(ct) :
            tDefaultBearer[ct].id = x.pdn /\ TftOf(ct, i).id = x.id
          BY <1>2, <1>5 DEF EntriesKnown
    <3> QED BY <1>1, <1>3, <3>1, <3>2
  <2>4. \A c, d \in Pdns : \A i \in Entries(c)', j \in Entries(d)' :
          TftOf(c, i)'.id = TftOf(d, j)'.id /\ TftOf(c, i)'.id # NoId => c = d /\ i = j
        BY <1>3, <1>5 DEF EntriesKnown
  <2> QED BY <2>1, <2>2, <2>3, <2>4 DEF EntriesKnown
<1>9. EntriesSound'
  <2>1. ASSUME NEW ct \in Pdns, NEW i \in Entries(ct)', NEW z \in Now', TftOf(ct, i)'.id = z.id
        PROVE  HasFilters(TftOf(ct, i)', cell', Must(z)', May(z)')
    <3>1. PICK x \in net : Begins(z, x, Must(z)', May(z)')
          OBVIOUS
    <3>2. HasFilters(TftOf(ct, i), cell, InForce(x), InForce(x))
          BY <1>2, <1>3, <1>5, <2>1, <3>1 DEF EntriesSound, Begins
    <3>3. HasFilters(TftOf(ct, i), cell, Must(z)', May(z)')
          BY <3>1, <3>2 DEF HasFilters, Begins
    <3> QED BY <1>1, <1>3, <3>3
  <2>2. ASSUME NEW ct \in Pdns, NEW z \in Now', tDefaultBearer'[ct].id = z.id
        PROVE  /\ u8MatchAll'[ct] <=> z.tft = {}
               /\ u8MatchAll'[ct] => Held(tDefaultBearer'[ct]) = {0}
    <3>1. PICK x \in net : Begins(z, x, Must(z)', May(z)')
          OBVIOUS
    <3>2. x.id = tDefaultBearer[ct].id
          BY <1>1, <2>2, <3>1 DEF Begins
    <3>3. tDefaultBearer[ct].id \in DefaultIds \cup {NoId}
          BY <1>5 DEF EntriesKnown
    <3>4. x.id = x.pdn \/ x.id \in DedicatedIds
          BY DEF LInv, NetSound
    <3>5. x.id = x.pdn
      <4>1. x.id \notin DedicatedIds
            BY <3>2, <3>3, QosAgentAssumption
      <4> QED BY <3>4, <4>1
    <3>6. z.tft = {} <=> x.tft = {}
          BY <3>1, <3>5 DEF Begins
    <3>7. (u8MatchAll[ct] <=> x.tft = {}) /\ (u8MatchAll[ct] => Held(tDefaultBearer[ct]) = {0})
          BY <1>2, <1>5, <3>2 DEF EntriesSound
    <3> QED BY <1>1, <3>6, <3>7
  <2>3. ASSUME NEW ct \in Pdns, NEW i \in Entries(ct)'
        PROVE  TftOf(ct, i)'.num = Cardinality(Held(TftOf(ct, i)'))
    <3>1. TftOf(ct, i).num = Cardinality(Held(TftOf(ct, i)))
          BY <1>2, <1>3, <1>5 DEF EntriesSound
    <3> QED BY <1>3, <3>1
  <2> QED BY <2>1, <2>2, <2>3 DEF EntriesSound
<1> QED BY <1>6, <1>7, <1>8, <1>9

(* A bearer with other filters.                                            *)
LEMMA OtherTft ==
  ASSUME IInv, NEW x \in net, NEW T
  PROVE  \E y : /\ y = [x EXCEPT !.tft = T]
                /\ y.id = x.id /\ y.pdn = x.pdn /\ y.tft = T
<1>1. x = [id |-> x.id, pdn |-> x.pdn, addr |-> x.addr, tft |-> x.tft]
      BY DEF IInv, Agree, AgreeOn
<1>a. PICK i, p, a, t : i = x.id /\ p = x.pdn /\ a = x.addr /\ t = x.tft
      OBVIOUS
<1>2. x = [id |-> i, pdn |-> p, addr |-> a, tft |-> t]
      BY <1>1, <1>a
<1>3. [x EXCEPT !.tft = T] = [id |-> i, pdn |-> p, addr |-> a, tft |-> T]
      BY <1>2
<1>y. PICK y : y = [x EXCEPT !.tft = T]
      OBVIOUS
<1>4. y.id = i /\ y.pdn = p /\ y.tft = T
      BY <1>3, <1>y
<1> QED BY <1>a, <1>y, <1>4

(* The handler of a message about a bearer works on the bearer's entry.    *)
Working(x, op, ct, fs, pfids) ==
  /\ cmd'.op = op /\ cmd'.b = x.id /\ cmd'.ct = ct /\ cmd'.idx = IndexOf(x, ct)
  /\ cmd'.fs = fs /\ cmd'.pfids = pfids

(* It does: the bearer of a message is found.                              *)
LEMMA StartCmd ==
  ASSUME LInv, Idle, UNCHANGED <<tables, list>>, UNCHANGED net, NEW x \in net,
         NEW ct \in Tables(x.pdn), NEW op, NEW fs, NEW pfids,
         Begin(op, ct, IndexOf(x, ct), x.id, fs, pfids),
         \A z : z.id # x.id => (z \in goal' <=> z \in net)
  PROVE  /\ Working(x, op, ct, fs, pfids)
         /\ cmd'.ct \in Pdns /\ cmd'.idx \in Entries(cmd.ct)'
         /\ TftOf(cmd.ct, cmd.idx)'.id = cmd'.b /\ cmd'.b # NoId
         /\ \A z \in net' \cup goal' : z.id # cmd'.b => (z \in net' <=> z \in goal')
<1>i. PICK i : i = IndexOf(x, ct)
      OBVIOUS
<1>1. cmd' = [op |-> op, ct |-> ct, idx |-> i, b |-> x.id, fs |-> fs, pfids |-> pfids]
      BY <1>i DEF Begin
<1>2. Working(x, op, ct, fs, pfids)
      BY <1>1, <1>i DEF Working
<1>3. ct \in Pdns /\ i \in Entries(ct) /\ TftOf(ct, i).id = x.id /\ x.id # NoId
      BY <1>i, BearerFound
<1>4. cmd'.ct = ct /\ cmd'.idx = i /\ cmd'.b = x.id
      BY <1>1
<1>5. Entries(cmd.ct)' = Entries(ct)
      BY <1>4 DEF Entries, tables
<1>6. TftOf(cmd.ct, cmd.idx)' = TftOf(ct, i)
      BY <1>4 DEF TftOf, tables
<1> QED BY <1>2, <1>3, <1>4, <1>5, <1>6

(* DELETE_PKT_FLTR begins.                                                 *)
LEMMA DeleteStart ==
  ASSUME LInv, IInv, Beyond = {}, NEW x \in net, NEW pfids \in SUBSET Pfids(x.tft),
         delete_pkt_fltr(x, pfids)
  PROVE  LInv'
<1>T. PICK T : T = {f \in x.tft : f.pfid \notin pfids}
      OBVIOUS
<1>y. PICK y : y = [x EXCEPT !.tft = T] /\ y.id = x.id /\ y.pdn = x.pdn /\ y.tft = T
      BY OtherTft
<1>1. /\ Idle /\ x.id # x.pdn /\ UNCHANGED <<tables, list>> /\ net' = net
      /\ goal' = (net \ {x}) \cup {y}
      BY <1>T, <1>y DEF delete_pkt_fltr, Goal
<1>2. PICK ct \in Tables(x.pdn) : Begin("delete", ct, IndexOf(x, ct), x.id, << >>, pfids)
      BY DEF delete_pkt_fltr
<1>3. NetSound(net) /\ \A z \in net : z.id = x.id => z = x
      BY DEF LInv, NetSound
<1>4. \A z : z.id # x.id => (z \in goal' <=> z \in net)
      BY <1>1, <1>y
<1>5. /\ Working(x, "delete", ct, << >>, pfids)
      /\ cmd'.ct \in Pdns /\ cmd'.idx \in Entries(cmd.ct)'
      /\ TftOf(cmd.ct, cmd.idx)'.id = cmd'.b /\ cmd'.b # NoId
      /\ \A z \in net' \cup goal' : z.id # cmd'.b => (z \in net' <=> z \in goal')
      BY <1>1, <1>2, <1>4, StartCmd
<1>6. cmd'.op = "delete" /\ cmd'.b = x.id /\ cmd'.pfids = pfids /\ cmd'.idx = IndexOf(x, ct)
      BY <1>5 DEF Working
<1>7. IndexOf(x, ct) # DEFAULT
      BY <1>1, BearerFound
<1>8. Now' = net
      BY <1>1, <1>6 DEF Now
<1>9. ASSUME NEW z \in net
      PROVE  Begins(z, z, Must(z)', May(z)')
  <2>1. May(z)' = InForce(z)
        BY <1>6 DEF May, InForce
  <2>2. Must(z)' = IF z.id = x.id THEN {f \in z.tft : f.pfid \notin pfids} ELSE InForce(z)
        BY <1>6, <2>1 DEF Must
  <2>3. z.tft \subseteq InForce(z)
        BY <1>3, ForceFacts
  <2> QED BY <2>1, <2>2, <2>3 DEF Begins
<1>10. Typed' /\ EntriesKnown' /\ EntriesSound' /\ ListsSound'
      BY <1>1, <1>6, <1>8, <1>9, StartTurn
<1>11. NetSound(goal')
  <2>1. NewFilters(net, x, T, {})
        BY <1>1, <1>3, <1>T DEF NewFilters, NetSound
  <2> QED BY <1>1, <1>3, <1>y, <2>1, NetSoundTft
<1>12. CmdSound'
  <2>1. \A z \in net : z.id = x.id =>
          \E w \in goal' : Carries(w, z) /\ w.tft = {f \in z.tft : f.pfid \notin pfids}
        BY <1>1, <1>3, <1>T, <1>y DEF Carries
  <2> QED BY <1>1, <1>5, <1>6, <1>7, <2>1 DEF CmdSound, FilterOps
<1> QED BY <1>1, <1>3, <1>10, <1>11, <1>12 DEF LInv

(* The network's view without a dedicated bearer.                          *)
LEMMA NetSoundLess ==
  ASSUME NEW S, NetSound(S), NEW R, R \subseteq S
  PROVE  NetSound(R)
BY DEF NetSound

(* The release of the last dedicated bearer begins.                        *)
LEMMA ReleaseStart ==
  ASSUME LInv, IInv, Beyond = {}, NEW x \in net, Qa_Bearer_Delete(x)
  PROVE  LInv'
<1>1. /\ Idle /\ x.id # x.pdn /\ UNCHANGED <<tables, list>> /\ goal' = net \ {x}
      BY DEF Qa_Bearer_Delete
<1>i. PICK ct \in Tables(x.pdn) :
         /\ BearerIndex(ct, x.id) + 1 = u8NumDedicatedBearers[ct]
         /\ IF BearerIndex(ct, x.id) = u8NumDedicatedBearers[ct]
            THEN net' = goal' /\ UNCHANGED cmd
            ELSE Begin("release", ct, BearerIndex(ct, x.id), x.id, << >>, {}) /\ UNCHANGED net
      BY DEF Qa_Bearer_Delete
<1>2. /\ BearerIndex(ct, x.id) # u8NumDedicatedBearers[ct]
      /\ IndexOf(x, ct) = BearerIndex(ct, x.id) /\ IndexOf(x, ct) # DEFAULT
      /\ IndexOf(x, ct) \in Entries(ct) /\ ct \in Pdns
      BY <1>1, BearerFound
<1>3. net' = net /\ Begin("release", ct, IndexOf(x, ct), x.id, << >>, {})
      BY <1>i, <1>2
<1>4. NetSound(net) /\ \A z \in net : z.id = x.id => z = x
      BY DEF LInv, NetSound
<1>5. \A z : z.id # x.id => (z \in goal' <=> z \in net)
      BY <1>1
<1>6. /\ Working(x, "release", ct, << >>, {})
      /\ cmd'.ct \in Pdns /\ cmd'.idx \in Entries(cmd.ct)'
      /\ TftOf(cmd.ct, cmd.idx)'.id = cmd'.b /\ cmd'.b # NoId
      /\ \A z \in net' \cup goal' : z.id # cmd'.b => (z \in net' <=> z \in goal')
      BY <1>1, <1>3, <1>5, StartCmd
<1>7. /\ cmd'.op = "release" /\ cmd'.b = x.id /\ cmd'.ct = ct /\ cmd'.idx = IndexOf(x, ct)
      BY <1>6 DEF Working
<1>8. Now' = net
      BY <1>3, <1>7 DEF Now
<1>9. ASSUME NEW z \in net
      PROVE  Begins(z, z, Must(z)', May(z)')
  <2>1. May(z)' = InForce(z)
        BY <1>7 DEF May, InForce
  <2>2. Must(z)' = IF z.id = x.id THEN {} ELSE InForce(z)
        BY <1>7, <2>1 DEF Must
  <2> QED BY <2>1, <2>2 DEF Begins
<1>10. Typed' /\ EntriesKnown' /\ EntriesSound' /\ ListsSound'
      BY <1>1, <1>7, <1>8, <1>9, StartTurn
<1>11. NetSound(goal')
      BY <1>1, <1>4, NetSoundLess
<1>12. IndexOf(x, ct) = u8NumDedicatedBearers'[ct] - 1
  <2>1. u8NumDedicatedBearers' = u8NumDedicatedBearers
        BY <1>1 DEF tables
  <2>2. u8NumDedicatedBearers[ct] \in Int
        BY <1>2 DEF IInv, Shapes
  <2>3. PICK k : k = BearerIndex(ct, x.id)
        OBVIOUS
  <2>4. k \in Int
    <3>1. k \in Entries(ct) /\ k # DEFAULT
          BY <1>2, <2>3
    <3> QED BY <3>1 DEF Entries
  <2>5. k + 1 = u8NumDedicatedBearers[ct]
        BY <1>i, <2>3
  <2>6. k = u8NumDedicatedBearers'[ct] - 1
        BY <2>1, <2>2, <2>4, <2>5
  <2> QED BY <1>2, <2>3, <2>6
<1>13. CmdSound'
  <2>1. \A w \in goal' : w.id # x.id
        BY <1>1, <1>4
  <2> QED BY <1>2, <1>6, <1>7, <1>12, <2>1 DEF CmdSound, FilterOps
<1> QED BY <1>3, <1>4, <1>10, <1>11, <1>13 DEF LInv

(* REPLACE_PKT_FLTR begins, with filters the bearer has, or with none of   *)
(* them.                                                                   *)
LEMMA ReplaceStart ==
  ASSUME LInv, IInv, Beyond = {}, NEW x \in net, NEW fs \in Batches,
         replace_pkt_fltr(x, fs)
  PROVE  LInv'
<1>P. PICK P : P = Pfids(ToSet(fs))
      OBVIOUS
<1>F. PICK F : F = ToSet(fs)
      OBVIOUS
<1>K. PICK K : K = {f \in x.tft : f.pfid \notin P}
      OBVIOUS
<1>y. PICK y : /\ y = [x EXCEPT !.tft = K \cup F]
               /\ y.id = x.id /\ y.pdn = x.pdn /\ y.tft = K \cup F
      BY OtherTft
<1>1. /\ Idle /\ UNCHANGED <<tables, list>> /\ net' = net /\ x.tft # {}
      /\ F \cap x.tft = {}
      BY <1>F DEF replace_pkt_fltr
<1>2. PICK ct \in Tables(x.pdn) : Begin("replace", ct, IndexOf(x, ct), x.id, fs, {})
      BY DEF replace_pkt_fltr
<1>3. NetSound(net) /\ \A z \in net : z.id = x.id => z = x
      BY DEF LInv, NetSound
<1>4. x.tft \ {f \in x.tft : f.pfid \in P} = K
      BY <1>K
<1>5. PrecsFree(x, fs, K)
      BY <1>4, <1>P DEF replace_pkt_fltr
<1>6. \/ P \subseteq Pfids(x.tft) /\ goal' = (net \ {x}) \cup {y}
      \/ P \cap Pfids(x.tft) = {} /\ goal' = net
  <2>1. P \ Pfids(x.tft) \in {{}, P}
        BY <1>P DEF replace_pkt_fltr
  <2>2. CASE P \ Pfids(x.tft) = {}
    <3>1. Goal(x, (x.tft \ {f \in x.tft : f.pfid \in P}) \cup F)
          BY <1>P, <1>F, <2>2 DEF replace_pkt_fltr
    <3>2. Goal(x, K \cup F)
          BY <1>4, <3>1
    <3> QED BY <1>y, <2>2, <3>2 DEF Goal
  <2>3. CASE P \ Pfids(x.tft) # {}
    <3>1. goal' = goal
          BY <1>P, <2>3 DEF replace_pkt_fltr
    <3>2. goal = net
          BY <1>1, IdleFacts
    <3> QED BY <2>1, <2>3, <3>1, <3>2
  <2> QED BY <2>2, <2>3
<1>7. \A z : z.id # x.id => (z \in goal' <=> z \in net)
      BY <1>6, <1>y
<1>8. /\ Working(x, "replace", ct, fs, {})
      /\ cmd'.ct \in Pdns /\ cmd'.idx \in Entries(cmd.ct)'
      /\ TftOf(cmd.ct, cmd.idx)'.id = cmd'.b /\ cmd'.b # NoId
      /\ \A z \in net' \cup goal' : z.id # cmd'.b => (z \in net' <=> z \in goal')
      BY <1>1, <1>2, <1>7, StartCmd
<1>9. cmd'.op = "replace" /\ cmd'.b = x.id /\ cmd'.fs = fs
      BY <1>8 DEF Working
<1>10. Now' = net
      BY <1>1, <1>9 DEF Now
<1>11. ASSUME NEW z \in net
      PROVE  Begins(z, z, Must(z)', May(z)')
  <2>1. May(z)' = InForce(z)
        BY <1>9 DEF May, InForce
  <2>2. Must(z)' = InForce(z)
        BY <1>9, <2>1 DEF Must
  <2> QED BY <2>1, <2>2 DEF Begins
<1>12. Typed' /\ EntriesKnown' /\ EntriesSound' /\ ListsSound'
      BY <1>1, <1>9, <1>10, <1>11, StartTurn
<1>13. /\ fs \in Seq(Filters) /\ fs # << >>
       /\ \A i, j \in DOMAIN fs : i # j => fs[i].pfid # fs[j].pfid
       /\ F \subseteq Filters /\ F # {}
       /\ \A f, g \in F : f.pfid = g.pfid => f = g
       /\ \A f, g \in F : f.prec = g.prec => f = g
      BY <1>F, BatchFacts
<1>14. NetSound(goal')
  <2>1. CASE goal' = net
        BY <1>3, <2>1
  <2>2. CASE goal' = (net \ {x}) \cup {y}
    <3>1. \A f \in F : /\ \A g \in K : g.prec # f.prec
                       /\ \A z \in net : z.pdn = x.pdn /\ z # x => \A g \in z.tft : g.prec # f.prec
          BY <1>5, <1>F, PrecsAway
    <3>2. \A f \in K, g \in F : f.pfid # g.pfid
          BY <1>K, <1>P, <1>F DEF Pfids
    <3>3. \A f, g \in K : f.pfid = g.pfid => f = g
          BY <1>3, <1>K DEF NetSound
    <3>4. K \subseteq x.tft
          BY <1>K
    <3>5. NewFilters(net, x, K \cup F, F)
          BY <1>13, <3>1, <3>2, <3>3, <3>4 DEF NewFilters
    <3>6. NetSound((net \ {x}) \cup {y})
          BY <1>3, <1>y, <3>5, NetSoundTft
    <3> QED BY <2>2, <3>6
  <2> QED BY <1>6, <2>1, <2>2
<1>15. CmdSound'
  <2>1. \A z \in net : z.id = x.id =>
          /\ z.tft # {}
          /\ \E w \in goal' :
              /\ Carries(w, z)
              /\ \/ /\ P \subseteq Pfids(z.tft)
                    /\ w.tft = {f \in z.tft : f.pfid \notin P} \cup F
                 \/ w = z /\ P \cap Pfids(z.tft) = {}
    <3> SUFFICES /\ x.tft # {}
                 /\ \E w \in goal' :
                    /\ Carries(w, x)
                    /\ \/ /\ P \subseteq Pfids(x.tft)
                          /\ w.tft = {f \in x.tft : f.pfid \notin P} \cup F
                       \/ w = x /\ P \cap Pfids(x.tft) = {}
        BY <1>3
    <3>1. CASE P \subseteq Pfids(x.tft) /\ goal' = (net \ {x}) \cup {y}
          BY <1>1, <1>K, <1>y, <3>1 DEF Carries
    <3>2. CASE P \cap Pfids(x.tft) = {} /\ goal' = net
          BY <1>1, <3>2 DEF Carries
    <3> QED BY <1>6, <3>1, <3>2
  <2>2. \A z \in net : z.id = x.id => z.tft \cap F = {}
        BY <1>1, <1>3
  <2>3. cmd'.op \in FilterOps =>
       /\ cmd'.fs \in Seq(Filters) /\ cmd'.fs # << >>
       /\ \A i, j \in DOMAIN cmd'.fs : i # j => cmd'.fs[i].pfid # cmd'.fs[j].pfid
       /\ \A z \in net' : z.id = cmd'.b => z.tft \cap ToSet(cmd'.fs) = {}
        BY <1>1, <1>9, <1>13, <1>F, <2>2
  <2>4. cmd'.op = "replace" =>
       \A z \in net' : z.id = cmd'.b =>
         /\ z.tft # {}
         /\ \E w \in goal' :
              /\ Carries(w, z)
              /\ \/ /\ Pfids(ToSet(cmd'.fs)) \subseteq Pfids(z.tft)
                    /\ w.tft = {f \in z.tft : f.pfid \notin Pfids(ToSet(cmd'.fs))}
                                 \cup ToSet(cmd'.fs)
                 \/ w = z /\ Pfids(ToSet(cmd'.fs)) \cap Pfids(z.tft) = {}
        BY <1>1, <1>9, <1>F, <1>P, <2>1
  <2> QED BY <1>8, <1>9, <2>3, <2>4 DEF CmdSound
<1> QED BY <1>1, <1>3, <1>12, <1>14, <1>15 DEF LInv

(* ADD_PKT_FLTR begins; with its first filters a default bearer loses the  *)
(* match-all filter.                                                       *)
LEMMA AddStart ==
  ASSUME LInv, IInv, NEW x \in net, NEW fs \in Batches, add_pkt_fltr(x, fs)
  PROVE  LInv'
<1>F. PICK F : F = ToSet(fs)
      OBVIOUS
<1>y. PICK y : /\ y = [x EXCEPT !.tft = x.tft \cup F]
               /\ y.id = x.id /\ y.pdn = x.pdn /\ y.tft = x.tft \cup F
      BY OtherTft
<1>1. /\ Idle /\ UNCHANGED <<tables, list>> /\ net' = net
      /\ Pfids(F) \cap Pfids(x.tft) = {} /\ PrecsFree(x, fs, x.tft)
      /\ goal' = (net \ {x}) \cup {y}
      BY <1>F, <1>y DEF add_pkt_fltr, Goal
<1>2. PICK ct \in Tables(x.pdn) :
        Begin(IF x.id = x.pdn /\ u8MatchAll[ct] THEN "matchall" ELSE "add",
             ct, IndexOf(x, ct), x.id, fs, {})
      BY DEF add_pkt_fltr
<1>o. PICK op : op = IF x.id = x.pdn /\ u8MatchAll[ct] THEN "matchall" ELSE "add"
      OBVIOUS
<1>3. NetSound(net) /\ \A z \in net : z.id = x.id => z = x
      BY DEF LInv, NetSound
<1>4. \A z : z.id # x.id => (z \in goal' <=> z \in net)
      BY <1>1, <1>y
<1>5. /\ Working(x, op, ct, fs, {})
      /\ cmd'.ct \in Pdns /\ cmd'.idx \in Entries(cmd.ct)'
      /\ TftOf(cmd.ct, cmd.idx)'.id = cmd'.b /\ cmd'.b # NoId
      /\ \A z \in net' \cup goal' : z.id # cmd'.b => (z \in net' <=> z \in goal')
      BY <1>1, <1>2, <1>4, <1>o, StartCmd
<1>6. /\ cmd'.op = op /\ cmd'.b = x.id /\ cmd'.fs = fs /\ cmd'.idx = IndexOf(x, ct)
      BY <1>5 DEF Working
<1>7. op \in {"matchall", "add"}
      BY <1>o
<1>8. /\ fs \in Seq(Filters) /\ fs # << >>
      /\ \A i, j \in DOMAIN fs : i # j => fs[i].pfid # fs[j].pfid
      /\ F \subseteq Filters /\ F # {}
      /\ \A f, g \in F : f.pfid = g.pfid => f = g
      /\ \A f, g \in F : f.prec = g.prec => f = g
      BY <1>F, BatchFacts
<1>9. \A f \in F, g \in x.tft : f.pfid # g.pfid
      BY <1>1 DEF Pfids
<1>10. F \cap x.tft = {}
      BY <1>9
<1>11. x.id = x.pdn => (u8MatchAll[ct] <=> x.tft = {})
  <2>1. ct \in Pdns /\ tDefaultBearer[ct].id = x.pdn
        BY DEF Tables
  <2>2. Now = net
        BY <1>1, IdleFacts
  <2> QED BY <2>1, <2>2 DEF LInv, EntriesSound
<1>12. Typed' /\ EntriesKnown' /\ EntriesSound' /\ ListsSound'
  <2>1. CASE op = "matchall"
    <3>1. Now' = net
          BY <1>1, <1>6, <2>1 DEF Now
    <3>2. ASSUME NEW z \in net PROVE Begins(z, z, Must(z)', May(z)')
      <4>1. May(z)' = InForce(z)
            BY <1>6, <2>1 DEF May, InForce
      <4>2. Must(z)' = InForce(z)
            BY <1>6, <2>1, <4>1 DEF Must
      <4> QED BY <4>1, <4>2 DEF Begins
    <3> QED BY <1>1, <1>6, <2>1, <3>1, <3>2, StartTurn
  <2>2. CASE op = "add"
    <3>1. Now' = goal'
          BY <1>6, <2>2 DEF Now
    <3>2. x.id # x.pdn \/ x.tft # {}
          BY <1>11, <1>o, <2>2
    <3>3. InForce(y) = y.tft /\ InForce(x) = x.tft
          BY <1>8, <1>y, <3>2 DEF InForce
    <3>4. ASSUME NEW z PROVE May(z)' = IF z.id = x.id THEN InForce(z) \ F ELSE InForce(z)
          BY <1>6, <1>F, <2>2 DEF May, InForce
    <3>5. ASSUME NEW z PROVE Must(z)' = May(z)'
          BY <1>6, <2>2 DEF Must
    <3>6. Begins(y, x, Must(y)', May(y)')
      <4>1. May(y)' = InForce(x)
            BY <1>10, <1>y, <3>3, <3>4
      <4> QED BY <1>8, <1>y, <3>2, <3>5, <4>1 DEF Begins
    <3>7. ASSUME NEW z \in net, z # x PROVE Begins(z, z, Must(z)', May(z)')
      <4>1. z.id # x.id
            BY <1>3, <3>7
      <4>2. May(z)' = InForce(z)
            BY <3>4, <4>1
      <4> QED BY <3>5, <4>2 DEF Begins
    <3>8. \A z \in Now' : \E w \in net : Begins(z, w, Must(z)', May(z)')
          BY <1>1, <3>1, <3>6, <3>7
    <3>9. \A w \in net : \E z \in Now' : z.id = w.id /\ z.pdn = w.pdn
          BY <1>1, <1>y, <3>1
    <3> QED BY <1>1, <1>6, <2>2, <3>8, <3>9, StartTurn
  <2> QED BY <1>7, <2>1, <2>2
<1>13. NetSound(goal')
  <2>1. \A f \in F : /\ \A g \in x.tft : g.prec # f.prec
                     /\ \A z \in net : z.pdn = x.pdn /\ z # x => \A g \in z.tft : g.prec # f.prec
        BY <1>1, <1>F, PrecsAway
  <2>2. \A f, g \in x.tft : f.pfid = g.pfid => f = g
        BY <1>3 DEF NetSound
  <2>3. NewFilters(net, x, x.tft \cup F, F)
        BY <1>8, <1>9, <2>1, <2>2 DEF NewFilters
  <2>4. NetSound((net \ {x}) \cup {y})
        BY <1>3, <1>y, <2>3, NetSoundTft
  <2> QED BY <1>1, <2>4
<1>14. CmdSound'
  <2>1. cmd'.op \in FilterOps =>
       /\ cmd'.fs \in Seq(Filters) /\ cmd'.fs # << >>
       /\ \A i, j \in DOMAIN cmd'.fs : i # j => cmd'.fs[i].pfid # cmd'.fs[j].pfid
       /\ \A z \in net' : z.id = cmd'.b => z.tft \cap ToSet(cmd'.fs) = {}
        BY <1>1, <1>3, <1>6, <1>8, <1>10, <1>F
  <2>2. cmd'.op = "matchall" =>
       /\ cmd'.idx = DEFAULT
       /\ \A z \in net' : z.id = cmd'.b =>
            z.tft = {} /\ \E w \in goal' : Carries(w, z) /\ w.tft = ToSet(cmd'.fs)
    <3> SUFFICES ASSUME op = "matchall"
                 PROVE  /\ IndexOf(x, ct) = DEFAULT
                        /\ x.tft = {} /\ Carries(y, x) /\ y.tft = F /\ y \in goal'
        BY <1>1, <1>3, <1>6, <1>F
    <3>1. x.id = x.pdn /\ u8MatchAll[ct]
          BY <1>o
    <3>2. x.tft = {}
          BY <1>11, <3>1
    <3>3. IndexOf(x, ct) = DEFAULT
          BY <3>1 DEF IndexOf
    <3> QED BY <1>1, <1>y, <3>2, <3>3 DEF Carries
  <2>3. cmd'.op = "add" => \A w \in goal' : w.id = cmd'.b => ToSet(cmd'.fs) \subseteq w.tft
    <3>1. \A w \in goal' : w.id = x.id => w = y
          BY <1>1, <1>3
    <3> QED BY <1>6, <1>F, <1>y, <3>1
  <2>4. cmd'.op \in {"matchall", "add"}
        BY <1>6, <1>7
  <2> QED BY <1>5, <2>1, <2>2, <2>3, <2>4 DEF CmdSound
<1> QED BY <1>1, <1>3, <1>12, <1>13, <1>14 DEF LInv

(* The network's view with a new dedicated bearer.                         *)
LEMMA NetSoundNewBearer ==
  ASSUME NEW d \in net, NetSound(net), NEW fs \in Batches, PrecsFree(d, fs, d.tft),
         NEW y, y.id \in DedicatedIds, y.pdn = d.pdn, y.tft = ToSet(fs),
         \A z \in net : z.id # y.id
  PROVE  NetSound(net \cup {y}) /\ InForce(y) = y.tft
<1>1. d.pdn \in DefaultIds
      BY DEF NetSound
<1>2. y.id # y.pdn /\ InForce(y) = y.tft
  <2>1. y.id # y.pdn
        BY <1>1, QosAgentAssumption
  <2> QED BY <2>1 DEF InForce
<1>3. /\ y.tft \subseteq Filters
      /\ \A f, g \in y.tft : f.pfid = g.pfid => f = g
      /\ \A f, g \in y.tft : f.prec = g.prec => f = g
      BY BatchFacts
<1>4. ASSUME NEW z \in net, z.pdn = d.pdn, NEW f \in y.tft, NEW g \in InForce(z)
      PROVE  f.prec # g.prec
  <2>1. g \in z.tft \/ g.prec = 255
        BY ForceFacts
  <2>2. f.prec # 255
        BY <1>3, ForceFacts
  <2>3. (z = d => \A h \in d.tft : h.prec # f.prec)
        /\ (z # d => \A h \in z.tft : h.prec # f.prec)
        BY <1>4, PrecsAway
  <2> QED BY <2>1, <2>2, <2>3
<1> DEFINE U == net \cup {y}
<1>5. ASSUME NEW z \in U
      PROVE  /\ z.tft \subseteq Filters /\ z.pdn \in DefaultIds
             /\ z.id = z.pdn \/ z.id \in DedicatedIds
             /\ \A f, g \in z.tft : f.pfid = g.pfid => f = g
      BY <1>1, <1>3 DEF NetSound
<1>6. \A v, w \in U : v.id = w.id => v = w
      BY DEF NetSound
<1>7. ASSUME NEW v \in U, NEW w \in U, v.pdn = w.pdn,
             NEW f \in InForce(v), NEW g \in InForce(w), f.prec = g.prec
      PROVE  v = w /\ f = g
  <2>1. CASE v = y /\ w = y
        BY <1>2, <1>3, <1>7, <2>1
  <2>2. CASE v = y /\ w # y
        BY <1>2, <1>4, <1>7, <2>2
  <2>3. CASE v # y /\ w = y
        BY <1>2, <1>4, <1>7, <2>3
  <2>4. CASE v # y /\ w # y
        BY <1>7, <2>4 DEF NetSound
  <2> QED BY <2>1, <2>2, <2>3, <2>4
<1> QED BY <1>2, <1>5, <1>6, <1>7 DEF NetSound

(* CREATE_NEW_TFT begins: the next entry is the bearer's, and empty.       *)
LEMMA CreateStart ==
  ASSUME LInv, NEW d \in net, NEW b \in DedicatedIds, NEW fs \in Batches,
         create_new_tft(d, b, fs)
  PROVE  LInv'
<1> DEFINE B == 0 .. (MAX_DEDICATED_BEARER_PER_PDN - 1)
           num == u8NumDedicatedBearers
<1>F. PICK F : F = ToSet(fs)
      OBVIOUS
<1>y. PICK y : y = [id |-> b, pdn |-> d.id, addr |-> d.addr, tft |-> F]
      OBVIOUS
<1>0. /\ Idle /\ d.id = d.pdn /\ b \notin {x.id : x \in net} /\ PrecsFree(d, fs, d.tft)
      /\ goal' = net \cup {y} /\ net' = net
      /\ tDefaultBearer' = tDefaultBearer /\ u8MatchAll' = u8MatchAll
      /\ u8PdnAddress' = u8PdnAddress /\ tClassifierTable' = tClassifierTable
      /\ used' = used /\ cell' = cell /\ halted' = halted
      BY <1>F, <1>y DEF create_new_tft, list
<1>ct. PICK ct \in Tables(d.id) :
         /\ num[ct] < MAX_DEDICATED_BEARER_PER_PDN
         /\ tDedicatedBearer' = [tDedicatedBearer EXCEPT ![ct][num[ct]].id = b]
         /\ num' = [num EXCEPT ![ct] = num[ct] + 1]
         /\ Begin("add", ct, num[ct], b, fs, {})
      BY DEF create_new_tft
<1>i. PICK i : i = num[ct]
      OBVIOUS
<1>1. ct \in Pdns /\ tDefaultBearer[ct].id = d.id
      BY DEF Tables
<1>2. /\ cmd = NoCmd /\ cmd.op = "none" /\ net = goal /\ Now = net /\ Leaving = {}
      /\ \A x : Must(x) = InForce(x) /\ May(x) = InForce(x)
      BY <1>0, IdleFacts
<1>3. /\ cmd'.op = "add" /\ cmd'.ct = ct /\ cmd'.idx = i /\ cmd'.b = b /\ cmd'.fs = fs
      BY <1>ct, <1>i DEF Begin
<1>4. /\ tDefaultBearer \in [Pdns -> Tft] /\ tDedicatedBearer \in [Pdns -> [B -> Tft]]
      /\ num \in [Pdns -> 0 .. MAX_DEDICATED_BEARER_PER_PDN]
      /\ u8MatchAll \in [Pdns -> BOOLEAN] /\ u8PdnAddress \in [Pdns -> Addrs \cup {NoAddr}]
      /\ tClassifierTable \in [Pdns -> Nodes \cup {NULL}] /\ used \subseteq Nodes
      /\ cell \in [Nodes -> Cell] /\ halted = FALSE
      /\ \A z \in Nodes \ used : cell[z] = FreeCell
      BY DEF LInv, Typed, TypeOK
<1>5. EntriesKnown /\ EntriesSound /\ ListsSound /\ NetSound(net)
      BY DEF LInv
<1>6. i \in B /\ i \in Nat /\ i + 1 \in 0 .. MAX_DEDICATED_BEARER_PER_PDN /\ i # DEFAULT
      /\ MAX_DEDICATED_BEARER_PER_PDN \in Nat
  <2>1. MAX_DEDICATED_BEARER_PER_PDN \in Nat
        BY QosAgentAssumption
  <2>2. num[ct] \in 0 .. MAX_DEDICATED_BEARER_PER_PDN /\ num[ct] < MAX_DEDICATED_BEARER_PER_PDN
        BY <1>ct, <1>1, <1>4
  <2> QED BY <1>i, <2>1, <2>2 DEF DEFAULT
<1>7. tDedicatedBearer[ct][i] = EmptyTft
  <2>1. ~ (i < num[ct])
        BY <1>i, <1>6
  <2> QED BY <1>1, <1>5, <1>6, <2>1 DEF EntriesKnown
<1>t. PICK t : t = [EmptyTft EXCEPT !.id = b]
      OBVIOUS
<1>8. b # NoId /\ b \in Ids /\ b \notin DefaultIds
      BY QosAgentAssumption DEF Ids
<1>9. t \in Tft /\ t.id = b /\ t.num = 0 /\ Held(t) = {}
  <2>1. EmptyTft \in Tft /\ EmptyTft.num = 0 /\ Held(EmptyTft) = {}
        BY EmptyTftFacts
  <2>2. t \in Tft /\ t.id = b /\ t.num = EmptyTft.num /\ t.pf = EmptyTft.pf
        BY <1>8, <1>t, <2>1 DEF Tft, Ids
  <2> QED BY <2>1, <2>2 DEF Held
<1>10. /\ tDedicatedBearer' = [tDedicatedBearer EXCEPT ![ct][i] = t]
       /\ num' = [num EXCEPT ![ct] = i + 1]
  <2>1. tDedicatedBearer' = [tDedicatedBearer EXCEPT ![ct][i].id = b]
        BY <1>ct, <1>i
  <2>2. [tDedicatedBearer[ct][i] EXCEPT !.id = b] = t
        BY <1>7, <1>t
  <2> QED BY <1>ct, <1>i, <2>1, <2>2
<1>11. /\ tDedicatedBearer' \in [Pdns -> [B -> Tft]]
       /\ num' \in [Pdns -> 0 .. MAX_DEDICATED_BEARER_PER_PDN]
       /\ \A e \in Pdns : \A k \in B : tDedicatedBearer'[e][k] =
            IF e = ct /\ k = i THEN t ELSE tDedicatedBearer[e][k]
       /\ \A e \in Pdns : num'[e] = IF e = ct THEN i + 1 ELSE num[e]
      BY <1>1, <1>4, <1>6, <1>9, <1>10
<1>12. \A e \in Pdns : \A k : k \in Entries(e)' <=> (k \in Entries(e) \/ (e = ct /\ k = i))
  <2> TAKE e \in Pdns
  <2>1. CASE e = ct
    <3>1. \A k : k \in 0 .. (num'[ct] - 1) <=> (k \in 0 .. (num[ct] - 1) \/ k = i)
          BY <1>1, <1>6, <1>11, <1>i
    <3> QED BY <2>1, <3>1 DEF Entries
  <2>2. CASE e # ct
        BY <1>11, <2>2 DEF Entries
  <2> QED BY <2>1, <2>2
<1>13. /\ \A e \in Pdns : \A k \in Entries(e) : TftOf(e, k)' = TftOf(e, k)
       /\ TftOf(ct, i)' = t /\ i \notin Entries(ct)
  <2>1. i \notin Entries(ct)
        BY <1>6, <1>i DEF Entries
  <2>2. ASSUME NEW e \in Pdns, NEW k \in Entries(e) PROVE TftOf(e, k)' = TftOf(e, k)
    <3>1. CASE k = DEFAULT
          BY <1>0, <3>1 DEF TftOf
    <3>2. CASE k # DEFAULT
      <4>1. k \in 0 .. (num[e] - 1)
            BY <3>2 DEF Entries
      <4>2. k \in B
        <5>1. num[e] \in 0 .. MAX_DEDICATED_BEARER_PER_PDN
              BY <1>4
        <5> QED BY <1>6, <4>1, <5>1
      <4>3. ~ (e = ct /\ k = i)
            BY <2>1
      <4> QED BY <1>11, <3>2, <4>2, <4>3 DEF TftOf
    <3> QED BY <3>1, <3>2
  <2>3. TftOf(ct, i)' = t
        BY <1>1, <1>6, <1>11 DEF TftOf
  <2> QED BY <2>1, <2>2, <2>3
<1>14. y.id = b /\ y.pdn = d.pdn /\ y.tft = F
      BY <1>0, <1>y
<1>15. \A z \in net : z.id # b
      BY <1>0
<1>16. NetSound(net \cup {y}) /\ InForce(y) = F
      BY <1>0, <1>5, <1>14, <1>15, <1>F, NetSoundNewBearer
<1>17. /\ Now' = net \cup {y} /\ Leaving' = {}
       /\ \A z \in net : Must(z)' = InForce(z) /\ May(z)' = InForce(z)
       /\ Must(y)' = {} /\ May(y)' = {}
  <2>1. Now' = net \cup {y} /\ Leaving' = {}
        BY <1>0, <1>3 DEF Now, Leaving
  <2>2. ASSUME NEW z PROVE May(z)' = IF z.id = b THEN InForce(z) \ F ELSE InForce(z)
        BY <1>3, <1>F DEF May, InForce
  <2>3. ASSUME NEW z PROVE Must(z)' = May(z)'
        BY <1>3 DEF Must
  <2>4. May(y)' = {}
        BY <1>14, <1>16, <2>2
  <2> QED BY <1>15, <2>1, <2>2, <2>3, <2>4
<1>18. \A e \in Pdns : \A k \in Entries(e) : TftOf(e, k).id # b
  <2> TAKE e \in Pdns
  <2> TAKE k \in Entries(e)
  <2>1. TftOf(e, k).id # NoId => \E x \in net : x.id = TftOf(e, k).id
        BY <1>2, <1>5 DEF EntriesKnown
  <2> QED BY <1>8, <1>15, <2>1
<1>19. EntriesKnown'
  <2>1. ASSUME NEW e \in Pdns
        PROVE  /\ tDefaultBearer'[e].id \in DefaultIds \cup {NoId}
               /\ tDefaultBearer'[e].id = NoId =>
                    tDefaultBearer'[e] = EmptyTft /\ num'[e] = 0
    <3>1. d.id # NoId
          BY <1>5, BearerIds
    <3>2. tDefaultBearer[e].id = NoId => e # ct
          BY <1>1, <3>1
    <3> QED BY <1>0, <1>5, <1>11, <3>2 DEF EntriesKnown
  <2>2. ASSUME NEW e \in Pdns, NEW k \in B
        PROVE  IF k < num'[e] THEN tDedicatedBearer'[e][k].id \in DedicatedIds
               ELSE tDedicatedBearer'[e][k] = EmptyTft
    <3>1. IF k < num[e] THEN tDedicatedBearer[e][k].id \in DedicatedIds
          ELSE tDedicatedBearer[e][k] = EmptyTft
          BY <1>5 DEF EntriesKnown
    <3>2. CASE e = ct /\ k = i
      <4>1. k < num'[e] /\ tDedicatedBearer'[e][k] = t
            BY <1>6, <1>11, <3>2
      <4> QED BY <1>9, <4>1
    <3>3. CASE e = ct /\ k # i
      <4>1. k < num'[e] <=> k < num[e]
            BY <1>6, <1>11, <1>i, <3>3
      <4>2. tDedicatedBearer'[e][k] = tDedicatedBearer[e][k]
            BY <1>11, <3>3
      <4> QED BY <3>1, <4>1, <4>2
    <3>4. CASE e # ct
      <4>1. num'[e] = num[e] /\ tDedicatedBearer'[e][k] = tDedicatedBearer[e][k]
            BY <1>11, <3>4
      <4> QED BY <3>1, <4>1
    <3> QED BY <3>2, <3>3, <3>4
  <2>3. ASSUME NEW e \in Pdns, NEW k \in Entries(e)', TftOf(e, k)'.id # NoId
        PROVE  \E x \in net \cup {y} : x.id = TftOf(e, k)'.id /\ x.pdn = tDefaultBearer'[e].id
    <3>1. CASE k \in Entries(e)
      <4>1. PICK x \in net : x.id = TftOf(e, k).id /\ x.pdn = tDefaultBearer[e].id
            BY <1>2, <1>5, <1>13, <2>3, <3>1 DEF EntriesKnown
      <4> QED BY <1>0, <1>13, <3>1, <4>1
    <3>2. CASE e = ct /\ k = i
          BY <1>0, <1>1, <1>9, <1>13, <1>14, <3>2
    <3> QED BY <1>12, <3>1, <3>2
  <2>4. ASSUME NEW x \in net \cup {y}
        PROVE  \E e \in Pdns : \E k \in Entries(e)' :
                 tDefaultBearer'[e].id = x.pdn /\ TftOf(e, k)'.id = x.id
    <3>1. CASE x = y
      <4>1. i \in Entries(ct)' /\ tDefaultBearer'[ct].id = x.pdn /\ TftOf(ct, i)'.id = x.id
            BY <1>0, <1>1, <1>9, <1>12, <1>13, <1>14, <3>1
      <4> QED BY <1>1, <4>1
    <3>2. CASE x \in net
      <4>1. PICK e \in Pdns : \E k \in Entries(e) :
                 tDefaultBearer[e].id = x.pdn /\ TftOf(e, k).id = x.id
            BY <1>2, <1>5, <3>2 DEF EntriesKnown
      <4> QED BY <1>0, <1>12, <1>13, <4>1
    <3> QED BY <3>1, <3>2
  <2>5. ASSUME NEW c \in Pdns, NEW e \in Pdns, NEW k \in Entries(c)', NEW j \in Entries(e)',
               TftOf(c, k)'.id = TftOf(e, j)'.id, TftOf(c, k)'.id # NoId
        PROVE  c = e /\ k = j
    <3>1. CASE k \in Entries(c) /\ j \in Entries(e)
      <4>1. TftOf(c, k).id = TftOf(e, j).id /\ TftOf(c, k).id # NoId
            BY <1>13, <2>5, <3>1
      <4> QED BY <3>1, <4>1, IdsApart
    <3>2. CASE c = ct /\ k = i
          BY <1>9, <1>12, <1>13, <1>18, <2>5, <3>2
    <3>3. CASE e = ct /\ j = i
          BY <1>9, <1>12, <1>13, <1>18, <2>5, <3>3
    <3> QED BY <1>12, <3>1, <3>2, <3>3
  <2> QED BY <1>17, <2>1, <2>2, <2>3, <2>4, <2>5 DEF EntriesKnown
<1>20. EntriesSound'
  <2>1. ASSUME NEW e \in Pdns, NEW k \in Entries(e)', NEW x \in net \cup {y},
               TftOf(e, k)'.id = x.id
        PROVE  HasFilters(TftOf(e, k)', cell', Must(x)', May(x)')
    <3>1. CASE k \in Entries(e)
      <4>1. TftOf(e, k)' = TftOf(e, k) /\ x \in net
            BY <1>13, <1>14, <1>18, <2>1, <3>1
      <4>2. HasFilters(TftOf(e, k), cell, InForce(x), InForce(x))
            BY <1>2, <1>5, <2>1, <3>1, <4>1 DEF EntriesSound
      <4> QED BY <1>0, <1>17, <4>1, <4>2
    <3>2. CASE e = ct /\ k = i
      <4>1. TftOf(e, k)' = t /\ x = y
            BY <1>9, <1>13, <1>15, <2>1, <3>2
      <4>2. HasFilters(t, cell', {}, {})
            BY <1>9 DEF HasFilters
      <4> QED BY <1>17, <4>1, <4>2
    <3> QED BY <1>12, <3>1, <3>2
  <2>2. ASSUME NEW e \in Pdns, NEW x \in net \cup {y}, tDefaultBearer'[e].id = x.id
        PROVE  /\ u8MatchAll'[e] <=> x.tft = {}
               /\ u8MatchAll'[e] => Held(tDefaultBearer'[e]) = {0}
    <3>1. DEFAULT \in Entries(e) /\ TftOf(e, DEFAULT) = tDefaultBearer[e]
          BY DEF Entries, TftOf
    <3>2. x \in net
          BY <1>0, <1>14, <1>18, <2>2, <3>1
    <3> QED BY <1>0, <1>2, <1>5, <2>2, <3>2 DEF EntriesSound
  <2>3. ASSUME NEW e \in Pdns, NEW k \in Entries(e)'
        PROVE  TftOf(e, k)'.num = Cardinality(Held(TftOf(e, k)'))
    <3>1. CASE k \in Entries(e)
      <4>1. TftOf(e, k).num = Cardinality(Held(TftOf(e, k)))
            BY <1>2, <1>5, <3>1 DEF EntriesSound
      <4> QED BY <1>13, <3>1, <4>1
    <3>2. CASE e = ct /\ k = i
      <4>1. Cardinality({}) = 0
            BY FS_EmptySet
      <4> QED BY <1>9, <1>13, <3>2, <4>1
    <3> QED BY <1>12, <3>1, <3>2
  <2> QED BY <1>17, <2>1, <2>2, <2>3 DEF EntriesSound
<1>21. ListsSound'
  <2>1. ASSUME NEW e \in Pdns PROVE Recorded(e)' = Recorded(e)
    <3>1. ASSUME NEW z PROVE z \in Recorded(e)' <=> z \in Recorded(e)
      <4>1. z \in Recorded(e) <=>
              \E k \in Entries(e) : \E j \in Held(TftOf(e, k)) : z = TftOf(e, k).pf[j]
            BY RecordedIs
      <4>2. z \in Recorded(e)' <=>
              \E k \in Entries(e)' : \E j \in Held(TftOf(e, k)') : z = TftOf(e, k)'.pf[j]
            BY RecordedWillBe
      <4>3. \A k \in Entries(e)' : k \in Entries(e) \/ Held(TftOf(e, k)') = {}
            BY <1>9, <1>12, <1>13
      <4> QED BY <1>12, <1>13, <4>1, <4>2, <4>3
    <3> QED BY <3>1
  <2> QED BY <1>0, <1>2, <1>5, <1>17, <2>1 DEF ListsSound
<1>22. Typed'
  <2>1. cmd'.op \in {"none", "matchall", "add", "replace", "sort", "delete", "release"}
        BY <1>3
  <2>2. TypeOK'
        BY <1>0, <1>4, <1>11, <2>1 DEF TypeOK
  <2> QED BY <1>0, <1>4, <2>2 DEF Typed
<1>23. CmdSound'
  <2>1. /\ cmd'.ct \in Pdns /\ cmd'.idx \in Entries(cmd.ct)'
        /\ TftOf(cmd.ct, cmd.idx)'.id = cmd'.b /\ cmd'.b # NoId
        /\ \A z \in net' \cup goal' : z.id # cmd'.b => (z \in net' <=> z \in goal')
    <3>1. Entries(cmd.ct)' = Entries(ct)'
          BY <1>3 DEF Entries
    <3>2. TftOf(cmd.ct, cmd.idx)' = TftOf(ct, i)'
          BY <1>3 DEF TftOf
    <3> QED BY <1>0, <1>1, <1>3, <1>8, <1>9, <1>12, <1>13, <1>14, <3>1, <3>2
  <2>2. /\ fs \in Seq(Filters) /\ fs # << >>
        /\ \A k, j \in DOMAIN fs : k # j => fs[k].pfid # fs[j].pfid
        BY BatchFacts
  <2>3. cmd'.op \in FilterOps =>
       /\ cmd'.fs \in Seq(Filters) /\ cmd'.fs # << >>
       /\ \A k, j \in DOMAIN cmd'.fs : k # j => cmd'.fs[k].pfid # cmd'.fs[j].pfid
       /\ \A z \in net' : z.id = cmd'.b => z.tft \cap ToSet(cmd'.fs) = {}
        BY <1>0, <1>3, <1>15, <2>2
  <2>4. cmd'.op = "add" => \A w \in goal' : w.id = cmd'.b => ToSet(cmd'.fs) \subseteq w.tft
        BY <1>0, <1>3, <1>14, <1>15, <1>F
  <2> QED BY <1>3, <2>1, <2>3, <2>4 DEF CmdSound
<1> QED BY <1>0, <1>5, <1>16, <1>19, <1>20, <1>21, <1>22, <1>23 DEF LInv

----------------------------------------------------------------------------
(* The invariant holds.                                                    *)

(* At first there are no PDNs and no filters.                              *)
LEMMA InitLInv == Init => LInv
<1> SUFFICES ASSUME Init PROVE LInv
    OBVIOUS
<1> DEFINE B == 0 .. (MAX_DEDICATED_BEARER_PER_PDN - 1)
<1>1. /\ EmptyTft \in Tft /\ EmptyTft.id = NoId /\ EmptyTft.num = 0 /\ Held(EmptyTft) = {}
      /\ Cardinality(Held(EmptyTft)) = 0
      BY EmptyTftFacts
<1>2. cmd = NoCmd /\ cmd.op = "none" /\ net = {} /\ goal = {} /\ Now = {} /\ Leaving = {}
      BY DEF Init, NoCmd, Now, Leaving
<1>3. /\ MAX_DEDICATED_BEARER_PER_PDN \in Nat
      BY QosAgentAssumption
<1>4. \A ct \in Pdns : /\ tDefaultBearer[ct] = EmptyTft /\ u8NumDedicatedBearers[ct] = 0
                       /\ \A i \in B : tDedicatedBearer[ct][i] = EmptyTft
                       /\ tClassifierTable[ct] = NULL
      BY DEF Init
<1>5. \A ct \in Pdns : Entries(ct) = {DEFAULT} /\ TftOf(ct, DEFAULT) = EmptyTft
      BY <1>4 DEF Entries, TftOf
<1>6. FreeCell \in Cell
      BY DEF FreeCell, Cell, Ref, Ids
<1>7. Typed
  <2>1. tDefaultBearer \in [Pdns -> Tft]
        BY <1>1 DEF Init
  <2>2. tDedicatedBearer \in [Pdns -> [B -> Tft]]
        BY <1>1 DEF Init
  <2>3. /\ u8NumDedicatedBearers \in [Pdns -> 0 .. MAX_DEDICATED_BEARER_PER_PDN]
        /\ u8MatchAll \in [Pdns -> BOOLEAN]
        /\ tClassifierTable \in [Pdns -> Nodes \cup {NULL}]
        /\ u8PdnAddress \in [Pdns -> Addrs \cup {NoAddr}]
        /\ used = {} /\ halted = FALSE
        BY <1>3 DEF Init
  <2>4. cell \in [Nodes -> Cell] /\ \A n \in Nodes : cell[n] = FreeCell
        BY <1>6 DEF Init
  <2> QED BY <1>2, <2>1, <2>2, <2>3, <2>4 DEF Typed, TypeOK
<1>8. NetSound(net) /\ NetSound(goal)
      BY <1>2 DEF NetSound
<1>9. CmdSound
      BY <1>2 DEF CmdSound, FilterOps
<1>10. EntriesKnown
  <2>1. \A ct \in Pdns :
       /\ tDefaultBearer[ct].id \in DefaultIds \cup {NoId}
       /\ tDefaultBearer[ct].id = NoId =>
            tDefaultBearer[ct] = EmptyTft /\ u8NumDedicatedBearers[ct] = 0
        BY <1>1, <1>4
  <2>2. \A ct \in Pdns : \A i \in B :
            IF i < u8NumDedicatedBearers[ct] THEN tDedicatedBearer[ct][i].id \in DedicatedIds
            ELSE tDedicatedBearer[ct][i] = EmptyTft
        BY <1>4
  <2> QED BY <1>1, <1>2, <1>5, <2>1, <2>2 DEF EntriesKnown
<1>11. EntriesSound
      BY <1>1, <1>2, <1>5 DEF EntriesSound
<1>12. ListsSound
  <2>1. ASSUME NEW ct \in Pdns PROVE Recorded(ct) = {}
    <3>1. ASSUME NEW z PROVE z \notin Recorded(ct)
      <4>1. z \in Recorded(ct) <=>
              \E k \in Entries(ct) : \E j \in Held(TftOf(ct, k)) : z = TftOf(ct, k).pf[j]
            BY RecordedIs
      <4> QED BY <1>1, <1>5, <4>1
    <3> QED BY <3>1
  <2>2. Linked(NULL, cell, {})
        BY DEF Linked
  <2>3. used = {}
        BY DEF Init
  <2>4. \A ct \in Pdns : Linked(tClassifierTable[ct], cell, Recorded(ct) \ Leaving)
    <3> TAKE ct \in Pdns
    <3>1. Recorded(ct) \ Leaving = {}
          BY <2>1
    <3> QED BY <1>4, <2>2, <3>1
  <2>5. UNION {Recorded(ct) : ct \in Pdns} = {}
        BY <2>1
  <2> QED BY <2>3, <2>4, <2>5 DEF ListsSound
<1> QED BY <1>7, <1>8, <1>9, <1>10, <1>11, <1>12 DEF LInv

(* A step that changes nothing keeps the invariant.                        *)
LEMMA StutterLInv ==
  ASSUME LInv, UNCHANGED vars
  PROVE  LInv'
<1>1. /\ tDefaultBearer' = tDefaultBearer /\ tDedicatedBearer' = tDedicatedBearer
      /\ u8NumDedicatedBearers' = u8NumDedicatedBearers /\ u8MatchAll' = u8MatchAll
      /\ u8PdnAddress' = u8PdnAddress
      /\ tClassifierTable' = tClassifierTable /\ used' = used /\ cell' = cell
      /\ halted' = halted /\ cmd' = cmd /\ net' = net /\ goal' = goal
      BY DEF vars, tables, list
<1>2. /\ \A d : Entries(d)' = Entries(d) /\ Recorded(d)' = Recorded(d)
      /\ \A d, i : TftOf(d, i)' = TftOf(d, i)
      /\ TftOf(cmd.ct, cmd.idx)' = TftOf(cmd.ct, cmd.idx)
      /\ Entries(cmd.ct)' = Entries(cmd.ct)
      BY <1>1 DEF Entries, TftOf, Recorded
<1>3. /\ Now' = Now /\ Leaving' = Leaving
      /\ \A x : Must(x)' = Must(x) /\ May(x)' = May(x)
      BY <1>1 DEF Now, Leaving, Must, May, InForce
<1>4. Typed'
      BY <1>1 DEF LInv, Typed, TypeOK
<1>5. NetSound(net)' /\ NetSound(goal)'
      BY <1>1 DEF LInv
<1>6. CmdSound'
      BY <1>1, <1>2 DEF LInv, CmdSound
<1>7. EntriesKnown'
      BY <1>1, <1>2, <1>3 DEF LInv, EntriesKnown
<1>8. EntriesSound'
      BY <1>1, <1>2, <1>3 DEF LInv, EntriesSound
<1>9. ListsSound'
      BY <1>1, <1>2, <1>3 DEF LInv, ListsSound
<1> QED BY <1>4, <1>5, <1>6, <1>7, <1>8, <1>9 DEF LInv

(* Every step keeps the invariant, if the network sends only what the code *)
(* can take.                                                               *)
LEMMA StepLInv ==
  ASSUME Beyond = {}, PfidsFit, LInv, IInv, [Next]_vars
  PROVE  LInv'
<1>1. ASSUME NEW b \in DefaultIds, NEW a \in Addrs, QA_Process_PdnConn_Cnf(b, a)
      PROVE  LInv'
  <2>1. FreeTable \in Tables(NoId)
    <3>1. Tables(NoId) \subseteq Nat /\ Tables(NoId) # {}
          BY <1>1, QosAgentAssumption DEF QA_Process_PdnConn_Cnf, Tables, Pdns
    <3> QED BY <3>1, FirstOf DEF FreeTable
  <2>2. FreeTable \in Pdns /\ tDefaultBearer[FreeTable].id = NoId
        BY <2>1 DEF Tables
  <2> QED BY <1>1, <2>2, NewPdnStep DEF QA_Process_PdnConn_Cnf
<1>2. ASSUME NEW b \in DefaultIds, NEW a \in Addrs, QA_ProcessRegConf_Lte(b, a)
      PROVE  LInv'
  <2>1. 0 \in Pdns /\ tDefaultBearer[0].id = NoId
        BY <1>2 DEF QA_ProcessRegConf_Lte, Tables
  <2>2. Idle /\ Fresh(b, a) /\ NewPdn(0, b, a, a)
        BY <1>2 DEF QA_ProcessRegConf_Lte
  <2> QED BY <2>1, <2>2, NewPdnStep
<1>3. ASSUME NEW d \in net, NEW b \in DedicatedIds, NEW fs \in Batches, create_new_tft(d, b, fs)
      PROVE  LInv'
      BY <1>3, CreateStart
<1>4. ASSUME NEW x \in net, NEW fs \in Batches, add_pkt_fltr(x, fs)
      PROVE  LInv'
      BY <1>4, AddStart
<1>5. ASSUME NEW x \in net, NEW fs \in Batches, replace_pkt_fltr(x, fs)
      PROVE  LInv'
      BY <1>5, ReplaceStart
<1>6. ASSUME NEW x \in net, NEW pfids \in SUBSET Pfids(x.tft), delete_pkt_fltr(x, pfids)
      PROVE  LInv'
      BY <1>6, DeleteStart
<1>7. ASSUME NEW x \in net, Qa_Bearer_Delete_default(x)
      PROVE  LInv'
      BY <1>7, ReleasePdnStep
<1>8. ASSUME NEW x \in net, Qa_Bearer_Delete(x)
      PROVE  LInv'
      BY <1>8, ReleaseStart
<1>9. CASE Qa_Delete_Default_Bearer_MatchAll_TFT
      BY <1>9, MatchAllStep
<1>10. CASE Qa_Add_SortTFT
      BY <1>10, AddStep
<1>11. CASE Qa_Delete_Filter_Replace
      BY <1>11, ReplaceStep
<1>12. CASE Qa_Replace_SortTFT
      BY <1>12, SortStep
<1>13. CASE Qa_Delete_Filter
      BY <1>13, DeleteFilterStep
<1>14. CASE Qa_Delete_Filter_end
      BY <1>14, DeleteEndStep
<1>15. CASE Qa_Bearer_Delete_filter
      BY <1>15, ReleaseFilterStep
<1>16. CASE Qa_Bearer_Delete_end
      BY <1>16, ReleaseEndStep
<1>17. CASE UNCHANGED vars
      BY <1>17, StutterLInv
<1> QED BY <1>1, <1>2, <1>3, <1>4, <1>5, <1>6, <1>7, <1>8, <1>9, <1>10, <1>11, <1>12,
           <1>13, <1>14, <1>15, <1>16, <1>17 DEF Next

----------------------------------------------------------------------------
(* What softirqs meet, from the invariant.                                 *)

(* What a softirq meets.                                                   *)
LEMMA ListOf ==
  ASSUME LInv, NEW ct \in Pdns
  PROVE  /\ NodesOf(Mem(ct)) = Recorded(ct) \ Leaving /\ Ends(Mem(ct))
         /\ Linked(tClassifierTable[ct], cell, Recorded(ct) \ Leaving)
         /\ Recorded(ct) \ Leaving \subseteq used /\ NULL \notin Recorded(ct)
         /\ Mem(ct).head = tClassifierTable[ct]
<1>1. /\ Mem(ct) \in Memory
      /\ Mem(ct).used = used /\ Mem(ct).cell = cell
      /\ Mem(ct).head = tClassifierTable[ct]
      /\ Recorded(ct) \ Leaving \subseteq used
      /\ Linked(Mem(ct).head, Mem(ct).cell, Recorded(ct) \ Leaving)
      BY MemFacts
<1>L. PICK L : L = Recorded(ct) \ Leaving
      OBVIOUS
<1>2. NodesOf(Mem(ct)) = L /\ Ends(Mem(ct))
      BY <1>1, <1>L, WalkOrder
<1>3. NULL \notin Recorded(ct)
      BY DEF Recorded
<1> QED BY <1>1, <1>2, <1>3, <1>L

(* Order and links of the lists, from the invariant.                       *)
LEMMA LInvListSound == LInv => ListSound
<1> SUFFICES ASSUME LInv, NEW ct \in Pdns
             PROVE  LET m == Mem(ct)
                    IN  /\ Ends(m)
                        /\ NodesOf(m) \subseteq used
                        /\ \A n \in NodesOf(m) :
                             LET nx == cell[n].next
                             IN  /\ n = m.head => cell[n].prev = NULL
                                 /\ nx # NULL => cell[nx].prev = n /\ cell[n].prec < cell[nx].prec
    BY DEF ListSound
<1>L. PICK L : L = Recorded(ct) \ Leaving
      OBVIOUS
<1>1. /\ NodesOf(Mem(ct)) = L /\ Ends(Mem(ct)) /\ Linked(tClassifierTable[ct], cell, L)
      /\ L \subseteq used /\ NULL \notin L /\ Mem(ct).head = tClassifierTable[ct]
      BY <1>L, ListOf
<1>2. used \subseteq Nodes /\ cell \in [Nodes -> Cell]
      BY DEF LInv, Typed, TypeOK
<1>3. \A y \in L : cell[y].prec \in Nat
      BY <1>1, <1>2 DEF Cell
<1>4. ASSUME NEW n \in L, n = tClassifierTable[ct]
      PROVE  cell[n].prev = NULL
  <2>1. \A y \in L : cell[n].prec <= cell[y].prec
        BY <1>1, <1>4 DEF Linked
  <2>2. Before(cell, L, n, cell[n].prev)
        BY <1>1 DEF Linked
  <2> QED BY <1>3, <2>1, <2>2 DEF Before
<1>5. ASSUME NEW n \in L, NEW nx, nx = cell[n].next, nx # NULL
      PROVE  cell[nx].prev = n /\ cell[n].prec < cell[nx].prec
  <2>1. /\ nx \in L /\ cell[n].prec < cell[nx].prec
        /\ \A y \in L : cell[y].prec <= cell[n].prec \/ cell[nx].prec <= cell[y].prec
        BY <1>1, <1>5 DEF Linked, After
  <2>p. PICK p : p = cell[nx].prev
        OBVIOUS
  <2>2. Before(cell, L, nx, p)
        BY <1>1, <2>1, <2>p DEF Linked
  <2>3. p # NULL
        BY <1>3, <2>1, <2>2 DEF Before
  <2>4. /\ p \in L /\ cell[p].prec < cell[nx].prec
        /\ \A y \in L : cell[y].prec <= cell[p].prec \/ cell[nx].prec <= cell[y].prec
        BY <2>2, <2>3 DEF Before
  <2>5. cell[p].prec = cell[n].prec
    <3>1. cell[n].prec \in Nat /\ cell[p].prec \in Nat /\ cell[nx].prec \in Nat
          BY <1>3, <2>1, <2>4
    <3>2. cell[p].prec <= cell[n].prec \/ cell[nx].prec <= cell[p].prec
          BY <2>1, <2>4
    <3>3. cell[n].prec <= cell[p].prec \/ cell[nx].prec <= cell[n].prec
          BY <2>4
    <3> QED BY <2>1, <2>4, <3>1, <3>2, <3>3
  <2>6. p = n
        BY <1>1, <2>4, <2>5 DEF Linked
  <2> QED BY <2>1, <2>6, <2>p
<1> QED BY <1>1, <1>4, <1>5

(* Nothing is listed but not recorded, or recorded but not listed.         *)
LEMMA LInvNodesAccounted == LInv => NodesAccounted
<1> SUFFICES ASSUME LInv, cmd.op # "sort"
             PROVE  /\ \A ct \in Pdns : NodesOf(Mem(ct)) = Recorded(ct)
                    /\ used = UNION {Recorded(ct) : ct \in Pdns}
    BY DEF NodesAccounted
<1>1. Leaving = {}
      BY DEF Leaving
<1>2. \A ct \in Pdns : NodesOf(Mem(ct)) = Recorded(ct)
  <2> TAKE ct \in Pdns
  <2>1. NodesOf(Mem(ct)) = Recorded(ct) \ Leaving
        BY ListOf
  <2> QED BY <1>1, <2>1
<1> QED BY <1>2 DEF LInv, ListsSound

(* A filter that decides about uplink packets of flow f.                   *)
Matches(g, f) == g.dir # "DL" /\ g.flow \in {MATCH_ALL, f}

(* The filter that decides, spelled out.                                   *)
LEMMA WinnerIs ==
  ASSUME NEW S, NEW a, NEW f, NEW h
  PROVE  h \in Winner(S, a, f) <=>
           /\ \E y \in S : y.addr = a /\ \E g \in InForce(y) :
                Matches(g, f) /\ h = [id |-> y.id, pf |-> g]
           /\ \A y \in S : y.addr = a => \A g \in InForce(y) :
                Matches(g, f) => h.pf.prec <= g.prec
<1> DEFINE M(x) == {[id |-> x.id, pf |-> g] :
                       g \in {k \in InForce(x) : /\ k.dir # "DL"
                                                /\ k.flow \in {MATCH_ALL, f}}}
           all == UNION {M(x) : x \in {y \in S : y.addr = a}}
<1>1. \A v : v \in all <=> \E y \in S : y.addr = a /\ \E g \in InForce(y) :
                             Matches(g, f) /\ v = [id |-> y.id, pf |-> g]
  <2>1. ASSUME NEW v, NEW y
        PROVE  v \in M(y) <=> \E g \in InForce(y) :
                             Matches(g, f) /\ v = [id |-> y.id, pf |-> g]
        BY DEF Matches
  <2>2. \A v : v \in all <=> \E y \in S : y.addr = a /\ v \in M(y)
    <3> HIDE DEF M
    <3> QED OBVIOUS
  <2> HIDE DEF M, all
  <2> QED BY <2>1, <2>2
<1>2. h \in Winner(S, a, f) <=> h \in all /\ \A v \in all : h.pf.prec <= v.pf.prec
      BY DEF Winner
<1>3. ASSUME NEW y \in S, y.addr = a, NEW g \in InForce(y), Matches(g, f),
             \A v \in all : h.pf.prec <= v.pf.prec
      PROVE  h.pf.prec <= g.prec
  <2>1. [id |-> y.id, pf |-> g] \in all
        BY <1>1, <1>3
  <2>2. [id |-> y.id, pf |-> g].pf = g
        OBVIOUS
  <2> HIDE DEF all
  <2> QED BY <1>3, <2>1, <2>2
<1>4. ASSUME NEW v \in all,
             \A y \in S : y.addr = a => \A g \in InForce(y) :
                Matches(g, f) => h.pf.prec <= g.prec
      PROVE  h.pf.prec <= v.pf.prec
  <2>1. PICK y \in S : y.addr = a /\ \E g \in InForce(y) :
                             Matches(g, f) /\ v = [id |-> y.id, pf |-> g]
        BY <1>1
  <2>2. PICK g \in InForce(y) : Matches(g, f) /\ v = [id |-> y.id, pf |-> g]
        BY <2>1
  <2>3. v.pf = g
        BY <2>2
  <2> QED BY <1>4, <2>1, <2>2, <2>3
<1> HIDE DEF all
<1> QED BY <1>1, <1>2, <1>3, <1>4

(* Precedences in force are numbers.                                       *)
LEMMA ForceTyped ==
  ASSUME NEW S, NetSound(S), NEW y \in S, NEW g \in InForce(y)
  PROVE  g.prec \in Nat /\ g.dir \in {"DL", "UL", "BI"}
<1>1. CASE g \in y.tft
  <2>1. g \in Filters
        BY <1>1 DEF NetSound
  <2>2. g.prec \in 0 .. 254 /\ g.dir \in {"DL", "UL", "BI"}
        BY <2>1, QosAgentAssumption
  <2> QED BY <2>2
<1>2. CASE g \notin y.tft
  <2>1. g = [pfid |-> 0, prec |-> 255, dir |-> "BI", flow |-> MATCH_ALL]
        BY <1>2 DEF InForce
  <2> QED BY <2>1
<1> QED BY <1>1, <1>2

(* Where some filter matches, one decides.                                 *)
LEMMA WinnerExists ==
  ASSUME NEW S, NetSound(S), NEW a, NEW f, NEW y \in S, y.addr = a,
         NEW g \in InForce(y), Matches(g, f)
  PROVE  Winner(S, a, f) # {}
<1> DEFINE Hit(p) == \E z \in S : z.addr = a /\ \E k \in InForce(z) : Matches(k, f) /\ k.prec = p
           P == {p \in Nat : Hit(p)}
<1>1. g.prec \in P
      BY ForceTyped
<1>p. PICK p : p = Min(P)
      OBVIOUS
<1>2. p \in P /\ \A q \in P : p <= q
  <2>1. P \subseteq Nat /\ P # {}
        BY <1>1
  <2> HIDE DEF P
  <2> QED BY <1>p, <2>1, FirstOf
<1>3. PICK z \in S : z.addr = a /\ \E k \in InForce(z) : Matches(k, f) /\ k.prec = p
      BY <1>2
<1>4. PICK k \in InForce(z) : Matches(k, f) /\ k.prec = p
      BY <1>3
<1>h. PICK h : h = [id |-> z.id, pf |-> k]
      OBVIOUS
<1>5. h.pf = k
      BY <1>h
<1>6. \A v \in S : v.addr = a => \A u \in InForce(v) : Matches(u, f) => h.pf.prec <= u.prec
  <2> TAKE v \in S
  <2> HAVE v.addr = a
  <2> TAKE u \in InForce(v)
  <2> HAVE Matches(u, f)
  <2>1. u.prec \in P
        BY ForceTyped
  <2> QED BY <1>2, <1>4, <1>5, <2>1
<1>7. h \in Winner(S, a, f)
      BY <1>3, <1>4, <1>6, <1>h, WinnerIs
<1> QED BY <1>7

(* The bearers of a PDN are those that have its address.                   *)
LEMMA PdnByAddress ==
  ASSUME IInv, NEW x \in net, NEW ct, ct = Table(x.addr), NEW S, Agree(S)
  PROVE  /\ ct \in Pdns /\ tDefaultBearer[ct].id = x.pdn
         /\ \A y \in S : y.addr = x.addr <=> y.pdn = x.pdn
<1> DEFINE found == {c \in Pdns : u8PdnAddress[c] = x.addr}
<1>1. PICK c \in Pdns : tDefaultBearer[c].id = x.pdn /\ u8PdnAddress[c] = x.addr /\ Live(c)
      BY DEF IInv, Agree, AgreeOn, Live
<1>2. found # {} /\ found \subseteq Nat
      BY <1>1, QosAgentAssumption DEF Pdns
<1>m. PICK m : m = Min(found)
      OBVIOUS
<1>3. m \in found /\ \A e \in found : m <= e
      BY <1>2, <1>m, FirstOf
<1>4. ct = m
      BY <1>2, <1>m DEF Table
<1>5. AddressesApart
      BY DEF IInv
<1>6. Pdns \subseteq Nat
      BY QosAgentAssumption DEF Pdns
<1>7. ASSUME NEW e \in found, Live(e) PROVE e = m
  <2>1. m <= e /\ m \in Nat /\ e \in Nat /\ m \in Pdns /\ u8PdnAddress[m] = u8PdnAddress[e]
        BY <1>3, <1>6
  <2>2. ~ (m < e)
        BY <1>5, <1>7, <2>1 DEF AddressesApart
  <2> QED BY <2>1, <2>2
<1>8. c = m
      BY <1>1, <1>7
<1>9. ASSUME NEW y \in S PROVE y.addr = x.addr <=> y.pdn = x.pdn
  <2>1. PICK e \in Pdns : tDefaultBearer[e].id = y.pdn /\ u8PdnAddress[e] = y.addr /\ Live(e)
        BY DEF Agree, AgreeOn, Live
  <2>2. ASSUME y.addr = x.addr PROVE y.pdn = x.pdn
        BY <1>1, <1>7, <1>8, <2>1, <2>2
  <2>3. ASSUME y.pdn = x.pdn PROVE y.addr = x.addr
    <3>1. e = c
          BY <1>1, <1>5, <2>1, <2>3 DEF AddressesApart
    <3> QED BY <1>1, <2>1, <3>1
  <2> QED BY <2>2, <2>3
<1> QED BY <1>1, <1>4, <1>8, <1>9

(* What a node of a list holds is in force, ...                            *)
LEMMA ListedInForce ==
  ASSUME LInv, NEW ct \in Pdns, NEW n \in Recorded(ct)
  PROVE  \E z \in Now : /\ z.id = cell[n].eps /\ z.pdn = tDefaultBearer[ct].id
                        /\ \E g \in InForce(z) : Holds(cell, n, g)
<1>1. PICK i \in Entries(ct) : \E j \in Held(TftOf(ct, i)) : n = TftOf(ct, i).pf[j]
      BY RecordedIs
<1>t. PICK t : t = TftOf(ct, i)
      OBVIOUS
<1>2. PICK j \in Held(t) : n = t.pf[j]
      BY <1>1, <1>t
<1>3. /\ cell[n].eps = t.id
      /\ \E x \in Now : /\ x.id = t.id /\ x.pdn = tDefaultBearer[ct].id
                        /\ \E f \in May(x) : Holds(cell, n, f)
      BY <1>2, <1>t, Owned
<1>4. \A x : May(x) \subseteq InForce(x)
      BY DEF May
<1> QED BY <1>3, <1>4

(* ... and a filter that was in force and will be is in the list.          *)
Stays(g, b) ==
  /\ \E v \in net : v.id = b /\ g \in InForce(v)
  /\ \E y \in goal : y.id = b /\ g \in InForce(y)

(* The handler that is running does not touch it.                          *)
LEMMA StaysMust ==
  ASSUME LInv, NEW z \in Now, NEW g, Stays(g, z.id)
  PROVE  /\ g \in Must(z)
         /\ cmd.op = "sort" /\ z.id = cmd.b => g.pfid \notin Pfids(ToSet(cmd.fs))
<1>v. PICK v \in net : v.id = z.id /\ g \in InForce(v)
      BY DEF Stays
<1>y. PICK y \in goal : y.id = z.id /\ g \in InForce(y)
      BY DEF Stays
<1>1. NetSound(net) /\ NetSound(goal) /\ CmdSound
      BY DEF LInv
<1>2. z = IF cmd.op \in {"add", "sort"} THEN y ELSE v
      BY <1>1, <1>v, <1>y DEF Now, NetSound
<1>3. g \in InForce(z)
      BY <1>2, <1>v, <1>y
<1>4. CASE z.id # cmd.b \/ cmd.op \in {"none", "matchall", "replace"}
      BY <1>3, <1>4 DEF Must, May
<1>5. ASSUME cmd.op \in {"add", "sort"}, z.id = cmd.b PROVE g \notin ToSet(cmd.fs)
  <2>1. v.tft \cap ToSet(cmd.fs) = {} /\ cmd.fs \in Seq(Filters)
        BY <1>1, <1>5, <1>v DEF CmdSound, FilterOps
  <2>2. ToSet(cmd.fs) \subseteq Filters
    <3>1. PICK s : s = cmd.fs
          OBVIOUS
    <3>2. s \in Seq(Filters)
          BY <2>1, <3>1
    <3>3. ToSet(s) \subseteq Filters
          BY <3>2 DEF ToSet
    <3> QED BY <3>1, <3>3
  <2>3. (g \in v.tft \/ g.prec = 255) /\ \A f \in Filters : f.prec # 255
        BY <1>1, <1>v, ForceFacts
  <2> QED BY <2>1, <2>2, <2>3
<1>6. CASE cmd.op = "add" /\ z.id = cmd.b
      BY <1>3, <1>5, <1>6 DEF Must, May
<1>7. CASE cmd.op = "sort" /\ z.id = cmd.b
  <2>1. /\ y.tft # {}
        /\ \/ ToSet(cmd.fs) \subseteq y.tft
           \/ Pfids(ToSet(cmd.fs)) \cap Pfids(y.tft) = {}
        BY <1>1, <1>7, <1>y DEF CmdSound
  <2>2. g \in y.tft
        BY <1>1, <1>y, <2>1, ForceFacts
  <2>3. g.pfid \notin Pfids(ToSet(cmd.fs))
    <3> SUFFICES ASSUME NEW h \in ToSet(cmd.fs), h.pfid = g.pfid PROVE FALSE
        BY DEF Pfids
    <3>1. CASE ToSet(cmd.fs) \subseteq y.tft
      <4>1. h = g
            BY <1>1, <2>2, <3>1 DEF NetSound
      <4> QED BY <1>5, <1>7, <4>1
    <3>2. CASE Pfids(ToSet(cmd.fs)) \cap Pfids(y.tft) = {}
          BY <2>2, <3>2 DEF Pfids
    <3> QED BY <2>1, <3>1, <3>2
  <2> QED BY <1>3, <1>7, <2>3 DEF Must, May
<1>8. CASE cmd.op = "delete" /\ z.id = cmd.b
  <2>1. cmd.op # "none" /\ cmd.idx # DEFAULT
        BY <1>1, <1>8 DEF CmdSound
  <2>2. InForce(y) = y.tft
        BY <1>8, <1>y, <2>1, OwnDedicated
  <2>3. PICK w \in goal : Carries(w, v) /\ w.tft = {f \in v.tft : f.pfid \notin cmd.pfids}
        BY <1>1, <1>8, <1>v DEF CmdSound
  <2>4. w = y
        BY <1>1, <1>v, <1>y, <2>3 DEF NetSound, Carries
  <2> QED BY <1>2, <1>8, <1>y, <2>2, <2>3, <2>4 DEF Must
<1>9. CASE cmd.op = "release" /\ z.id = cmd.b
      BY <1>1, <1>9, <1>y DEF CmdSound
<1>10. cmd.op \in {"none", "matchall", "add", "replace", "sort", "delete", "release"}
      BY DEF LInv, Typed, TypeOK
<1> QED BY <1>4, <1>6, <1>7, <1>8, <1>9, <1>10

(* The bearer's entry, and so the list, has it.                            *)
LEMMA StaysListed ==
  ASSUME LInv, NEW z \in Now, NEW g, Stays(g, z.id), NEW ct \in Pdns,
         tDefaultBearer[ct].id = z.pdn
  PROVE  \E n \in Recorded(ct) \ Leaving : cell[n].eps = z.id /\ Holds(cell, n, g)
<1>1. PICK c \in Pdns : \E i \in Entries(c) :
        tDefaultBearer[c].id = z.pdn /\ TftOf(c, i).id = z.id
      BY DEF LInv, EntriesKnown
<1>2. c = ct
  <2>1. \A e \in Pdns : DEFAULT \in Entries(e) /\ TftOf(e, DEFAULT) = tDefaultBearer[e]
        BY DEF Entries, TftOf
  <2>2. z.pdn # NoId
    <3>1. NetSound(Now)
          BY DEF LInv, Now
    <3> QED BY <3>1, BearerIds
  <2> QED BY <1>1, <2>1, <2>2, IdsApart
<1>3. PICK i \in Entries(ct) : TftOf(ct, i).id = z.id
      BY <1>1, <1>2
<1>t. PICK t : t = TftOf(ct, i)
      OBVIOUS
<1>4. HasFilters(t, cell, Must(z), May(z))
      BY <1>3, <1>t DEF LInv, EntriesSound
<1>5. g \in Must(z)
      BY StaysMust
<1>6. PICK j \in Held(t) : Holds(cell, t.pf[j], g)
      BY <1>4, <1>5 DEF HasFilters
<1>n. PICK n : n = t.pf[j]
      OBVIOUS
<1>7. cell[n].eps = z.id /\ Holds(cell, n, g)
      BY <1>3, <1>4, <1>6, <1>n, <1>t DEF HasFilters
<1>8. n \in Recorded(ct)
      BY <1>6, <1>n, <1>t, RecordedIs
<1>9. n \notin Leaving
  <2> SUFFICES ASSUME n \in Leaving PROVE FALSE
      OBVIOUS
  <2>1. cmd.op = "sort" /\ cell[n].eps = cmd.b /\ cell[n].pfid \in Pfids(ToSet(cmd.fs))
        BY DEF Leaving
  <2>2. z.id = cmd.b /\ g.pfid \in Pfids(ToSet(cmd.fs))
        BY <1>7, <2>1 DEF Holds
  <2> QED BY <2>1, <2>2, StaysMust
<1> QED BY <1>7, <1>8, <1>9

(* The classifier stops at the first node that matches, if there is one.   *)
LEMMA Classified ==
  ASSUME LInv, NEW a, NEW f, NEW ct \in Pdns, ct = Table(a),
         NEW L, L = Recorded(ct) \ Leaving
  PROVE  /\ (\A n \in L : ~Matches(cell[n], f)) => QA_Cla(a, f) = NoId
         /\ \A n \in L : Matches(cell[n], f) =>
              \E p \in L : /\ Matches(cell[p], f) /\ QA_Cla(a, f) = cell[p].eps
                           /\ cell[p].prec <= cell[n].prec
<1> DEFINE m == Mem(ct)
           w == Walk(m)
           hits == {k \in 0 .. NodeNb : /\ w[k] # NULL
                                        /\ cell[w[k]].dir \in {"UL", "BI"}
                                        /\ cell[w[k]].flow \in {MATCH_ALL, f}}
<1>1. QA_Cla(a, f) = IF hits # {} THEN cell[w[Min(hits)]].eps
                     ELSE IF Ends(m) THEN NoId ELSE "never ends"
      BY DEF QA_Cla
<1>2. /\ m \in Memory /\ m.used = used /\ m.cell = cell /\ L \subseteq used
      /\ Linked(m.head, m.cell, L)
      BY MemFacts
<1>3. /\ NodesOf(m) = L /\ Ends(m)
      /\ \A k \in 0 .. NodeNb : w[k] \in L \cup {NULL}
      /\ \A n \in L : \E k \in 0 .. NodeNb : w[k] = n
      /\ \A i, j \in 0 .. NodeNb :
           i < j /\ w[j] # NULL => w[i] # NULL /\ cell[w[i]].prec < cell[w[j]].prec
      BY <1>2, WalkOrder
<1>4. \A n \in L : cell[n].dir \in {"DL", "UL", "BI"} /\ cell[n].prec \in Nat /\ n # NULL
  <2> TAKE n \in L
  <2>1. n \in Recorded(ct)
        OBVIOUS
  <2>2. PICK z \in Now : \E g \in InForce(z) : Holds(cell, n, g)
        BY <2>1, ListedInForce
  <2>3. PICK g \in InForce(z) : Holds(cell, n, g)
        BY <2>2
  <2>4. NetSound(Now)
        BY DEF LInv, Now
  <2>5. g.prec \in Nat /\ g.dir \in {"DL", "UL", "BI"}
        BY <2>4, ForceTyped
  <2>6. NULL \notin Recorded(ct)
        BY DEF Recorded
  <2> QED BY <2>1, <2>3, <2>5, <2>6 DEF Holds
<1>5. \A n \in L : Matches(cell[n], f) <=>
                     cell[n].dir \in {"UL", "BI"} /\ cell[n].flow \in {MATCH_ALL, f}
      BY <1>4 DEF Matches
<1> HIDE DEF m, w
<1>6. \A k \in hits : k \in 0 .. NodeNb /\ w[k] \in L /\ Matches(cell[w[k]], f)
      BY <1>3, <1>5
<1>7. ASSUME NEW k \in 0 .. NodeNb, w[k] \in L, Matches(cell[w[k]], f) PROVE k \in hits
      BY <1>4, <1>5, <1>7
<1>8. hits \subseteq Nat
      BY NodeNbType
<1> HIDE DEF hits
<1>9. ASSUME \A n \in L : ~Matches(cell[n], f)
      PROVE  QA_Cla(a, f) = NoId
  <2>1. hits = {}
        BY <1>6, <1>9
  <2> QED BY <1>1, <1>3, <2>1
<1>10. ASSUME NEW n \in L, Matches(cell[n], f)
       PROVE  \E p \in L : /\ Matches(cell[p], f) /\ QA_Cla(a, f) = cell[p].eps
                           /\ cell[p].prec <= cell[n].prec
  <2>1. PICK k \in 0 .. NodeNb : w[k] = n
        BY <1>3
  <2>2. k \in hits
        BY <1>7, <1>10, <2>1
  <2>q. PICK q : q = Min(hits)
        OBVIOUS
  <2>3. q \in hits /\ q <= k
        BY <1>8, <2>2, <2>q, FirstOf
  <2>4. w[q] \in L /\ Matches(cell[w[q]], f) /\ q \in 0 .. NodeNb
        BY <1>6, <2>3
  <2>5. QA_Cla(a, f) = cell[w[q]].eps
        BY <1>1, <2>2, <2>q
  <2>6. cell[w[q]].prec <= cell[n].prec
    <3>1. q \in Nat /\ k \in Nat /\ cell[w[q]].prec \in Nat /\ cell[n].prec \in Nat
          BY <1>4, <1>8, <2>2, <2>3, <2>4
    <3>2. CASE q = k
          BY <2>1, <3>1, <3>2
    <3>3. CASE q < k
      <4>1. w[k] # NULL
            BY <1>4, <2>1
      <4>2. cell[w[q]].prec < cell[w[k]].prec
            BY <1>3, <2>4, <3>3, <4>1
      <4> QED BY <2>1, <3>1, <4>2
    <3> QED BY <2>3, <3>1, <3>2, <3>3
  <2> QED BY <2>4, <2>5, <2>6
<1> QED BY <1>9, <1>10

(* The filter that decides before and after the message is in the list.    *)
(* What is in front of it in the list is in force now and has a smaller    *)
(* precedence value, so it does not match.                                 *)
LEMMA LInvClassifies == LInv /\ IInv => ClassifiesAsInstalled
<1> SUFFICES ASSUME LInv, IInv, NEW x \in net, NEW f \in Flows, NEW w,
                    w = Winner(net, x.addr, f), w = Winner(goal, x.addr, f)
             PROVE  QA_Cla(x.addr, f) = IF w = {} THEN NoId ELSE (CHOOSE h \in w : TRUE).id
    BY DEF ClassifiesAsInstalled
<1>a. PICK a : a = x.addr
      OBVIOUS
<1>c. PICK ct : ct = Table(a)
      OBVIOUS
<1>L. PICK L : L = Recorded(ct) \ Leaving
      OBVIOUS
<1>1. /\ ct \in Pdns /\ tDefaultBearer[ct].id = x.pdn
      /\ \A y \in net : y.addr = a <=> y.pdn = x.pdn
      /\ \A y \in goal : y.addr = a <=> y.pdn = x.pdn
      BY <1>a, <1>c, PdnByAddress DEF IInv
<1>2. NetSound(Now) /\ w = Winner(Now, a, f) /\ \A y \in Now : y.addr = a <=> y.pdn = x.pdn
      BY <1>1, <1>a DEF LInv, Now
<1>3. ASSUME NEW n \in L, Matches(cell[n], f)
      PROVE  \E z \in Now : /\ z.id = cell[n].eps /\ z.addr = a /\ z.pdn = x.pdn
                            /\ \E g \in InForce(z) : Holds(cell, n, g) /\ Matches(g, f)
  <2>1. n \in Recorded(ct)
        BY <1>L
  <2>2. PICK z \in Now : /\ z.id = cell[n].eps /\ z.pdn = tDefaultBearer[ct].id
                         /\ \E g \in InForce(z) : Holds(cell, n, g)
        BY <1>1, <2>1, ListedInForce
  <2>3. PICK g \in InForce(z) : Holds(cell, n, g)
        BY <2>2
  <2>4. Matches(g, f)
        BY <1>3, <2>3 DEF Matches, Holds
  <2> QED BY <1>1, <1>2, <2>2, <2>3, <2>4
<1>4. CASE w = {}
  <2>1. ASSUME NEW n \in L, Matches(cell[n], f) PROVE FALSE
    <3>1. PICK z \in Now : z.addr = a /\ \E g \in InForce(z) : Matches(g, f)
          BY <1>3, <2>1
    <3>2. PICK g \in InForce(z) : Matches(g, f)
          BY <3>1
    <3>3. Winner(Now, a, f) # {}
          BY <1>2, <3>1, <3>2, WinnerExists
    <3> QED BY <1>2, <1>4, <3>3
  <2>2. QA_Cla(a, f) = NoId
        BY <1>1, <1>c, <1>L, <2>1, Classified
  <2> QED BY <1>4, <1>a, <2>2
<1>5. CASE w # {}
  <2>h. PICK h : h = CHOOSE k \in w : TRUE
        OBVIOUS
  <2>1. h \in w
        BY <1>5, <2>h
  <2>2. /\ h \in Winner(net, a, f) /\ h \in Winner(goal, a, f) /\ h \in Winner(Now, a, f)
        BY <1>2, <1>a, <2>1
  <2>v. PICK v \in net : v.addr = a /\ \E g \in InForce(v) :
                Matches(g, f) /\ h = [id |-> v.id, pf |-> g]
        BY <2>2, WinnerIs
  <2>y. PICK y \in goal : y.addr = a /\ \E g \in InForce(y) :
                Matches(g, f) /\ h = [id |-> y.id, pf |-> g]
        BY <2>2, WinnerIs
  <2>z. PICK z \in Now : z.addr = a /\ \E g \in InForce(z) :
                Matches(g, f) /\ h = [id |-> z.id, pf |-> g]
        BY <2>2, WinnerIs
  <2>3. h.id = v.id /\ h.pf \in InForce(v)
        BY <2>v
  <2>4. h.id = y.id /\ h.pf \in InForce(y)
        BY <2>y
  <2>5. h.id = z.id /\ h.pf \in InForce(z) /\ Matches(h.pf, f)
        BY <2>z
  <2>g. PICK g : g = h.pf
        OBVIOUS
  <2>6. Stays(g, z.id)
        BY <2>3, <2>4, <2>5, <2>g DEF Stays
  <2>7. z.pdn = x.pdn
        BY <1>2, <2>z
  <2>8. PICK n \in L : cell[n].eps = z.id /\ Holds(cell, n, g)
        BY <1>1, <1>L, <2>6, <2>7, StaysListed
  <2>9. Matches(cell[n], f)
        BY <2>5, <2>8, <2>g DEF Matches, Holds
  <2>10. PICK p \in L : /\ Matches(cell[p], f) /\ QA_Cla(a, f) = cell[p].eps
                        /\ cell[p].prec <= cell[n].prec
        BY <1>1, <1>c, <1>L, <2>9, Classified
  <2>11. PICK u \in Now : /\ u.id = cell[p].eps /\ u.addr = a /\ u.pdn = x.pdn
                          /\ \E k \in InForce(u) : Holds(cell, p, k) /\ Matches(k, f)
        BY <1>3, <2>10
  <2>12. PICK k \in InForce(u) : Holds(cell, p, k) /\ Matches(k, f)
        BY <2>11
  <2>13. g.prec <= k.prec
        BY <2>2, <2>11, <2>12, <2>g, WinnerIs
  <2>14. k.prec <= g.prec
        BY <2>8, <2>10, <2>12 DEF Holds
  <2>15. k.prec \in Nat /\ g.prec \in Nat
        BY <1>2, <2>5, <2>12, <2>g, ForceTyped
  <2>16. k.prec = g.prec
        BY <2>13, <2>14, <2>15
  <2>17. u = z
        BY <1>2, <2>5, <2>7, <2>11, <2>12, <2>16, <2>g DEF NetSound
  <2>18. QA_Cla(a, f) = h.id
        BY <2>5, <2>10, <2>11, <2>17
  <2> QED BY <1>5, <1>a, <2>18, <2>h
<1> QED BY <1>4, <1>5

----------------------------------------------------------------------------
(* The theorems, for a network that sends what the code can take: bearers  *)
(* are released last first, no default bearer loses a filter or its whole  *)
(* TFT, a replacement names only filters of the bearer or none, and a      *)
(* registration has an address and comes while table 0 is free.            *)

(* The inductive invariant holds: tables, entries and lists are what the   *)
(* network's messages have made of them, also in the middle of one.        *)
THEOREM ListsAlways ==
  ASSUME Beyond = {}, PfidsFit
  PROVE  Spec => [](LInv /\ IInv)
<1>1. Init => LInv /\ IInv
      BY InitLInv, InitIInv
<1>2. LInv /\ IInv /\ [Next]_vars => (LInv /\ IInv)'
      BY StepLInv, StepIInv DEF PdnsByTheRules
<1> QED BY <1>1, <1>2, PTL DEF Spec

(* The counts of bearers and filters stay within their arrays: the         *)
(* handlers neither add an entry or a filter too many nor count one down   *)
(* twice.                                                                  *)
THEOREM TypesHold ==
  ASSUME Beyond = {}, PfidsFit
  PROVE  Spec => []TypeOK
<1>1. LInv => TypeOK
      BY DEF LInv, Typed
<1> QED BY <1>1, ListsAlways, PTL

(* No handler follows a null or freed pointer or loops for ever. In        *)
(* particular Qa_Bearer_Delete, which does not test for a head without     *)
(* successor, always finds one: the default bearer has a filter in the     *)
(* list.                                                                   *)
THEOREM NeverHalts ==
  ASSUME Beyond = {}, PfidsFit
  PROVE  Spec => []NoHalt
<1>1. LInv => NoHalt
      BY DEF LInv, Typed, NoHalt
<1> QED BY <1>1, ListsAlways, PTL

(* Whenever a softirq can run QA_Cla, the lists end, their nodes are       *)
(* allocated and linked both ways, in ascending order of precedence.       *)
THEOREM ListsInOrder ==
  ASSUME Beyond = {}, PfidsFit
  PROVE  Spec => []ListSound
<1> QED BY LInvListSound, ListsAlways, PTL

(* A filter is in the list of a PDN if and only if an entry of the PDN     *)
(* records it, and no other node is allocated: nothing leaks and nothing   *)
(* is freed that is still listed.                                          *)
THEOREM NodesRecorded ==
  ASSUME Beyond = {}, PfidsFit
  PROVE  Spec => []NodesAccounted
<1> QED BY LInvNodesAccounted, ListsAlways, PTL

(* QA_Cla gives a packet to the bearer that the filters in force name, by  *)
(* the TFT rules, also in the middle of a message that does not change the *)
(* filter that decides.  Without Beyond = {} it fails, also by deleting    *)
(* the TFT of a default bearer or by a registration without an address,    *)
(* apart from the messages of the three violated runs.                     *)
THEOREM PacketsClassified ==
  ASSUME Beyond = {}, PfidsFit
  PROVE  Spec => []ClassifiesAsInstalled
<1> QED BY LInvClassifies, ListsAlways, PTL
=============================================================================
