----------------------------- MODULE DataUlProofs -----------------------------
(***************************************************************************)
(* Proofs about the uplink of the data driver and of the net driver, for   *)
(* any number of interfaces, FIFOs and batches of any size and any set of  *)
(* socket buffers.                                                         *)
(***************************************************************************)
EXTENDS DataUl, ModularProofs, SequenceTheorems, FiniteSetTheorems, WellFoundedInduction, TLAPS

(* A set of naturals has a smallest element.                               *)
LEMMA SmallestOf ==
  ASSUME NEW S, S \subseteq Nat, S # {}
  PROVE  \E m \in S : \A i \in S : m <= i
<1>1. PICK m \in S : \A i \in S : ~ (<<i, m>> \in OpToRel(<, Nat))
      BY WFMin, NatLessThanWellFounded, Zenon
<1>2. \A i, j \in Nat : i < j => <<i, j>> \in OpToRel(<, Nat)
      BY DEF OpToRel
<1>3. \A i \in S : ~ (i < m)
      BY <1>1, <1>2, Zenon
<1> QED BY <1>3

(* g records m turns of the loop of Removed.                               *)
Turns(g, f, skbs, m) ==
  g = [n \in 0 .. m |->
         IF n = 0 THEN f
         ELSE IF g[n - 1] # << >> /\ Head(g[n - 1]) = skbs[n]
              THEN Tail(g[n - 1]) ELSE g[n - 1]]

(* The loop can take any number of turns: a first number of turns that it  *)
(* cannot take would be one more than a number that it can.                *)
LEMMA TurnsExist ==
  ASSUME NEW f, NEW skbs, NEW m \in Nat
  PROVE  \E g : Turns(g, f, skbs, m)
<1> DEFINE Bad == {k \in Nat : ~\E g : Turns(g, f, skbs, k)}
<1>1. ASSUME Bad # {} PROVE FALSE
  <2>1. PICK k \in Bad : \A i \in Bad : k <= i
        BY <1>1, SmallestOf
  <2>2. CASE k = 0
    <3>1. Turns([n \in 0 .. 0 |-> f], f, skbs, 0)
          BY DEF Turns
    <3> QED BY <2>2, <3>1
  <2>3. CASE k # 0
    <3>1. k - 1 \in Nat /\ k \in Nat
          BY <2>3
    <3>2. k - 1 \notin Bad
          BY <2>1, <3>1
    <3>3. PICK g : Turns(g, f, skbs, k - 1)
          BY <3>1, <3>2
    <3> DEFINE h == [n \in 0 .. k |->
                       IF n = 0 THEN f
                       ELSE IF g[n - 1] # << >> /\ Head(g[n - 1]) = skbs[n]
                            THEN Tail(g[n - 1]) ELSE g[n - 1]]
    <3>4. \A n \in 0 .. (k - 1) : h[n] = g[n]
      <4> TAKE n \in 0 .. (k - 1)
      <4> DEFINE next == IF n = 0 THEN f
                         ELSE IF g[n - 1] # << >> /\ Head(g[n - 1]) = skbs[n]
                              THEN Tail(g[n - 1]) ELSE g[n - 1]
      <4>1. n \in 0 .. k
            BY <3>1
      <4>2. h[n] = next
            BY <4>1
      <4>3. g[n] = next
            BY <3>3, Zenon DEF Turns
      <4> QED BY <4>2, <4>3
    <3>5. \A n \in 0 .. k : n # 0 => n - 1 \in 0 .. (k - 1)
          BY <3>1
    <3>6. Turns(h, f, skbs, k)
          BY <3>4, <3>5 DEF Turns
    <3> QED BY <3>6
  <2> QED BY <2>2, <2>3
<1> QED BY <1>1

LEMMA RemovedTurns ==
  ASSUME NEW f, NEW skbs, Len(skbs) \in Nat
  PROVE  \E g : Turns(g, f, skbs, Len(skbs)) /\ Removed(f, skbs) = g[Len(skbs)]
<1> DEFINE left == CHOOSE g : Turns(g, f, skbs, Len(skbs))
<1>1. Turns(left, f, skbs, Len(skbs))
      BY TurnsExist
<1>2. Removed(f, skbs) = left[Len(skbs)]
      BY DEF Removed, Turns
<1> QED BY <1>1, <1>2
(* What is left of a FIFO is a FIFO and not longer; if the frames begin    *)
(* the FIFO, they are what is removed.                                     *)
LEMMA RemovedFacts ==
  ASSUME NEW f \in Seq(Skbs), NEW skbs \in Seq(Skbs)
  PROVE  /\ Removed(f, skbs) \in Seq(Skbs) /\ Len(Removed(f, skbs)) <= Len(f)
         /\ IsPrefix(skbs, f) =>
              Removed(f, skbs) = SubSeq(f, Len(skbs) + 1, Len(f))
<1> DEFINE m == Len(skbs)
<1>1. m \in Nat /\ Len(f) \in Nat
      BY LenProperties
<1>2. PICK g : Turns(g, f, skbs, m) /\ Removed(f, skbs) = g[m]
      BY <1>1, RemovedTurns
<1>3. g[0] = f
      BY <1>1, <1>2 DEF Turns
<1>4. ASSUME NEW n \in 1 .. m
      PROVE  g[n] = IF g[n - 1] # << >> /\ Head(g[n - 1]) = skbs[n]
                    THEN Tail(g[n - 1]) ELSE g[n - 1]
  <2>1. n \in 0 .. m /\ n # 0
        BY <1>1
  <2> QED BY <1>2, <2>1, Zenon DEF Turns
<1> HIDE DEF m
<1>5. \A n \in 0 .. m : g[n] \in Seq(Skbs) /\ Len(g[n]) <= Len(f)
  <2> DEFINE Bad == {n \in 0 .. m : ~(g[n] \in Seq(Skbs) /\ Len(g[n]) <= Len(f))}
  <2>1. ASSUME Bad # {} PROVE FALSE
    <3>1. Bad \subseteq Nat
          BY <1>1
    <3>2. PICK n \in Bad : \A i \in Bad : n <= i
          BY <2>1, <3>1, SmallestOf
    <3>3. n # 0
          BY <1>1, <1>3, <3>2
    <3>4. n \in 1 .. m /\ n - 1 \in 0 .. m /\ ~(n <= n - 1)
          BY <1>1, <3>2, <3>3
    <3>5. g[n - 1] \in Seq(Skbs) /\ Len(g[n - 1]) <= Len(f)
          BY <3>2, <3>4
    <3> DEFINE q == g[n - 1]
    <3> HIDE DEF q
    <3>6. q \in Seq(Skbs) /\ Len(q) <= Len(f) /\ Len(q) \in Nat
          BY <3>5, LenProperties DEF q
    <3>7. q # << >> => Tail(q) \in Seq(Skbs) /\ Len(Tail(q)) = Len(q) - 1
          BY <3>6, HeadTailProperties
    <3>8. q # << >> => Len(Tail(q)) <= Len(f)
          BY <1>1, <3>6, <3>7
    <3>9. g[n] = q \/ (q # << >> /\ g[n] = Tail(q))
          BY <1>4, <3>4 DEF q
    <3>10. g[n] \in Seq(Skbs) /\ Len(g[n]) <= Len(f)
          BY <3>6, <3>7, <3>8, <3>9
    <3> QED BY <3>2, <3>10
  <2> QED BY <2>1
<1>6. ASSUME IsPrefix(skbs, f)
      PROVE  \A n \in 0 .. m : g[n] = SubSeq(f, n + 1, Len(f))
  <2>1. m <= Len(f) /\ \A i \in 1 .. m : skbs[i] = f[i]
    <3>1. m <= Len(f) /\ SubSeq(skbs, 1, m) = SubSeq(f, 1, m)
          BY <1>6 DEF IsPrefix, m
    <3>2. \A i \in 1 .. m : SubSeq(skbs, 1, m)[i] = skbs[i]
          BY <1>1, SubSeqProperties DEF m
    <3>3. \A i \in 1 .. m : SubSeq(f, 1, m)[i] = f[i]
          BY <1>1, <3>1, SubSeqProperties
    <3> QED BY <3>1, <3>2, <3>3
  <2> DEFINE Bad == {n \in 0 .. m : g[n] # SubSeq(f, n + 1, Len(f))}
  <2>2. ASSUME Bad # {} PROVE FALSE
    <3>1. Bad \subseteq Nat
          BY <1>1
    <3>2. PICK n \in Bad : \A i \in Bad : n <= i
          BY <2>2, <3>1, SmallestOf
    <3>3. n # 0
      <4>1. SubSeq(f, 1, Len(f)) = f
        <5>1. /\ SubSeq(f, 1, Len(f)) \in Seq(Skbs) /\ Len(SubSeq(f, 1, Len(f))) = Len(f)
              /\ \A i \in 1 .. Len(f) : SubSeq(f, 1, Len(f))[i] = f[i]
              BY <1>1, SubSeqProperties
        <5> QED BY <5>1, SeqEqual
      <4> QED BY <1>3, <3>2, <4>1
    <3>4. n \in 1 .. m /\ n - 1 \in 0 .. m /\ ~(n <= n - 1) /\ (n - 1) + 1 = n
          /\ n <= Len(f) /\ n \in Nat
          BY <1>1, <2>1, <3>2, <3>3
    <3>5. g[n - 1] = SubSeq(f, n, Len(f))
          BY <3>2, <3>4
    <3> DEFINE q == SubSeq(f, n, Len(f))
               r == SubSeq(f, n + 1, Len(f))
    <3>6. /\ q \in Seq(Skbs) /\ Len(q) = Len(f) - n + 1
          /\ \A i \in 1 .. (Len(f) - n + 1) : q[i] = f[n + i - 1]
          BY <1>1, <3>4, SubSeqProperties
    <3>7. /\ r \in Seq(Skbs) /\ Len(r) = Len(f) - n
          /\ \A i \in 1 .. (Len(f) - n) : r[i] = f[n + i]
          BY <1>1, <3>4, SubSeqProperties
    <3> HIDE DEF q, r
    <3>8. q # << >>
      <4>1. Len(q) # 0
            BY <1>1, <3>4, <3>6
      <4> QED BY <4>1
    <3>9. Head(q) = skbs[n]
      <4>1. Head(q) = q[1]
            BY <3>6, <3>8, HeadTailProperties
      <4>2. q[1] = f[n]
            BY <1>1, <3>4, <3>6
      <4> QED BY <2>1, <3>4, <4>1, <4>2
    <3>10. Tail(q) = r
      <4>1. /\ Tail(q) \in Seq(Skbs) /\ Len(Tail(q)) = Len(q) - 1
            /\ \A i \in 1 .. Len(Tail(q)) : Tail(q)[i] = q[i + 1]
            BY <3>6, <3>8, HeadTailProperties
      <4>2. Len(Tail(q)) = Len(r)
        <5>1. /\ Len(Tail(q)) = Len(q) - 1 /\ Len(q) = Len(f) - n + 1
              /\ Len(r) = Len(f) - n
              BY <3>6, <3>7, <4>1
        <5>2. (Len(f) - n + 1) - 1 = Len(f) - n
              BY <1>1, <3>4
        <5> QED BY <5>1, <5>2
      <4>3. \A i \in 1 .. Len(r) : Tail(q)[i] = r[i]
        <5> TAKE i \in 1 .. Len(r)
        <5>1. /\ i + 1 \in 1 .. (Len(f) - n + 1) /\ n + (i + 1) - 1 = n + i
              /\ i \in 1 .. (Len(f) - n)
              BY <1>1, <3>4, <3>7
        <5>2. Tail(q)[i] = q[i + 1] /\ q[i + 1] = f[n + (i + 1) - 1]
              BY <3>6, <4>1, <4>2, <5>1
        <5> QED BY <3>7, <5>1, <5>2
      <4> QED BY <3>7, <4>1, <4>2, <4>3, SeqEqual
    <3>11. g[n] = r
          BY <1>4, <3>4, <3>5, <3>8, <3>9, <3>10 DEF q
    <3> QED BY <3>2, <3>11 DEF r
  <2> QED BY <2>2
<1>7. m \in 0 .. m
      BY <1>1
<1> QED BY <1>2, <1>5, <1>6, <1>7 DEF m

----------------------------------------------------------------------------
(* The net devices: those of the created slots and of the slot that a      *)
(* command is deleting, which is created no more.  lte0 is never deleted.  *)
Registered ==
  /\ lte0 \in pnet
  /\ cmd.step = "none" => cmd = NoCmd /\ devs = pnet
  /\ cmd.step # "none" => cmd.slot \notin pnet /\ devs = pnet \cup {cmd.slot}
  /\ cnt = Cardinality(devs)

(* The driver is throttled exactly while the HIF is to call resume.        *)
Throttled == "TX_THROTTLE" \in dd <=> "pause" \in hif

(* Until the HIF is ready no frame outlives the transfer tried when it was *)
(* queued, so that none is found by hif_ready with nobody to send it.      *)
NothingBeforeReady ==
  "ready" \notin hif =>
    /\ dd = {}
    /\ pc = "idle" => \A i \in Slots : fifo[i] = << >>
    /\ pc = "sdma_tx" => \E i \in pnet : /\ Len(fifo[i]) <= 1
                                         /\ \A j \in Slots : j # i => fifo[j] = << >>

(* The inductive invariant.                                                *)
IInv ==
  /\ TypeOK
  /\ Registered
  /\ Throttled
  /\ NothingBeforeReady
  /\ InFlightAtHead
  /\ WorkConserving
  /\ StoppedWillWake

----------------------------------------------------------------------------
(* A prefix element by element.                                            *)
LEMMA PrefixFacts ==
  ASSUME NEW S, NEW s \in Seq(S), NEW t \in Seq(S)
  PROVE  IsPrefix(s, t) <=> Len(s) <= Len(t) /\ \A i \in 1 .. Len(s) : s[i] = t[i]
<1> DEFINE n == Len(s)
           a == SubSeq(s, 1, n)
           b == SubSeq(t, 1, n)
<1>1. n \in Nat /\ Len(t) \in Nat
      BY LenProperties
<1>2. a \in Seq(S) /\ Len(a) = n /\ \A i \in 1 .. n : a[i] = s[i]
      BY <1>1, SubSeqProperties
<1>3. ASSUME n <= Len(t)
      PROVE  b \in Seq(S) /\ Len(b) = n /\ \A i \in 1 .. n : b[i] = t[i]
      BY <1>1, <1>3, SubSeqProperties
<1>4. IsPrefix(s, t) <=> n <= Len(t) /\ a = b
      BY DEF IsPrefix
<1> HIDE DEF a, b
<1>5. ASSUME n <= Len(t) PROVE a = b <=> \A i \in 1 .. n : s[i] = t[i]
  <2>1. ASSUME \A i \in 1 .. n : s[i] = t[i] PROVE a = b
        BY <1>2, <1>3, <1>5, <2>1, SeqEqual
  <2>2. ASSUME a = b PROVE \A i \in 1 .. n : s[i] = t[i]
        BY <1>2, <1>3, <1>5, <2>2
  <2> QED BY <2>1, <2>2
<1> QED BY <1>4, <1>5

LEMMA PrefixAppend ==
  ASSUME NEW S, NEW s \in Seq(S), NEW t \in Seq(S), NEW x \in S, IsPrefix(s, t)
  PROVE  IsPrefix(s, Append(t, x))
<1> DEFINE u == Append(t, x)
<1>1. Len(s) \in Nat /\ Len(t) \in Nat
      BY LenProperties
<1>2. /\ u \in Seq(S) /\ Len(u) = Len(t) + 1 /\ \A i \in 1 .. Len(t) : u[i] = t[i]
      BY AppendProperties
<1>3. Len(s) <= Len(t) /\ \A i \in 1 .. Len(s) : s[i] = t[i]
      BY PrefixFacts
<1> HIDE DEF u
<1>4. Len(s) <= Len(u) /\ \A i \in 1 .. Len(s) : s[i] = u[i]
      BY <1>1, <1>2, <1>3
<1>5. IsPrefix(s, u)
      BY <1>2, <1>4, PrefixFacts
<1> QED BY <1>5 DEF u

(* What is offered to submit_ul: at least one frame, the oldest, ...       *)
LEMMA OfferedFacts ==
  ASSUME TypeOK, NEW i \in Slots, fifo[i] # << >>, NEW skbs \in Offered(i)
  PROVE  /\ skbs \in Seq(Skbs) /\ Len(skbs) \in Nat /\ Len(skbs) > 0
         /\ IsPrefix(skbs, fifo[i])
         /\ Len(fifo[i]) = 1 => skbs = fifo[i]
<1> DEFINE f == fifo[i]
<1>1. f \in Seq(Skbs) /\ Len(f) \in Nat /\ Len(f) > 0
      BY EmptySeq, LenProperties DEF TypeOK
<1> HIDE DEF f
<1>2. PICK n \in 1 .. Len(f) : skbs = SubSeq(f, 1, n)
  <2> DEFINE most == IF Len(f) < MaxBatch THEN Len(f) ELSE MaxBatch
  <2>1. 1 \in 1 .. Len(f) /\ most \in 1 .. Len(f)
        BY <1>1, DataUlAssumption
  <2>2. Offered(i) = {SubSeq(f, 1, n) : n \in {1, most}}
        BY DEF Offered, f
  <2> QED BY <2>1, <2>2
<1>3. /\ skbs \in Seq(Skbs) /\ Len(skbs) = n /\ \A j \in 1 .. n : skbs[j] = f[j]
      BY <1>1, <1>2, SubSeqProperties
<1>4. IsPrefix(skbs, f)
  <2>1. Len(skbs) <= Len(f) /\ \A j \in 1 .. Len(skbs) : skbs[j] = f[j]
        BY <1>1, <1>2, <1>3
  <2> QED BY <1>1, <1>3, <2>1, PrefixFacts
<1>5. Len(f) = 1 => skbs = f
      BY <1>1, <1>2, <1>3, SeqEqual
<1> QED BY <1>1, <1>2, <1>3, <1>4, <1>5 DEF f

(* ... and of that the HIF accepts the first n.                            *)
LEMMA AcceptedFacts ==
  ASSUME NEW f \in Seq(Skbs), NEW skbs \in Seq(Skbs), IsPrefix(skbs, f),
         NEW n \in 0 .. Len(skbs)
  PROVE  /\ SubSeq(skbs, 1, n) \in Seq(Skbs) /\ IsPrefix(SubSeq(skbs, 1, n), f)
         /\ SubSeq(skbs, 1, n) = << >> <=> n = 0
<1> DEFINE a == SubSeq(skbs, 1, n)
<1>1. Len(skbs) \in Nat /\ Len(f) \in Nat
      BY LenProperties
<1>2. a \in Seq(Skbs) /\ Len(a) = n /\ \A i \in 1 .. n : a[i] = skbs[i]
      BY <1>1, SubSeqProperties
<1>3. Len(skbs) <= Len(f) /\ \A i \in 1 .. Len(skbs) : skbs[i] = f[i]
      BY PrefixFacts
<1> HIDE DEF a
<1>4. IsPrefix(a, f)
      BY <1>1, <1>2, <1>3, PrefixFacts
<1>5. a = << >> <=> n = 0
      BY <1>2, EmptySeq
<1> QED BY <1>2, <1>4, <1>5 DEF a

(* The turn stays with a slot.                                             *)
LEMMA TurnTyped ==
  ASSUME TypeOK, NEW i \in Slots
  PROVE  NextTurn(i) \in Slots
<1>1. MAX_SLOTS \in Nat /\ MAX_SLOTS > 0 /\ i \in Nat /\ i + 1 \in Nat
      BY DataUlAssumption DEF Slots
<1>2. (i + 1) % MAX_SLOTS \in 0 .. (MAX_SLOTS - 1)
      BY <1>1, DivMod, Zenon
<1> QED BY <1>2 DEF NextTurn, Slots, TypeOK

(* Every slot has its turn.                                                *)
LEMMA TurnFacts ==
  ASSUME rr \in Slots
  PROVE  /\ \A k \in Slots : Turn(k) \in Slots
         /\ \A i \in Slots : \E k \in Slots : Turn(k) = i
<1>1. MAX_SLOTS \in Nat \ {0} /\ rr \in 0 .. (MAX_SLOTS - 1)
      BY DataUlAssumption DEF Slots
<1>2. ASSUME NEW k \in 0 .. (MAX_SLOTS - 1)
      PROVE  (rr + k) % MAX_SLOTS = IF rr + k < MAX_SLOTS THEN rr + k ELSE rr + k - MAX_SLOTS
      BY <1>1
<1>3. \A k \in Slots : Turn(k) = IF rr + k < MAX_SLOTS THEN rr + k ELSE rr + k - MAX_SLOTS
      BY <1>2 DEF Turn, Slots
<1>4. \A k \in Slots : Turn(k) \in Slots
      BY <1>1, <1>3 DEF Slots
<1>5. ASSUME NEW i \in Slots
      PROVE  \E k \in Slots : Turn(k) = i
  <2>1. CASE i >= rr
    <3>1. i - rr \in Slots /\ rr + (i - rr) < MAX_SLOTS /\ rr + (i - rr) = i
          BY <1>1, <2>1 DEF Slots
    <3>2. Turn(i - rr) = i
          BY <1>3, <3>1
    <3> QED BY <3>1, <3>2
  <2>2. CASE i < rr
    <3> DEFINE k == i - rr + MAX_SLOTS
    <3>1. k \in Slots /\ ~(rr + k < MAX_SLOTS) /\ rr + k - MAX_SLOTS = i
          BY <1>1, <2>2 DEF Slots
    <3> HIDE DEF k
    <3>2. Turn(k) = i
          BY <1>3, <3>1
    <3> QED BY <3>1, <3>2
  <2> QED BY <1>1, <2>1, <2>2 DEF Slots
<1> QED BY <1>4, <1>5

(* The scheduler finds a created interface with a frame if there is one.   *)
LEMMA LookupFacts ==
  ASSUME TypeOK, Registered
  PROVE  /\ \A i \in lte_dd_ni_interface_fifo_lookup :
              i \in pnet /\ i \in Slots /\ fifo[i] # << >>
         /\ lte_dd_ni_interface_fifo_lookup = {} => \A i \in pnet : fifo[i] = << >>
<1>1. CASE cnt = 1
  <2>1. devs = {lte0}
    <3>1. IsFiniteSet(devs)
      <4>1. IsFiniteSet(Slots)
            BY FS_Interval, DataUlAssumption DEF Slots
      <4> QED BY <4>1, FS_Subset DEF TypeOK
    <3>2. PICK x : devs = {x}
          BY <1>1, <3>1, FS_Singleton DEF Registered
    <3>3. lte0 \in devs
          BY DEF Registered
    <3> QED BY <3>2, <3>3
  <2>2. pnet = {lte0}
        BY <2>1 DEF Registered
  <2>3. lte_dd_ni_interface_fifo_lookup = {i \in {lte0} : fifo[i] # << >>}
        BY <1>1 DEF lte_dd_ni_interface_fifo_lookup
  <2>4. lte0 \in Slots
        BY DataUlAssumption DEF Slots, lte0
  <2> QED BY <2>2, <2>3, <2>4
<1>2. CASE cnt # 1
  <2> DEFINE Ready == {k \in Slots : Turn(k) \in pnet /\ fifo[Turn(k)] # << >>}
             First == {j \in Slots : /\ j \in Ready
                                     /\ \A h \in 0 .. (j - 1) :
                                          ~(Turn(h) \in pnet /\ fifo[Turn(h)] # << >>)}
  <2>1. lte_dd_ni_interface_fifo_lookup = {Turn(k) : k \in First}
        BY <1>2 DEF lte_dd_ni_interface_fifo_lookup
  <2>2. \A i \in lte_dd_ni_interface_fifo_lookup :
          i \in pnet /\ i \in Slots /\ fifo[i] # << >>
        BY <2>1 DEF TypeOK
  <2>3. ASSUME NEW i \in pnet, fifo[i] # << >>
        PROVE  First # {}
    <3>1. PICK k \in Slots : Turn(k) = i
          BY TurnFacts DEF TypeOK
    <3>2. Ready # {} /\ Ready \subseteq Nat
          BY <2>3, <3>1 DEF Slots
    <3> HIDE DEF Ready
    <3>3. PICK j \in Ready : \A h \in Ready : j <= h
          BY <3>2, SmallestOf
    <3>4. j \in Slots /\ \A h \in 0 .. (j - 1) : h \in Slots /\ ~(j <= h)
      <4>1. j \in Slots
            BY DEF Ready
      <4> QED BY <4>1, DataUlAssumption DEF Slots
    <3>5. \A h \in 0 .. (j - 1) : ~(Turn(h) \in pnet /\ fifo[Turn(h)] # << >>)
          BY <3>3, <3>4 DEF Ready
    <3>6. j \in First
          BY <3>3, <3>4, <3>5
    <3> QED BY <3>6
  <2> HIDE DEF First
  <2>4. lte_dd_ni_interface_fifo_lookup = {} => First = {}
        BY <2>1
  <2> QED BY <2>2, <2>3, <2>4
<1> QED BY <1>1, <1>2

----------------------------------------------------------------------------
LEMMA InitIInv == Init => IInv
<1> SUFFICES ASSUME Init PROVE IInv
    OBVIOUS
<1>1. lte0 \in Slots /\ lte0 = 0
      BY DataUlAssumption DEF Slots, lte0
<1>2. Cardinality({lte0}) = 1
      BY FS_Singleton
<1>3. TypeOK
  <2>1. fifo \in [Slots -> Seq(Skbs)] /\ \A i \in Slots : Len(fifo[i]) <= FIFO_SIZE
        BY DataUlAssumption DEF Init
  <2>2. /\ cnt \in 1 .. MAX_SLOTS /\ rr \in Slots
        BY <1>1, DataUlAssumption DEF Init
  <2> QED BY <1>1, <2>1, <2>2 DEF Init, TypeOK, NoXfer, NoCmd
<1>4. Registered /\ Throttled /\ NothingBeforeReady
      BY <1>2 DEF Init, Registered, Throttled, NothingBeforeReady, NoCmd
<1>5. InFlightAtHead /\ WorkConserving /\ StoppedWillWake
      BY <1>1 DEF Init, InFlightAtHead, WorkConserving, StoppedWillWake
<1> QED BY <1>3, <1>4, <1>5 DEF IInv

(* lte_dd_sdma_tx finds a reason to wait for every frame it leaves, ...    *)
LEMMA NothingStep ==
  ASSUME IInv, lte_dd_sdma_tx_nothing
  PROVE  IInv'
<1>1. /\ pc = "sdma_tx" /\ pc' = "idle" /\ Blocked
      /\ UNCHANGED <<fifo, pnet, cnt, devs, up, stopped, dd, ni_busy, xfer, rr, hif,
                     sdma, cmd>>
      BY DEF lte_dd_sdma_tx_nothing, net
<1>2. TypeOK' /\ Registered' /\ Throttled'
      BY <1>1 DEF IInv, TypeOK, Registered, Throttled
<1>3. InFlightAtHead' /\ StoppedWillWake'
      BY <1>1 DEF IInv, InFlightAtHead, StoppedWillWake
<1>4. dd # {} \/ \A i \in pnet : fifo[i] = << >>
      BY <1>1, LookupFacts DEF IInv, Blocked
<1>5. WorkConserving'
  <2>1. dd # {} => sdma # << >> \/ "pause" \in hif
        BY DEF IInv, TypeOK, InFlightAtHead, Throttled
  <2> QED BY <1>1, <1>4, <2>1 DEF WorkConserving
<1>6. NothingBeforeReady'
  <2> SUFFICES ASSUME "ready" \notin hif
               PROVE  dd = {} /\ \A i \in Slots : fifo[i] = << >>
      BY <1>1 DEF NothingBeforeReady
  <2> QED BY <1>1, <1>4 DEF IInv, NothingBeforeReady
<1> QED BY <1>2, <1>3, <1>5, <1>6 DEF IInv

(* ... starts a transfer of the oldest frames of a created interface, ...  *)
LEMMA SubmitStep ==
  ASSUME IInv, NEW i \in Slots, NEW n \in 0 .. MaxBatch, lte_dd_sdma_tx_submit(i, n)
  PROVE  /\ IInv'
         /\ dd = {} /\ sdma = << >> /\ "ready" \in hif /\ "ready" \in hif'
         /\ dd' # {} /\ "pause" \notin hif
<1>1. PICK skbs \in Offered(i) :
        /\ n <= Len(skbs)
        /\ rr' = NextTurn(i)
        /\ xfer' = [slot |-> i, skbs |-> Accepted(skbs, n)]
        /\ dd' = (IF n > 0 THEN {"TX_BUSY"} ELSE {})
                   \cup (IF n < Len(skbs) THEN {"TX_THROTTLE"} ELSE {})
        /\ ni_busy' = IF n > 0 THEN ni_busy \cup {i} ELSE ni_busy
        /\ sdma' = SubSeq(skbs, 1, n)
        /\ hif' = hif \cup (IF n < Len(skbs) THEN {"pause"} ELSE {})
      BY DEF lte_dd_sdma_tx_submit
<1>2. /\ pc = "sdma_tx" /\ pc' = "idle" /\ dd = {} /\ "ready" \in hif
      /\ i \in lte_dd_ni_interface_fifo_lookup
      /\ UNCHANGED <<fifo, pnet, cnt, devs, up, stopped, cmd>>
      BY DEF lte_dd_sdma_tx_submit, net, Blocked
<1>3. i \in pnet /\ fifo[i] # << >> /\ fifo[i] \in Seq(Skbs)
      BY <1>2, LookupFacts DEF IInv, TypeOK
<1>4. /\ skbs \in Seq(Skbs) /\ Len(skbs) \in Nat /\ Len(skbs) > 0
      /\ IsPrefix(skbs, fifo[i])
      BY <1>3, OfferedFacts DEF IInv
<1>5. n \in 0 .. Len(skbs) /\ n \in Nat
      BY <1>1, <1>4
<1>6. /\ sdma' \in Seq(Skbs) /\ IsPrefix(sdma', fifo[i]) /\ (sdma' = << >> <=> n = 0)
      /\ xfer' = [slot |-> i, skbs |-> sdma']
      BY <1>1, <1>3, <1>4, <1>5, AcceptedFacts DEF Accepted
<1>7. sdma = << >> /\ ni_busy = {} /\ "pause" \notin hif
      BY <1>2 DEF IInv, InFlightAtHead, Throttled
<1>8. rr' \in Slots
      BY <1>1, TurnTyped DEF IInv
<1>9. /\ "TX_BUSY" \in dd' <=> n > 0
      /\ "TX_THROTTLE" \in dd' <=> n < Len(skbs)
      /\ "pause" \in hif' <=> n < Len(skbs)
      /\ dd' \subseteq {"TX_BUSY", "TX_THROTTLE"} /\ hif' \subseteq {"ready", "pause"}
      /\ "ready" \in hif'
      BY <1>1, <1>2, <1>7 DEF IInv, TypeOK
<1>10. TypeOK'
  <2>1. xfer' \in [slot : Slots, skbs : Seq(Skbs)]
        BY <1>6
  <2>2. ni_busy' \subseteq Slots
        BY <1>1, <1>7
  <2> QED BY <1>2, <1>6, <1>8, <1>9, <2>1, <2>2 DEF IInv, TypeOK
<1>11. Registered' /\ Throttled' /\ NothingBeforeReady' /\ StoppedWillWake'
      BY <1>2, <1>9 DEF IInv, Registered, Throttled, NothingBeforeReady,
         StoppedWillWake
<1>12. InFlightAtHead'
  <2>1. xfer'.slot = i /\ xfer'.skbs = sdma'
        BY <1>6
  <2>2. CASE n = 0
    <3>1. ni_busy' = {}
          BY <1>1, <1>7, <2>2
    <3> QED BY <1>6, <1>9, <2>2, <3>1 DEF InFlightAtHead
  <2>3. CASE n > 0
    <3>1. ni_busy' = {i} /\ sdma' # << >>
          BY <1>1, <1>5, <1>6, <1>7, <2>3
    <3> QED BY <1>2, <1>3, <1>6, <1>9, <2>1, <2>3, <3>1 DEF InFlightAtHead
  <2> QED BY <1>5, <2>2, <2>3
<1>13. WorkConserving' /\ dd' # {}
  <2>1. n = 0 \/ n > 0
        BY <1>5
  <2> QED BY <1>4, <1>6, <1>9, <2>1 DEF WorkConserving
<1> QED BY <1>2, <1>7, <1>9, <1>10, <1>11, <1>12, <1>13 DEF IInv

(* ... or drops the only frame there is.                                   *)
LEMMA DropStep ==
  ASSUME IInv, lte_dd_sdma_tx_drop
  PROVE  IInv'
<1>1. /\ pc = "sdma_tx" /\ pc' = "idle" /\ "ready" \notin hif /\ xfer' = NoXfer
      /\ UNCHANGED <<pnet, cnt, devs, up, dd, ni_busy, hif, sdma, cmd>>
      BY DEF lte_dd_sdma_tx_drop, net
<1>2. PICK i \in lte_dd_ni_interface_fifo_lookup : \E skbs \in Offered(i) :
        /\ rr' = NextTurn(i)
        /\ fifo' = [fifo EXCEPT ![i] = Removed(@, skbs)]
        /\ net_drv_tx_complete(i, Removed(fifo[i], skbs))
      BY DEF lte_dd_sdma_tx_drop
<1>3. i \in pnet /\ i \in Slots /\ fifo[i] # << >> /\ fifo[i] \in Seq(Skbs)
      BY LookupFacts DEF IInv, TypeOK
<1>4. PICK skbs \in Offered(i) :
        /\ rr' = NextTurn(i)
        /\ fifo' = [fifo EXCEPT ![i] = Removed(@, skbs)]
        /\ net_drv_tx_complete(i, Removed(fifo[i], skbs))
      BY <1>2
<1>5. dd = {} /\ sdma = << >> /\ ni_busy = {} /\ "pause" \notin hif
      BY <1>1 DEF IInv, NothingBeforeReady, InFlightAtHead, Throttled
<1>6. Len(fifo[i]) = 1 /\ \A j \in Slots : j # i => fifo[j] = << >>
  <2>1. PICK k \in pnet : /\ Len(fifo[k]) <= 1
                          /\ \A j \in Slots : j # k => fifo[j] = << >>
        BY <1>1 DEF IInv, NothingBeforeReady
  <2>2. k = i
        BY <1>3, <2>1
  <2>3. Len(fifo[i]) \in Nat /\ Len(fifo[i]) # 0
        BY <1>3, EmptySeq, LenProperties
  <2>4. Len(fifo[i]) <= 1 /\ \A j \in Slots : j # i => fifo[j] = << >>
        BY <2>1, <2>2
  <2>5. \A m \in Nat : m <= 1 /\ m # 0 => m = 1
        OBVIOUS
  <2> QED BY <2>3, <2>4, <2>5
<1>7. Removed(fifo[i], skbs) = << >>
  <2> DEFINE f == fifo[i]
  <2>1. f \in Seq(Skbs) /\ skbs = f /\ Len(f) = 1
        BY <1>3, <1>6, OfferedFacts DEF IInv
  <2> HIDE DEF f
  <2>2. IsPrefix(f, f)
        BY <2>1, PrefixFacts
  <2>3. Removed(f, f) = SubSeq(f, 2, 1)
        BY <2>1, <2>2, RemovedFacts
  <2>4. SubSeq(f, 2, 1) = << >>
    <3>1. SubSeq(f, 2, 1) \in Seq(Skbs) /\ Len(SubSeq(f, 2, 1)) = 0
          BY <2>1, SubSeqProperties
    <3> QED BY <3>1, EmptySeq
  <2> QED BY <2>1, <2>3, <2>4 DEF f
<1>8. /\ fifo' \in [Slots -> Seq(Skbs)] /\ \A j \in Slots : fifo'[j] = << >>
      BY <1>3, <1>4, <1>6, <1>7 DEF IInv, TypeOK
<1>9. stopped' = stopped \ {i}
  <2>1. 0 <= FIFO_SIZE \div 2
        BY DataUlAssumption
  <2> QED BY <1>4, <1>7, <2>1 DEF net_drv_tx_complete, DrainedEnough
<1>10. TypeOK'
  <2>1. rr' \in Slots /\ lte0 \in Slots
        BY <1>3, <1>4, DataUlAssumption DEF NextTurn, Slots, IInv, TypeOK, lte0
  <2>2. \A j \in Slots : Len(fifo'[j]) <= FIFO_SIZE
        BY <1>8, DataUlAssumption
  <2> QED BY <1>1, <1>8, <1>9, <2>1, <2>2 DEF IInv, TypeOK, NoXfer
<1>11. Registered' /\ Throttled' /\ NothingBeforeReady'
      BY <1>1, <1>5, <1>8 DEF IInv, Registered, Throttled, NothingBeforeReady
<1>12. InFlightAtHead' /\ WorkConserving'
  <2>1. pnet \subseteq Slots
        BY DEF IInv, TypeOK
  <2> QED BY <1>1, <1>5, <1>8, <2>1 DEF InFlightAtHead, WorkConserving
<1>13. StoppedWillWake'
  <2>1. \A j \in up \cap stopped \cap pnet : j = i
    <3> TAKE j \in up \cap stopped \cap pnet
    <3>1. j \in Slots /\ Len(fifo[j]) > FIFO_SIZE \div 2
          BY DEF IInv, TypeOK, StoppedWillWake
    <3>2. ~(0 > FIFO_SIZE \div 2)
          BY DataUlAssumption
    <3> QED BY <1>6, <3>1, <3>2
  <2> QED BY <1>1, <1>9, <2>1 DEF StoppedWillWake
<1> QED BY <1>10, <1>11, <1>12, <1>13 DEF IInv

(* A frame from the stack goes behind those in transfer.                   *)
LEMMA DevTxStep ==
  ASSUME IInv, NEW i \in Slots, net_drv_dev_tx(i)
  PROVE  IInv'
<1>1. /\ pc = "idle" /\ i \in up /\ i \notin stopped
      /\ UNCHANGED <<pnet, cnt, devs, up, dd, ni_busy, xfer, rr, hif, sdma, cmd>>
      BY DEF net_drv_dev_tx, net
<1>2. Registered' /\ Throttled'
      BY <1>1 DEF IInv, Registered, Throttled
<1>3. CASE lte_dd_tx_data_start(i)
  <2>1. PICK s \in Skbs : fifo' = [fifo EXCEPT ![i] = Append(@, s)]
        BY <1>3 DEF lte_dd_tx_data_start
  <2>2. i \in pnet /\ Len(fifo[i]) # FIFO_SIZE /\ pc' = "sdma_tx" /\ stopped' = stopped
        BY <1>3 DEF lte_dd_tx_data_start, Full
  <2> DEFINE f == fifo[i]
  <2>3. f \in Seq(Skbs) /\ Len(f) \in Nat /\ Len(f) <= FIFO_SIZE
        BY LenProperties DEF IInv, TypeOK
  <2>4. /\ fifo'[i] = Append(f, s) /\ \A j \in Slots : j # i => fifo'[j] = fifo[j]
        BY <2>1 DEF IInv, TypeOK
  <2> HIDE DEF f
  <2>5. Append(f, s) \in Seq(Skbs) /\ Len(Append(f, s)) = Len(f) + 1
        BY <2>3, AppendProperties
  <2>6. Len(fifo'[i]) <= FIFO_SIZE
    <3>1. Len(f) # FIFO_SIZE
          BY <2>2 DEF f
    <3> QED BY <2>3, <2>4, <2>5, <3>1, DataUlAssumption
  <2>7. TypeOK'
    <3>1. fifo' \in [Slots -> Seq(Skbs)]
          BY <2>1, <2>5 DEF IInv, TypeOK, f
    <3>2. \A j \in Slots : Len(fifo'[j]) <= FIFO_SIZE
          BY <2>4, <2>6 DEF IInv, TypeOK
    <3> QED BY <1>1, <2>2, <3>1, <3>2 DEF IInv, TypeOK
  <2>8. InFlightAtHead'
    <3>1. sdma # << >> => IsPrefix(sdma, fifo'[xfer.slot])
      <4> SUFFICES ASSUME sdma # << >> PROVE IsPrefix(sdma, fifo'[xfer.slot])
          OBVIOUS
      <4>1. /\ sdma \in Seq(Skbs) /\ xfer.slot \in Slots
            /\ IsPrefix(sdma, fifo[xfer.slot])
            BY DEF IInv, TypeOK, InFlightAtHead
      <4>2. CASE xfer.slot = i
        <5>1. IsPrefix(sdma, f)
              BY <4>1, <4>2 DEF f
        <5>2. IsPrefix(sdma, Append(f, s))
              BY <2>3, <4>1, <5>1, PrefixAppend
        <5> QED BY <2>4, <4>2, <5>2
      <4>3. CASE xfer.slot # i
            BY <2>4, <4>1, <4>3
      <4> QED BY <4>2, <4>3
    <3> QED BY <1>1, <3>1 DEF IInv, InFlightAtHead
  <2>9. WorkConserving' /\ StoppedWillWake'
    <3>1. \A j \in up \cap stopped \cap pnet : j # i /\ j \in Slots
          BY <1>1 DEF IInv, TypeOK
    <3> QED BY <1>1, <2>2, <2>4, <3>1 DEF IInv, WorkConserving, StoppedWillWake
  <2>10. NothingBeforeReady'
    <3> SUFFICES ASSUME "ready" \notin hif
                 PROVE  /\ dd = {} /\ Len(fifo'[i]) <= 1
                        /\ \A j \in Slots : j # i => fifo'[j] = << >>
        BY <1>1, <2>2 DEF NothingBeforeReady
    <3>1. dd = {} /\ f = << >> /\ \A j \in Slots : fifo[j] = << >>
          BY <1>1 DEF IInv, NothingBeforeReady, f
    <3> QED BY <2>4, <2>5, <3>1
  <2> QED BY <1>2, <2>7, <2>8, <2>9, <2>10 DEF IInv
<1>4. CASE lte_dd_bus_control_drain(i)
  <2>1. /\ i \in pnet /\ Len(fifo[i]) = FIFO_SIZE /\ stopped' = stopped \cup {i}
        /\ pc' = "sdma_tx" /\ fifo' = fifo
        BY <1>4 DEF lte_dd_bus_control_drain, Full
  <2>2. FIFO_SIZE > FIFO_SIZE \div 2
        BY DataUlAssumption
  <2>3. TypeOK' /\ InFlightAtHead' /\ WorkConserving'
        BY <1>1, <2>1 DEF IInv, TypeOK, InFlightAtHead, WorkConserving
  <2>4. StoppedWillWake'
        BY <1>1, <2>1, <2>2 DEF IInv, StoppedWillWake
  <2>5. NothingBeforeReady'
    <3>1. "ready" \notin hif => Len(fifo[i]) = 0
          BY <1>1 DEF IInv, NothingBeforeReady
    <3> QED BY <1>1, <2>1, <3>1, DataUlAssumption DEF NothingBeforeReady
  <2> QED BY <1>2, <2>3, <2>4, <2>5 DEF IInv
<1>5. CASE UNCHANGED <<fifo, stopped, pc>>
      BY <1>1, <1>2, <1>5 DEF IInv, TypeOK, InFlightAtHead, WorkConserving,
         StoppedWillWake, NothingBeforeReady
<1> QED BY <1>3, <1>4, <1>5 DEF net_drv_dev_tx

(* The completion takes its frames out of a FIFO that is still there.      *)
LEMMA CompleteStep ==
  ASSUME IInv, lte_dd_4ghif_ul_complete_cb
  PROVE  /\ IInv'
         /\ sdma # << >> /\ "TX_BUSY" \in dd /\ sdma' = << >> /\ hif' = hif
         /\ dd' = dd \ {"TX_BUSY"}
<1> DEFINE i == xfer.slot
           left == Removed(fifo[i], xfer.skbs)
<1>1. /\ pc = "idle" /\ pc' = "sdma_tx" /\ sdma # << >> /\ sdma' = << >>
      /\ fifo' = [fifo EXCEPT ![i] = left] /\ net_drv_tx_complete(i, left)
      /\ ni_busy' = ni_busy \ {i} /\ dd' = dd \ {"TX_BUSY"} /\ xfer' = NoXfer
      /\ UNCHANGED <<pnet, cnt, devs, up, rr, hif, cmd>>
      BY DEF lte_dd_4ghif_ul_complete_cb, net, NiNoLongerBusy
<1>2. /\ i \in pnet /\ ni_busy = {i} /\ "TX_BUSY" \in dd /\ "ready" \in hif
      BY <1>1 DEF IInv, InFlightAtHead, NothingBeforeReady
<1>3. i \in Slots /\ left \in Seq(Skbs) /\ Len(left) <= Len(fifo[i])
      BY RemovedFacts DEF IInv, TypeOK
<1>4. Len(fifo[i]) \in Nat /\ Len(fifo[i]) <= FIFO_SIZE /\ Len(left) \in Nat
      BY <1>3, LenProperties DEF IInv, TypeOK
<1> HIDE DEF left, i
<1>5. /\ fifo' \in [Slots -> Seq(Skbs)] /\ fifo'[i] = left
      /\ \A j \in Slots : j # i => fifo'[j] = fifo[j]
      BY <1>1, <1>3 DEF IInv, TypeOK
<1>6. stopped' = IF Len(left) <= FIFO_SIZE \div 2 THEN stopped \ {i} ELSE stopped
      BY <1>1 DEF net_drv_tx_complete, DrainedEnough
<1>7. TypeOK'
  <2>1. \A j \in Slots : Len(fifo'[j]) <= FIFO_SIZE
    <3>1. Len(left) <= FIFO_SIZE
          BY <1>3, <1>4, DataUlAssumption
    <3>2. \A j \in Slots : Len(fifo[j]) <= FIFO_SIZE
          BY DEF IInv, TypeOK
    <3> QED BY <1>5, <3>1, <3>2
  <2>2. lte0 \in Slots
        BY DataUlAssumption DEF Slots, lte0
  <2>3. stopped' \subseteq devs
        BY <1>6 DEF IInv, TypeOK
  <2> QED BY <1>1, <1>2, <1>5, <2>1, <2>2, <2>3 DEF IInv, TypeOK, NoXfer
<1>8. Registered' /\ Throttled' /\ NothingBeforeReady'
      BY <1>1, <1>2 DEF IInv, Registered, Throttled, NothingBeforeReady
<1>9. InFlightAtHead' /\ WorkConserving'
      BY <1>1, <1>2 DEF InFlightAtHead, WorkConserving
<1>10. StoppedWillWake'
  <2> SUFFICES ASSUME NEW j \in up \cap stopped' \cap pnet
               PROVE  Len(fifo'[j]) > FIFO_SIZE \div 2
      BY <1>1 DEF StoppedWillWake
  <2>1. j \in Slots /\ j \in stopped
        BY <1>6 DEF IInv, TypeOK
  <2>2. CASE j = i
    <3>1. ~(Len(left) <= FIFO_SIZE \div 2)
          BY <1>6, <2>2
    <3> QED BY <1>4, <1>5, <2>2, <3>1, DataUlAssumption
  <2>3. CASE j # i
        BY <1>5, <2>1, <2>3 DEF IInv, StoppedWillWake
  <2> QED BY <2>2, <2>3
<1> QED BY <1>1, <1>2, <1>7, <1>8, <1>9, <1>10 DEF IInv

(* The other callbacks of the HIF.                                         *)
LEMMA ResumeStep ==
  ASSUME IInv, lte_dd_4ghif_ul_resume_cb
  PROVE  /\ IInv'
         /\ "pause" \in hif /\ hif' = hif \ {"pause"} /\ dd' = dd \ {"TX_THROTTLE"}
         /\ sdma' = sdma
<1>1. /\ pc = "idle" /\ pc' = "sdma_tx" /\ "pause" \in hif /\ hif' = hif \ {"pause"}
      /\ dd' = dd \ {"TX_THROTTLE"}
      /\ UNCHANGED <<fifo, pnet, cnt, devs, up, stopped, ni_busy, xfer, rr, sdma, cmd>>
      BY DEF lte_dd_4ghif_ul_resume_cb, net, ResumeRestarts
<1>2. "ready" \in hif
      BY <1>1 DEF IInv, Throttled, NothingBeforeReady
<1>3. TypeOK' /\ Registered' /\ Throttled' /\ NothingBeforeReady'
      BY <1>1, <1>2 DEF IInv, TypeOK, Registered, Throttled, NothingBeforeReady
<1>4. InFlightAtHead' /\ WorkConserving' /\ StoppedWillWake'
      BY <1>1 DEF IInv, InFlightAtHead, WorkConserving, StoppedWillWake
<1> QED BY <1>1, <1>3, <1>4 DEF IInv

LEMMA ReadyStep ==
  ASSUME IInv, hif_ready
  PROVE  IInv'
<1>1. /\ pc = "idle" /\ "ready" \notin hif /\ hif' = hif \cup {"ready"}
      /\ UNCHANGED <<fifo, pnet, cnt, devs, up, stopped, dd, ni_busy, xfer, rr, sdma,
                     pc, cmd>>
      BY DEF hif_ready, net
<1>2. TypeOK' /\ Registered' /\ Throttled' /\ NothingBeforeReady'
      BY <1>1 DEF IInv, TypeOK, Registered, Throttled, NothingBeforeReady
<1>3. InFlightAtHead' /\ WorkConserving' /\ StoppedWillWake'
      BY <1>1 DEF IInv, TypeOK, InFlightAtHead, WorkConserving, StoppedWillWake
<1> QED BY <1>2, <1>3 DEF IInv

----------------------------------------------------------------------------
(* The commands and the net devices: none of them takes the FIFO, or the   *)
(* mark, of the interface with the transfer under way.                     *)
LEMMA OpenStep ==
  ASSUME IInv, NEW i \in Slots, net_drv_dev_open(i) \/ net_drv_dev_release(i)
  PROVE  IInv'
<1>1. /\ i \in devs /\ up' \subseteq devs /\ stopped' \subseteq devs
      /\ \A j \in up' \cap stopped' : j \in up \cap stopped
      /\ UNCHANGED <<fifo, pnet, cnt, devs, dd, ni_busy, xfer, rr, hif, sdma, pc, cmd>>
      BY DEF net_drv_dev_open, net_drv_dev_release, IInv, TypeOK
<1>2. TypeOK' /\ Registered' /\ Throttled' /\ NothingBeforeReady'
      BY <1>1 DEF IInv, TypeOK, Registered, Throttled, NothingBeforeReady
<1>3. InFlightAtHead' /\ WorkConserving' /\ StoppedWillWake'
      BY <1>1 DEF IInv, InFlightAtHead, WorkConserving, StoppedWillWake
<1> QED BY <1>2, <1>3 DEF IInv

(* The interfaces are counted.                                             *)
LEMMA CountFacts ==
  ASSUME NEW S, S \subseteq Slots
  PROVE  IsFiniteSet(S) /\ Cardinality(S) \in Nat /\ Cardinality(S) <= MAX_SLOTS
<1>1. IsFiniteSet(Slots) /\ Cardinality(Slots) = MAX_SLOTS
  <2>1. 0 \in Int /\ MAX_SLOTS - 1 \in Int /\ ~(0 > MAX_SLOTS - 1)
        /\ (MAX_SLOTS - 1) - 0 + 1 = MAX_SLOTS
        BY DataUlAssumption
  <2> QED BY <2>1, FS_Interval DEF Slots
<1> QED BY <1>1, FS_Subset, FS_CardinalityType

LEMMA CreateStep ==
  ASSUME IInv, NEW i \in Slots, lte_dd_create_net_iface(i)
  PROVE  IInv'
<1>1. /\ pc = "idle" /\ cmd = NoCmd /\ i \notin pnet /\ pnet' = pnet \cup {i}
      /\ devs' = devs \cup {i} /\ cnt' = cnt + 1
      /\ fifo' = [fifo EXCEPT ![i] = << >>]
      /\ UNCHANGED <<up, stopped, dd, ni_busy, xfer, rr, hif, sdma, pc, cmd>>
      BY DEF lte_dd_create_net_iface
<1>2. devs = pnet /\ cnt = Cardinality(devs) /\ lte0 \in pnet
      BY <1>1 DEF IInv, Registered, NoCmd
<1>3. /\ fifo' \in [Slots -> Seq(Skbs)] /\ fifo'[i] = << >>
      /\ \A j \in Slots : j # i => fifo'[j] = fifo[j]
  <2>1. << >> \in Seq(Skbs)
        OBVIOUS
  <2> QED BY <1>1, <2>1 DEF IInv, TypeOK
<1>4. cnt' = Cardinality(devs') /\ cnt' \in 1 .. MAX_SLOTS
  <2>1. devs' \subseteq Slots /\ devs \subseteq Slots /\ i \notin devs
        BY <1>1, <1>2 DEF IInv, TypeOK
  <2>2. IsFiniteSet(devs) /\ Cardinality(devs') <= MAX_SLOTS
        BY <2>1, CountFacts
  <2>3. Cardinality(devs') = Cardinality(devs) + 1
        BY <1>1, <2>1, <2>2, FS_AddElement
  <2> QED BY <1>1, <1>2, <2>2, <2>3, DataUlAssumption DEF IInv, TypeOK
<1>5. TypeOK'
  <2>1. \A j \in Slots : Len(fifo'[j]) <= FIFO_SIZE
    <3>1. \A j \in Slots : Len(fifo[j]) <= FIFO_SIZE
          BY DEF IInv, TypeOK
    <3>2. Len(<< >>) <= FIFO_SIZE
          BY DataUlAssumption
    <3> QED BY <1>3, <3>1, <3>2
  <2> QED BY <1>1, <1>3, <1>4, <2>1 DEF IInv, TypeOK
<1>6. Registered' /\ Throttled'
      BY <1>1, <1>2, <1>4 DEF IInv, Registered, Throttled, NoCmd
<1>7. NothingBeforeReady'
      BY <1>1, <1>3 DEF IInv, NothingBeforeReady
<1>8. InFlightAtHead'
  <2>1. xfer.slot \in Slots /\ (sdma # << >> => xfer.slot # i)
        BY <1>1 DEF IInv, TypeOK, InFlightAtHead
  <2> QED BY <1>1, <1>3, <2>1 DEF IInv, InFlightAtHead
<1>9. WorkConserving' /\ StoppedWillWake'
  <2>1. i \notin up /\ pnet \subseteq Slots
        BY <1>1, <1>2 DEF IInv, TypeOK
  <2> QED BY <1>1, <1>3, <2>1 DEF IInv, WorkConserving, StoppedWillWake
<1> QED BY <1>5, <1>6, <1>7, <1>8, <1>9 DEF IInv

LEMMA DeleteStep ==
  ASSUME IInv, NEW i \in Slots, net_delete_begin(i)
  PROVE  IInv'
<1>1. /\ pc = "idle" /\ cmd = NoCmd /\ i \in pnet /\ i # lte0 /\ i \notin ni_busy
      /\ pnet' = pnet \ {i} /\ cmd' = [slot |-> i, step |-> "flush"]
      /\ UNCHANGED <<fifo, cnt, devs, up, stopped, dd, ni_busy, xfer, rr, hif, sdma, pc>>
      BY DEF net_delete_begin, Deletable
<1>2. TypeOK' /\ Throttled'
      BY <1>1 DEF IInv, TypeOK, Throttled
<1>3. Registered'
  <2>1. devs = pnet
        BY <1>1 DEF IInv, Registered, NoCmd
  <2>2. cmd'.slot = i /\ cmd'.step = "flush"
        BY <1>1
  <2> QED BY <1>1, <2>1, <2>2 DEF IInv, Registered
<1>4. NothingBeforeReady' /\ WorkConserving' /\ StoppedWillWake'
      BY <1>1 DEF IInv, NothingBeforeReady, WorkConserving, StoppedWillWake
<1>5. InFlightAtHead'
      BY <1>1 DEF IInv, InFlightAtHead
<1> QED BY <1>2, <1>3, <1>4, <1>5 DEF IInv

LEMMA FlushStep ==
  ASSUME IInv, lte_dd_delete_net_iface_flush
  PROVE  IInv'
<1> DEFINE i == cmd.slot
<1>1. /\ pc = "idle" /\ cmd.step = "flush" /\ stopped' = stopped \cup {i}
      /\ fifo' = [fifo EXCEPT ![i] = << >>]
      /\ cmd' = [cmd EXCEPT !.step = "disconnect"]
      /\ UNCHANGED <<pnet, cnt, devs, up, dd, ni_busy, xfer, rr, hif, sdma, pc>>
      BY DEF lte_dd_delete_net_iface_flush, lte_dd_flush_tx_data_fifo, net
<1>2. i \notin pnet /\ devs = pnet \cup {i} /\ i \in Slots
      BY <1>1 DEF IInv, Registered, TypeOK
<1>3. /\ cmd'.slot = i /\ cmd'.step = "disconnect"
      /\ cmd' \in [slot : Slots, step : {"none", "flush", "disconnect"}]
      BY <1>1 DEF IInv, TypeOK
<1> HIDE DEF i
<1>4. /\ fifo' \in [Slots -> Seq(Skbs)] /\ fifo'[i] = << >>
      /\ \A j \in Slots : j # i => fifo'[j] = fifo[j]
  <2>1. << >> \in Seq(Skbs)
        OBVIOUS
  <2> QED BY <1>1, <1>2, <2>1 DEF IInv, TypeOK
<1>5. TypeOK'
  <2>1. \A j \in Slots : Len(fifo'[j]) <= FIFO_SIZE
    <3>1. \A j \in Slots : Len(fifo[j]) <= FIFO_SIZE
          BY DEF IInv, TypeOK
    <3>2. Len(<< >>) <= FIFO_SIZE
          BY DataUlAssumption
    <3> QED BY <1>4, <3>1, <3>2
  <2> QED BY <1>1, <1>2, <1>3, <1>4, <2>1 DEF IInv, TypeOK
<1>6. Registered' /\ Throttled'
      BY <1>1, <1>2, <1>3 DEF IInv, Registered, Throttled
<1>7. NothingBeforeReady'
      BY <1>1, <1>4 DEF IInv, NothingBeforeReady
<1>8. InFlightAtHead'
  <2>1. xfer.slot \in Slots /\ (sdma # << >> => xfer.slot # i)
        BY <1>2 DEF IInv, TypeOK, InFlightAtHead
  <2> QED BY <1>1, <1>4, <2>1 DEF IInv, InFlightAtHead
<1>9. WorkConserving' /\ StoppedWillWake'
  <2>1. pnet \subseteq Slots
        BY DEF IInv, TypeOK
  <2> QED BY <1>1, <1>2, <1>4, <2>1 DEF IInv, WorkConserving, StoppedWillWake
<1> QED BY <1>5, <1>6, <1>7, <1>8, <1>9 DEF IInv

LEMMA DisconnectStep ==
  ASSUME IInv, net_drv_disconnect
  PROVE  IInv'
<1> DEFINE i == cmd.slot
<1>1. /\ pc = "idle" /\ cmd.step = "disconnect" /\ devs' = devs \ {i}
      /\ up' = up \ {i} /\ stopped' = stopped \ {i} /\ cnt' = cnt - 1
      /\ ni_busy' = ni_busy \ {i} /\ cmd' = NoCmd
      /\ UNCHANGED <<fifo, pnet, dd, xfer, rr, hif, sdma, pc>>
      BY DEF net_drv_disconnect
<1>2. i \notin pnet /\ devs = pnet \cup {i} /\ i \in Slots /\ lte0 \in pnet
      /\ cnt = Cardinality(devs)
      BY <1>1 DEF IInv, Registered, TypeOK
<1> HIDE DEF i
<1>3. devs' = pnet
      BY <1>1, <1>2
<1>4. cnt' = Cardinality(devs') /\ cnt' \in 1 .. MAX_SLOTS
  <2>1. devs' \subseteq Slots /\ devs \subseteq Slots /\ i \in devs
        BY <1>1, <1>2 DEF IInv, TypeOK
  <2>2. /\ IsFiniteSet(devs) /\ IsFiniteSet(devs') /\ Cardinality(devs') <= MAX_SLOTS
        /\ Cardinality(devs') \in Nat
        BY <2>1, CountFacts
  <2>3. Cardinality(devs') = Cardinality(devs) - 1
        BY <1>1, <2>1, <2>2, FS_RemoveElement
  <2>4. Cardinality(devs') # 0
        BY <1>2, <1>3, <2>2, FS_EmptySet
  <2> QED BY <1>1, <1>2, <2>2, <2>3, <2>4, DataUlAssumption DEF IInv, TypeOK
<1>5. TypeOK'
  <2>1. cmd' \in [slot : Slots, step : {"none", "flush", "disconnect"}]
        BY <1>1, DataUlAssumption DEF NoCmd, Slots, lte0
  <2> QED BY <1>1, <1>4, <2>1 DEF IInv, TypeOK
<1>6. Registered' /\ Throttled'
      BY <1>1, <1>2, <1>3, <1>4 DEF IInv, Registered, Throttled, NoCmd
<1>7. NothingBeforeReady' /\ WorkConserving' /\ StoppedWillWake'
      BY <1>1 DEF IInv, NothingBeforeReady, WorkConserving, StoppedWillWake
<1>8. InFlightAtHead'
      BY <1>1, <1>2 DEF IInv, InFlightAtHead
<1> QED BY <1>5, <1>6, <1>7, <1>8 DEF IInv

LEMMA StutterIInv ==
  ASSUME IInv, UNCHANGED vars
  PROVE  IInv'
<1>1. UNCHANGED <<fifo, pnet, cnt, devs, up, stopped, dd, ni_busy, xfer, rr, hif, sdma,
                  pc, cmd>>
      BY DEF vars
<1>2. TypeOK' /\ Registered' /\ Throttled' /\ NothingBeforeReady'
      BY <1>1 DEF IInv, TypeOK, Registered, Throttled, NothingBeforeReady
<1>3. InFlightAtHead' /\ WorkConserving' /\ StoppedWillWake'
      BY <1>1 DEF IInv, InFlightAtHead, WorkConserving, StoppedWillWake
<1> QED BY <1>2, <1>3 DEF IInv

LEMMA NextIInv == IInv /\ [Next]_vars => IInv'
<1> SUFFICES ASSUME IInv, [Next]_vars PROVE IInv'
    OBVIOUS
<1>1. CASE lte_dd_sdma_tx
      BY <1>1, NothingStep, SubmitStep, DropStep DEF lte_dd_sdma_tx
<1>2. CASE \E i \in Slots : \/ net_drv_dev_tx(i)
                            \/ net_drv_dev_open(i)
                            \/ net_drv_dev_release(i)
                            \/ lte_dd_create_net_iface(i)
                            \/ net_delete_begin(i)
      BY <1>2, DevTxStep, OpenStep, CreateStep, DeleteStep
<1>3. CASE lte_dd_4ghif_ul_complete_cb
      BY <1>3, CompleteStep
<1>4. CASE lte_dd_4ghif_ul_resume_cb
      BY <1>4, ResumeStep
<1>5. CASE hif_ready
      BY <1>5, ReadyStep
<1>6. CASE lte_dd_delete_net_iface_flush
      BY <1>6, FlushStep
<1>7. CASE net_drv_disconnect
      BY <1>7, DisconnectStep
<1>8. CASE UNCHANGED vars
      BY <1>8, StutterIInv
<1> QED BY <1>1, <1>2, <1>3, <1>4, <1>5, <1>6, <1>7, <1>8 DEF Next

----------------------------------------------------------------------------
THEOREM DataUlInvariant == Spec => []IInv
BY InitIInv, NextIInv, PTL DEF Spec

(* The state of the two drivers keeps its types: no FIFO grows past its    *)
(* size and the count of interfaces stays in range.                        *)
THEOREM DataUlTypeCorrect == Spec => []TypeOK
<1>1. IInv => TypeOK
      BY DEF IInv
<1> QED BY <1>1, DataUlInvariant, PTL

(* The completion callback always finds the frames of its transfer at the  *)
(* head of a FIFO that still exists, whatever net delete and net new do    *)
(* between submit_ul and ul_complete.                                      *)
THEOREM FramesStayAtHead == Spec => []InFlightAtHead
<1>1. IInv => InFlightAtHead
      BY DEF IInv
<1> QED BY <1>1, DataUlInvariant, PTL

(* No frame of a created interface waits without a callback to come that   *)
(* will look for it: the round robin overlooks no interface.               *)
THEOREM NoFrameStranded == Spec => []WorkConserving
<1>1. IInv => WorkConserving
      BY DEF IInv
<1> QED BY <1>1, DataUlInvariant, PTL

(* A stopped queue has a FIFO that has still to drain past the threshold.  *)
THEOREM NoQueueStuck == Spec => []StoppedWillWake
<1>1. IInv => StoppedWillWake
      BY DEF IInv
<1> QED BY <1>1, DataUlInvariant, PTL

----------------------------------------------------------------------------
(* The driver waits exactly for the callbacks that the HIF owes it.        *)
LEMMA WaitsAreOwed == IInv => Waits = Owed
BY DEF IInv, InFlightAtHead, Throttled, Waits, Owed

LEMMA StepUlService ==
  ASSUME IInv, [Next]_vars
  PROVE  [Service!USNext]_(Service!serviceVars)
<1>1. IInv' /\ Waits = Owed /\ Waits' = Owed'
  <2>1. IInv'
        BY NextIInv
  <2>2. (Waits = Owed)'
        BY <2>1, WaitsAreOwed, PTL
  <2> QED BY <2>1, <2>2, WaitsAreOwed
<1>2. ASSUME UNCHANGED <<hif, sdma, dd>>
      PROVE  UNCHANGED Service!serviceVars
      BY <1>2 DEF Service!serviceVars, Waits, Owed
<1>3. ASSUME NEW i \in Slots, NEW n \in 0 .. MaxBatch, lte_dd_sdma_tx_submit(i, n)
      PROVE  Service!USNext
  <2>1. /\ dd = {} /\ "ready" \in hif /\ "ready" \in hif' /\ dd' # {}
        BY <1>3, SubmitStep
  <2>2. dd' \subseteq {"TX_BUSY", "TX_THROTTLE"}
        BY <1>1 DEF IInv, TypeOK
  <2>3. Waits = {}
        BY <2>1 DEF Waits
  <2>4. Waits' \in {{"ul_complete"}, {"ul_resume"}, {"ul_complete", "ul_resume"}}
        BY <2>1, <2>2 DEF Waits
  <2>5. Service!USSubmit(Waits')
        BY <1>1, <2>1, <2>3 DEF Service!USSubmit
  <2> QED BY <2>4, <2>5 DEF Service!USNext
<1>4. ASSUME lte_dd_4ghif_ul_complete_cb
      PROVE  Service!USNext
  <2>1. /\ sdma # << >> /\ sdma' = << >> /\ hif' = hif /\ dd' = dd \ {"TX_BUSY"}
        BY <1>4, CompleteStep
  <2>2. /\ "ul_complete" \in Owed /\ Owed' = Owed \ {"ul_complete"}
        /\ Waits' = Waits \ {"ul_complete"}
        BY <2>1 DEF Owed, Waits
  <2>3. Service!USCallback("ul_complete")
        BY <2>1, <2>2 DEF Service!USCallback
  <2> QED BY <2>3 DEF Service!USNext
<1>5. ASSUME lte_dd_4ghif_ul_resume_cb
      PROVE  Service!USNext
  <2>1. /\ "pause" \in hif /\ hif' = hif \ {"pause"} /\ dd' = dd \ {"TX_THROTTLE"}
        /\ sdma' = sdma
        BY <1>5, ResumeStep
  <2>2. /\ "ul_resume" \in Owed /\ Owed' = Owed \ {"ul_resume"}
        /\ Waits' = Waits \ {"ul_resume"}
        BY <2>1 DEF Owed, Waits
  <2>3. Service!USCallback("ul_resume")
        BY <2>1, <2>2 DEF Service!USCallback
  <2> QED BY <2>3 DEF Service!USNext
<1>6. ASSUME hif_ready
      PROVE  Service!USNext
  <2>1. /\ "ready" \notin hif /\ hif' = hif \cup {"ready"} /\ dd' = dd /\ sdma' = sdma
        BY <1>6 DEF hif_ready
  <2>2. Owed' = Owed /\ Waits' = Waits
        BY <2>1 DEF Owed, Waits
  <2>3. Service!USReady
        BY <2>1, <2>2 DEF Service!USReady
  <2> QED BY <2>3 DEF Service!USNext
<1>7. CASE lte_dd_sdma_tx
  <2>1. CASE lte_dd_sdma_tx_nothing \/ lte_dd_sdma_tx_drop
        BY <1>2, <2>1 DEF lte_dd_sdma_tx_nothing, lte_dd_sdma_tx_drop
  <2> QED BY <1>3, <1>7, <2>1 DEF lte_dd_sdma_tx
<1>8. CASE \/ \E i \in Slots : \/ net_drv_dev_tx(i)
                               \/ net_drv_dev_open(i)
                               \/ net_drv_dev_release(i)
                               \/ lte_dd_create_net_iface(i)
                               \/ net_delete_begin(i)
           \/ lte_dd_delete_net_iface_flush
           \/ net_drv_disconnect
           \/ UNCHANGED vars
      BY <1>2, <1>8 DEF net_drv_dev_tx, net_drv_dev_open, net_drv_dev_release,
         lte_dd_create_net_iface, net_delete_begin, lte_dd_delete_net_iface_flush,
         net_drv_disconnect, vars
<1> QED BY <1>4, <1>5, <1>6, <1>7, <1>8 DEF Next

(* The driver and the net driver keep the driver's side of the agreement   *)
(* with the HIF of which HifUlProofs proves the other side: a submission   *)
(* only when no callback is awaited, and flags that follow each answer.    *)
THEOREM DriverImplementsUlService == Spec => RefinesUlService
<1>1. Init => Service!USInit
      BY DEF Init, Service!USInit, Waits, Owed
<1>2. IInv /\ [Next]_vars => [Service!USNext]_(Service!serviceVars)
      BY StepUlService
<1> QED BY <1>1, <1>2, DataUlInvariant, PTL DEF Spec, RefinesUlService, Service!USSpec
==============================================================================
