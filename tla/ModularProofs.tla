---------------------------- MODULE ModularProofs ----------------------------
(***************************************************************************)
(* Frames are numbered modulo a constant in HifUl and HifDl, BuddyMM       *)
(* splits an address into page and sector, DataUl takes turns.  What their *)
(* proofs need of quotients and remainders is stated here once.            *)
(***************************************************************************)
EXTENDS Integers, TLAPS

(* A quotient and a remainder put together and taken apart again, ...      *)
LEMMA Remainder ==
  ASSUME NEW q \in Nat, NEW r \in Nat, NEW n \in Nat, r < n
  PROVE  (n * q + r) % n = r /\ (n * q + r) \div n = q
OBVIOUS

(* ... and a number taken apart and put together again.                    *)
LEMMA DivMod ==
  ASSUME NEW a \in Nat, NEW n \in Nat, n > 0
  PROVE  a = n * (a \div n) + (a % n) /\ a % n \in 0 .. (n - 1) /\ a \div n \in Nat
OBVIOUS

(* The remainder of a sum may be taken in parts.                           *)
LEMMA RemainderOfSum ==
  ASSUME NEW n \in Nat, n > 0, NEW a \in Nat, NEW b \in Nat
  PROVE  ((a % n) + b) % n = (a + b) % n /\ a % n \in 0 .. (n - 1)
<1> DEFINE q == a \div n
           r == a % n
           p == (r + b) \div n
           s == (r + b) % n
           m == q + p
<1>1. q \in Nat /\ r \in 0 .. (n - 1) /\ a = n * q + r
      BY DivMod
<1> HIDE DEF q, r
<1>2. p \in Nat /\ s \in 0 .. (n - 1) /\ r + b = n * p + s
      BY <1>1, DivMod
<1> HIDE DEF p, s
<1>3. a + b = n * m + s /\ m \in Nat
      BY <1>1, <1>2
<1> HIDE DEF m
<1>4. (n * m + s) % n = s
  <2>1. n \in Nat /\ m \in Nat /\ s \in Nat /\ s < n
        BY <1>2, <1>3
  <2> QED BY <2>1, Remainder, Zenon
<1>5. (a + b) % n = s
      BY <1>3, <1>4
<1> QED BY <1>1, <1>5 DEF r, s
==============================================================================
