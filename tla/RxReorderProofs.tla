-------------------------- MODULE RxReorderProofs --------------------------
(***************************************************************************)
(* Proofs about the reordering (RxReorder): RxInv is inductive for every   *)
(* setup, and in half of the sequence space the reordering implements      *)
(* OrderedRelease, so that frames go up in order.  Sequence numbers are    *)
(* compared by their signed offset Off; what the loop over the list        *)
(* computes is found by induction over the frames it has met, as a set of  *)
(* numbers.                                                                *)
(***************************************************************************)
EXTENDS MCRxReorder, WellFoundedInduction, TLAPS

-----------------------------------------------------------------------------
(* Invariant: the list, the timer, and what becomes of a frame.            *)

(* Half of the sequence numbers.                                           *)
Half == SnMod \div 2
(* What ind_sn ranges over once a frame was seen.                          *)
SeqNos == 0..(SnMod - 1)

(* The window and the lead of the sender fit in one half.                  *)
LEMMA Space ==
  /\ SnMod \in Nat /\ Half \in Nat /\ SnMod = 2 * Half
  /\ \A s \in Setups : s.win \in Nat \ {0} /\ s.gap \in Nat \ {0} /\ s.dups \in Nat /\ s.win + s.gap <= Half
<1>1. SnMod \in Nat /\ SnMod % 2 = 0
  BY SnAssumption
<1>2. Half \in Nat /\ SnMod = 2 * Half
  BY <1>1 DEF Half
<1>3. ASSUME NEW s \in Setups
      PROVE  s.win \in Nat \ {0} /\ s.gap \in Nat \ {0} /\ s.dups \in Nat /\ s.win + s.gap <= Half
  <2>1. /\ s.win \in Nat \ {0} /\ s.gap \in Nat \ {0} /\ s.dups \in Nat
        /\ 2 * (s.win + s.gap) <= SnMod
    BY SnAssumption
  <2> QED BY <1>2, <2>1
<1> QED BY <1>1, <1>2, <1>3

(* A remainder is known by its quotient.                                   *)
LEMMA Remainder ==
    ASSUME NEW a \in Int, NEW n \in Nat \ {0}, NEW q \in Int, NEW r \in 0..(n - 1),
           a = n * q + r
    PROVE  a % n = r
<1> DEFINE p == a \div n
           s == a % n
<1>1. a = n * p + s /\ s \in 0..(n - 1) /\ p \in Int
  OBVIOUS
<1> HIDE DEF p, s
<1>2. n * (p - q) = r - s /\ p - q \in Int /\ r - s < n /\ s - r < n
  BY <1>1
<1>3. CASE p - q >= 1
  <2>1. n * (p - q) >= n
    BY <1>2, <1>3
  <2> QED BY <2>1, <1>2
<1>4. CASE p - q <= -1
  <2>1. n * (p - q) <= -n
    BY <1>2, <1>4
  <2> QED BY <2>1, <1>2
<1>5. CASE p - q = 0
  BY <1>5, <1>2, <1>1 DEF s
<1> QED BY <1>2, <1>3, <1>4, <1>5

(* The remainder of a number that is at most one turn off.                 *)
LEMMA Wraps ==
    ASSUME NEW n \in Nat \ {0}, NEW a \in Int
    PROVE  /\ 0 <= a /\ a < n => a % n = a
           /\ n <= a /\ a < 2 * n => a % n = a - n
           /\ -n <= a /\ a < 0 => a % n = a + n
           /\ a % n \in 0..(n - 1)
<1>1. ASSUME 0 <= a, a < n PROVE a % n = a
  <2>1. a = n * 0 + a /\ a \in 0..(n - 1) /\ 0 \in Int
    BY <1>1
  <2> QED BY <2>1, Remainder
<1>2. ASSUME n <= a, a < 2 * n PROVE a % n = a - n
  <2>1. a = n * 1 + (a - n) /\ (a - n) \in 0..(n - 1) /\ 1 \in Int
    BY <1>2
  <2> QED BY <2>1, Remainder
<1>3. ASSUME -n <= a, a < 0 PROVE a % n = a + n
  <2>1. a = n * (-1) + (a + n) /\ (a + n) \in 0..(n - 1) /\ -1 \in Int
    BY <1>3
  <2> QED BY <2>1, Remainder
<1>4. a % n \in 0..(n - 1)
  OBVIOUS
<1> QED BY <1>1, <1>2, <1>3, <1>4

(* What & 0xFFF does to a sum or a difference of sequence numbers.         *)
LEMMA SnIs ==
    ASSUME Half # 0, NEW d \in Int, -SnMod <= d, d < 2 * SnMod
    PROVE  d % SnMod = IF d < 0 THEN d + SnMod ELSE IF d < SnMod THEN d ELSE d - SnMod
<1>1. SnMod \in Nat \ {0}
  BY Space
<1>2. /\ 0 <= d /\ d < SnMod => d % SnMod = d
      /\ SnMod <= d /\ d < 2 * SnMod => d % SnMod = d - SnMod
      /\ -SnMod <= d /\ d < 0 => d % SnMod = d + SnMod
  BY <1>1, Wraps
<1> QED BY <1>1, <1>2

(* How far x is ahead of a (or, below zero, behind).                       *)
Off(a, x) == LET d == (x - a) % SnMod IN IF d < Half THEN d ELSE d - SnMod

(* The offset is the difference, but for one turn.                         *)
LEMMA OffIs ==
    ASSUME Half # 0, NEW a \in SeqNos, NEW x \in SeqNos
    PROVE  /\ Off(a, x) \in Int /\ -Half <= Off(a, x) /\ Off(a, x) < Half
           /\ \/ x - a = Off(a, x) \/ x - a = Off(a, x) + SnMod \/ x - a = Off(a, x) - SnMod
<1>1. /\ SnMod \in Nat \ {0} /\ SnMod = 2 * Half /\ Half \in Nat
      /\ a \in Int /\ x \in Int /\ a >= 0 /\ a < SnMod /\ x >= 0 /\ x < SnMod
  BY Space DEF SeqNos
<1>2. x - a \in Int /\ (x - a) % SnMod \in 0..(SnMod - 1)
  BY <1>1
<1>3. (x - a) % SnMod = IF x >= a THEN x - a ELSE x - a + SnMod
  <2>1. PICK d \in Int : d = x - a
    BY <1>1
  <2>2. -SnMod <= d /\ d < 2 * SnMod
    BY <1>1, <2>1
  <2>3. d % SnMod = IF d < 0 THEN d + SnMod ELSE IF d < SnMod THEN d ELSE d - SnMod
    BY <2>2, SnIs
  <2> QED BY <1>1, <2>1, <2>3
<1> QED BY <1>1, <1>2, <1>3 DEF Off

(* Nothing else in the half around zero is.                                *)
LEMMA OffOnly ==
    ASSUME Half # 0, NEW a \in SeqNos, NEW x \in SeqNos, NEW r \in Int, -Half <= r, r < Half,
           x - a = r \/ x - a = r + SnMod \/ x - a = r - SnMod
    PROVE  Off(a, x) = r
<1>1. /\ SnMod \in Nat \ {0} /\ SnMod = 2 * Half /\ Half \in Nat
      /\ a \in Int /\ x \in Int /\ a >= 0 /\ a < SnMod /\ x >= 0 /\ x < SnMod
  BY Space DEF SeqNos
<1>2. /\ Off(a, x) \in Int /\ -Half <= Off(a, x) /\ Off(a, x) < Half
      /\ \/ x - a = Off(a, x) \/ x - a = Off(a, x) + SnMod \/ x - a = Off(a, x) - SnMod
  BY OffIs
<1> QED BY <1>1, <1>2

(* Seen from another number that is near enough.                           *)
LEMMA OffShift ==
    ASSUME Half # 0, NEW a \in SeqNos, NEW b \in SeqNos, NEW x \in SeqNos,
           -Half <= Off(a, x) - Off(a, b), Off(a, x) - Off(a, b) < Half
    PROVE  Off(b, x) = Off(a, x) - Off(a, b)
<1>1. /\ SnMod \in Nat \ {0} /\ SnMod = 2 * Half /\ Half \in Nat
      /\ a \in Int /\ x \in Int /\ a >= 0 /\ a < SnMod /\ x >= 0 /\ x < SnMod
      /\ b \in Int /\ b >= 0 /\ b < SnMod
  BY Space DEF SeqNos
<1>2. /\ Off(a, x) \in Int /\ -Half <= Off(a, x) /\ Off(a, x) < Half
      /\ \/ x - a = Off(a, x) \/ x - a = Off(a, x) + SnMod \/ x - a = Off(a, x) - SnMod
  BY OffIs
<1>3. /\ Off(a, b) \in Int /\ -Half <= Off(a, b) /\ Off(a, b) < Half
      /\ \/ b - a = Off(a, b) \/ b - a = Off(a, b) + SnMod \/ b - a = Off(a, b) - SnMod
  BY OffIs
<1>4. PICK r \in Int : r = Off(a, x) - Off(a, b)
  BY <1>2, <1>3
<1>5. x - b = r \/ x - b = r + SnMod \/ x - b = r - SnMod
  BY <1>1, <1>2, <1>3, <1>4
<1> QED BY <1>4, <1>5, OffOnly

(* Only a number itself is at offset zero.                                 *)
LEMMA OffSame ==
    ASSUME Half # 0, NEW a \in SeqNos, NEW x \in SeqNos
    PROVE  Off(a, x) = 0 <=> a = x
<1>1. /\ SnMod \in Nat \ {0} /\ SnMod = 2 * Half /\ Half \in Nat
      /\ a \in Int /\ x \in Int /\ a >= 0 /\ a < SnMod /\ x >= 0 /\ x < SnMod
  BY Space DEF SeqNos
<1>2. /\ Off(a, x) \in Int /\ -Half <= Off(a, x) /\ Off(a, x) < Half
      /\ \/ x - a = Off(a, x) \/ x - a = Off(a, x) + SnMod \/ x - a = Off(a, x) - SnMod
  BY OffIs
<1> QED BY <1>1, <1>2

(* SN_LESS in terms of Off.                                                *)
LEMMA LessOff ==
    ASSUME Half # 0, NEW a \in SeqNos, NEW b \in SeqNos
    PROVE  /\ SnLess(a, b) <=> Off(b, a) < 0
           /\ Off(a, b) > -Half => (SnLess(a, b) <=> Off(a, b) > 0)
<1>1. /\ SnMod \in Nat \ {0} /\ SnMod = 2 * Half /\ Half \in Nat
      /\ a \in Int /\ b \in Int /\ a >= 0 /\ a < SnMod /\ b >= 0 /\ b < SnMod
  BY Space DEF SeqNos
<1>2. (a - b) % SnMod = IF a >= b THEN a - b ELSE a - b + SnMod
  <2>1. PICK d \in Int : d = a - b
    BY <1>1
  <2>2. -SnMod <= d /\ d < 2 * SnMod
    BY <1>1, <2>1
  <2>3. d % SnMod = IF d < 0 THEN d + SnMod ELSE IF d < SnMod THEN d ELSE d - SnMod
    <3>1. Half # 0
      BY <1>1
    <3> QED BY <2>2, <3>1, SnIs
  <2> QED BY <1>1, <2>1, <2>3
<1>3. (b - a) % SnMod = IF b >= a THEN b - a ELSE b - a + SnMod
  <2>1. PICK d \in Int : d = b - a
    BY <1>1
  <2>2. -SnMod <= d /\ d < 2 * SnMod
    BY <1>1, <2>1
  <2>3. d % SnMod = IF d < 0 THEN d + SnMod ELSE IF d < SnMod THEN d ELSE d - SnMod
    <3>1. Half # 0
      BY <1>1
    <3> QED BY <2>2, <3>1, SnIs
  <2> QED BY <1>1, <2>1, <2>3
<1> QED BY <1>1, <1>2, <1>3 DEF SnLess, Off, Half

(* A frame has a sequence number.                                          *)
LEMMA SnType == ASSUME Half # 0, NEW n \in Int PROVE Sn(n) \in SeqNos
<1>1. SnMod \in Nat \ {0}
  BY Space
<1> QED BY <1>1, Wraps DEF Sn, SeqNos

(* ind_sn + 1 is one ahead, also over the wrap.                            *)
LEMMA NextOff ==
    ASSUME NEW a \in SeqNos, Half > 1
    PROVE  NextSn(a) \in SeqNos /\ Off(a, NextSn(a)) = 1
<1>1. SnMod \in Nat \ {0} /\ SnMod = 2 * Half /\ Half \in Nat /\ a \in Int /\ a >= 0 /\ a < SnMod
  BY Space DEF SeqNos
<1>2. NextSn(a) = IF a + 1 < SnMod THEN a + 1 ELSE a + 1 - SnMod
  <2>1. PICK d \in Int : d = a + 1
    BY <1>1
  <2>2. -SnMod <= d /\ d < 2 * SnMod
    BY <1>1, <2>1
  <2>3. d % SnMod = IF d < 0 THEN d + SnMod ELSE IF d < SnMod THEN d ELSE d - SnMod
    <3>1. Half # 0
      BY <1>1
    <3> QED BY <2>2, <3>1, SnIs
  <2> QED BY <1>1, <2>1, <2>3 DEF NextSn, Sn
<1>3. NextSn(a) \in SeqNos
  BY <1>1, <1>2 DEF SeqNos
<1>4. NextSn(a) - a = 1 \/ NextSn(a) - a = 1 - SnMod
  BY <1>1, <1>2
<1>5. 1 \in Int /\ -Half <= 1 /\ 1 < Half /\ Half # 0
  BY <1>1
<1>6. PICK y \in SeqNos : y = NextSn(a)
  BY <1>3
<1> QED BY <1>3, <1>4, <1>5, <1>6, OffOnly

(* The ends of a window are as far off as they should be.                  *)
LEMMA BackOff ==
    ASSUME NEW a \in SeqNos, NEW w \in Nat, w < Half
    PROVE  /\ Sn(a + w) \in SeqNos /\ Off(a, Sn(a + w)) = w
           /\ Sn(a - w) \in SeqNos /\ Off(a, Sn(a - w)) = -w
<1>1. SnMod \in Nat \ {0} /\ SnMod = 2 * Half /\ Half \in Nat /\ a \in Int /\ a >= 0 /\ a < SnMod
  BY Space DEF SeqNos
<1>2. Sn(a + w) = IF a + w < SnMod THEN a + w ELSE a + w - SnMod
  <2>1. PICK d \in Int : d = a + w
    BY <1>1
  <2>2. -SnMod <= d /\ d < 2 * SnMod
    BY <1>1, <2>1
  <2>3. d % SnMod = IF d < 0 THEN d + SnMod ELSE IF d < SnMod THEN d ELSE d - SnMod
    <3>1. Half # 0
      BY <1>1
    <3> QED BY <2>2, <3>1, SnIs
  <2> QED BY <1>1, <2>1, <2>3 DEF NextSn, Sn
<1>3. Sn(a - w) = IF a - w >= 0 THEN a - w ELSE a - w + SnMod
  <2>1. PICK d \in Int : d = a - w
    BY <1>1
  <2>2. -SnMod <= d /\ d < 2 * SnMod
    BY <1>1, <2>1
  <2>3. d % SnMod = IF d < 0 THEN d + SnMod ELSE IF d < SnMod THEN d ELSE d - SnMod
    <3>1. Half # 0
      BY <1>1
    <3> QED BY <2>2, <3>1, SnIs
  <2> QED BY <1>1, <2>1, <2>3 DEF NextSn, Sn
<1>4. Sn(a + w) \in SeqNos /\ Sn(a - w) \in SeqNos
  BY <1>1, <1>2, <1>3 DEF SeqNos
<1>5. Sn(a + w) - a = w \/ Sn(a + w) - a = w - SnMod
  BY <1>1, <1>2
<1>6. Sn(a - w) - a = -w \/ Sn(a - w) - a = -w + SnMod
  BY <1>1, <1>3
<1>7. Off(a, Sn(a + w)) = w
  <2>1. PICK y \in SeqNos : y = Sn(a + w)
    BY <1>4
  <2>2. w \in Int /\ -Half <= w /\ w < Half /\ Half # 0
    BY <1>1
  <2> QED BY <1>5, <2>1, <2>2, OffOnly
<1>8. -w \in Int /\ -Half <= -w /\ -w < Half
  BY <1>1
<1>9. Off(a, Sn(a - w)) = -w
  <2>1. PICK y \in SeqNos : y = Sn(a - w)
    BY <1>4
  <2>2. PICK r \in Int : r = -w
    BY <1>8
  <2>3. y - a = r \/ y - a = r + SnMod
    BY <1>6, <2>1, <2>2
  <2>4. -Half <= r /\ r < Half /\ Half # 0
    BY <1>1, <1>8, <2>2
  <2> QED BY <2>1, <2>2, <2>3, <2>4, OffOnly
<1> QED BY <1>4, <1>7, <1>9

(* A set of numbers has a least one ...                                    *)
LEMMA Least ==
  ASSUME NEW T \in SUBSET Nat, T # {}
  PROVE  \E x \in T : \A y \in T : x <= y
<1>1. PICK R : R = OpToRel(<, Nat)
  OBVIOUS
<1>2. IsWellFoundedOn(R, Nat)
  BY <1>1, NatLessThanWellFounded, Zenon
<1>3. \A x, y \in Nat : <<x, y>> \in R <=> x < y
  BY <1>1 DEF OpToRel
<1>4. PICK x \in T : \A y \in T : ~ (<<y, x>> \in R)
  BY <1>2, WFMin
<1>5. ASSUME NEW y \in T PROVE x <= y
  <2>1. x \in Nat /\ y \in Nat
    OBVIOUS
  <2>2. ~(y < x)
    BY <1>3, <1>4, <2>1
  <2> QED BY <2>1, <2>2
<1> QED BY <1>5

(* ... so that induction over the numbers is about a set.                  *)
LEMMA SetInduction ==
  ASSUME NEW T \in SUBSET Nat, 0 \in T, \A n \in T : n + 1 \in T
  PROVE  T = Nat
<1>1. SUFFICES ASSUME Nat \ T # {} PROVE FALSE
  OBVIOUS
<1>2. PICK x \in Nat \ T : \A y \in Nat \ T : x <= y
  BY <1>1, Least
<1>3. x # 0 /\ x - 1 \in Nat
  OBVIOUS
<1>4. x - 1 \in T
  BY <1>2, <1>3
<1> QED BY <1>2, <1>3, <1>4

(* What the loop of reord_rxframes_process starts with, and a run of it.   *)
Start(ind) == [ind |-> ind, gap |-> FALSE]
Runs(f, ind, l, n) ==
    f = [k \in 0..n |-> IF k = 0 THEN Start(ind) ELSE Visit(f[k - 1], Sn(l[k]))]

(* There is a run over any list, by induction over its frames ...          *)
LEMMA LoopExists ==
    ASSUME NEW ind, NEW l, NEW n \in Nat
    PROVE  \E f : Runs(f, ind, l, n)
<1> DEFINE T == {m \in Nat : \E f : Runs(f, ind, l, m)}
<1>1. 0 \in T
  <2>1. PICK f : f = [k \in 0..0 |-> Start(ind)]
    OBVIOUS
  <2>2. f = [k \in 0..0 |-> IF k = 0 THEN Start(ind) ELSE Visit(f[k - 1], Sn(l[k]))]
    BY <2>1
  <2> QED BY <2>2 DEF Runs
<1>2. ASSUME NEW m \in T PROVE m + 1 \in T
  <2>1. PICK f : Runs(f, ind, l, m)
    OBVIOUS
  <2>2. PICK g : g = [k \in 0..(m + 1) |-> IF k = m + 1 THEN Visit(f[m], Sn(l[m + 1])) ELSE f[k]]
    OBVIOUS
  <2>3. ASSUME NEW k \in 0..(m + 1)
        PROVE  g[k] = IF k = 0 THEN Start(ind) ELSE Visit(g[k - 1], Sn(l[k]))
    <3>1. CASE k = m + 1
      <4>1. k # 0 /\ k - 1 = m /\ m \in 0..(m + 1) /\ m # m + 1
        BY <3>1
      <4>2. g[k] = Visit(f[m], Sn(l[k])) /\ g[m] = f[m]
        BY <2>2, <3>1, <4>1
      <4> QED BY <4>1, <4>2
    <3>2. CASE k # m + 1
      <4>1. k \in 0..m
        BY <3>2
      <4>2. g[k] = f[k] /\ f[k] = IF k = 0 THEN Start(ind) ELSE Visit(f[k - 1], Sn(l[k]))
        BY <2>1, <2>2, <3>2, <4>1 DEF Runs
      <4>3. k # 0 => k - 1 \in 0..(m + 1) /\ k - 1 # m + 1
        BY <4>1
      <4>4. k # 0 => g[k - 1] = f[k - 1]
        BY <2>2, <4>3
      <4> QED BY <4>2, <4>4
    <3> QED BY <3>1, <3>2
  <2>4. g = [k \in 0..(m + 1) |-> g[k]]
    BY <2>2
  <2>5. Runs(g, ind, l, m + 1)
    BY <2>3, <2>4 DEF Runs
  <2> QED BY <2>5
<1>3. T = Nat
  <2> HIDE DEF T
  <2>1. T \in SUBSET Nat
    BY DEF T
  <2> QED BY <1>1, <1>2, <2>1, SetInduction
<1> QED BY <1>3

(* ... and Loop is one.                                                    *)
LEMMA LoopRuns ==
    ASSUME NEW ind, NEW l, Len(l) \in Nat
    PROVE  Runs(Loop(ind, l), ind, l, Len(l))
<1>1. \E f : Runs(f, ind, l, Len(l))
  BY LoopExists
<1> QED BY <1>1 DEF Runs, Loop, Start

(* The loop, step by step.                                                 *)
LEMMA LoopSteps ==
    ASSUME NEW ind, NEW l, Len(l) \in Nat
    PROVE  /\ Loop(ind, l)[0] = Start(ind)
           /\ \A k \in 0..(Len(l) - 1) : Loop(ind, l)[k + 1] = Visit(Loop(ind, l)[k], Sn(l[k + 1]))
<1>1. PICK f : f = Loop(ind, l) /\ Runs(f, ind, l, Len(l))
  BY LoopRuns
<1>2. f[0] = Start(ind)
  BY <1>1 DEF Runs
<1>3. ASSUME NEW k \in 0..(Len(l) - 1) PROVE f[k + 1] = Visit(f[k], Sn(l[k + 1]))
  <2>1. k + 1 \in 0..Len(l) /\ k + 1 # 0 /\ (k + 1) - 1 = k
    OBVIOUS
  <2> QED BY <1>1, <2>1 DEF Runs
<1> QED BY <1>1, <1>2, <1>3

(* Induction up to n.                                                      *)
LEMMA UpTo ==
    ASSUME NEW n \in Nat, NEW T, 0 \in T, \A k \in 0..(n - 1) : k \in T => k + 1 \in T
    PROVE  \A k \in 0..n : k \in T
<1> DEFINE U == {k \in Nat : k \in T \/ k > n}
<1>1. U \in SUBSET Nat /\ 0 \in U
  OBVIOUS
<1>2. ASSUME NEW k \in U PROVE k + 1 \in U
  <2>1. CASE k > n \/ k = n
    BY <2>1
  <2>2. CASE ~(k > n \/ k = n)
    <3>1. k \in 0..(n - 1) /\ k \in T
      BY <2>2
    <3> QED BY <3>1
  <2> QED BY <2>1, <2>2
<1> HIDE DEF U
<1>3. U = Nat
  BY <1>1, <1>2, SetInduction
<1> QED BY <1>3 DEF U

(* Waiting for the next frame moves the offset by one.                     *)
LEMMA OffNext ==
    ASSUME Half > 1, NEW a \in SeqNos, NEW b \in SeqNos, NEW c \in Nat, Off(a, b) = c, c + 1 < Half
    PROVE  Off(a, NextSn(b)) = c + 1
<1>1. Half \in Nat /\ Half # 0
  BY Space
<1>2. Off(a, a) = 0
  BY <1>1, OffSame
<1>3. Off(b, a) = -c
  <2>1. -Half <= Off(a, a) - Off(a, b) /\ Off(a, a) - Off(a, b) < Half
    BY <1>1, <1>2
  <2>2. Off(b, a) = Off(a, a) - Off(a, b)
    BY <1>1, <2>1, OffShift
  <2> QED BY <1>2, <2>2
<1>4. PICK y \in SeqNos : y = NextSn(b) /\ Off(b, y) = 1
  BY NextOff
<1>5. -Half <= Off(b, y) - Off(b, a) /\ Off(b, y) - Off(b, a) < Half /\ Off(b, y) - Off(b, a) = c + 1
  BY <1>1, <1>3, <1>4
<1>6. Off(a, y) = Off(b, y) - Off(b, a)
  BY <1>1, <1>5, OffShift
<1> QED BY <1>4, <1>5, <1>6

(* The loop computes a sequence number and whether there is a gap.         *)
LEMMA LoopTyped ==
    ASSUME Half # 0, NEW ind \in SeqNos, NEW l, Len(l) \in Nat
    PROVE  \A k \in 0..Len(l) : Loop(ind, l)[k].ind \in SeqNos /\ Loop(ind, l)[k].gap \in BOOLEAN
<1>0. PICK f : f = Loop(ind, l)
  OBVIOUS
<1> DEFINE T == {k \in Nat : f[k].ind \in SeqNos /\ f[k].gap \in BOOLEAN}
<1>1. 0 \in T
  <2>1. f[0] = Start(ind)
    BY <1>0, LoopSteps
  <2>2. f[0].ind = ind /\ f[0].gap = FALSE
    BY <2>1 DEF Start
  <2> QED BY <2>2
<1>2. ASSUME NEW k \in 0..(Len(l) - 1), k \in T PROVE k + 1 \in T
  <2>1. f[k + 1] = Visit(f[k], Sn(l[k + 1]))
    BY <1>0, LoopSteps
  <2>2. f[k].ind \in SeqNos
    BY <1>2
  <2>3. NextSn(f[k].ind) \in SeqNos
    <3>1. f[k].ind + 1 \in Int
      BY <2>2, Space DEF SeqNos
    <3> QED BY <3>1, SnType DEF NextSn
  <2>4. f[k + 1].ind \in SeqNos
    BY <2>1, <2>2, <2>3 DEF Visit
  <2>5. f[k + 1].gap \in BOOLEAN
    BY <2>1 DEF Visit
  <2> QED BY <2>4, <2>5
<1>3. \A k \in 0..Len(l) : k \in T
  <2> HIDE DEF T
  <2> QED BY <1>1, <1>2, UpTo
<1> QED BY <1>0, <1>3

(* The frames of l are between lo and top ahead of a.                      *)
Between(a, l, lo, top) ==
    \A i \in 1..Len(l) : lo <= Off(a, Sn(l[i])) /\ Off(a, Sn(l[i])) <= top

(* The loop compares a frame near ind_sn right.                            *)
LEMMA VisitStep ==
    ASSUME Half > 1, NEW ind \in SeqNos, NEW lo \in Int, NEW top \in Int, -1 <= top, top + 1 < Half,
           top + 1 - lo < Half, NEW v \in SeqNos, Off(ind, v) \in 0..(top + 1),
           NEW x \in SeqNos, Off(ind, x) \in lo..top
    PROVE  /\ SnLess(v, x) <=> Off(ind, x) > Off(ind, v)
           /\ x = v <=> Off(ind, x) = Off(ind, v)
           /\ x = v => /\ NextSn(v) \in SeqNos /\ Off(ind, NextSn(v)) = Off(ind, v) + 1
                       /\ Off(ind, v) + 1 \in 0..(top + 1)
<1>0. PICK c \in 0..(top + 1), p \in lo..top : c = Off(ind, v) /\ p = Off(ind, x)
  OBVIOUS
<1>1. Half \in Nat /\ Half # 0
  BY Space
<1>2. Off(v, x) = p - c /\ p - c \in Int /\ -Half < p - c /\ p - c < Half
  <2>1. -Half < p - c /\ p - c < Half
    BY <1>1
  <2> QED BY <1>0, <1>1, <2>1, OffShift
<1>3. SnLess(v, x) <=> p > c
  BY <1>1, <1>2, LessOff
<1>4. x = v <=> p = c
  BY <1>1, <1>2, OffSame
<1>5. ASSUME x = v PROVE NextSn(v) \in SeqNos /\ Off(ind, NextSn(v)) = c + 1 /\ c + 1 \in 0..(top + 1)
  <2>1. p = c
    BY <1>4, <1>5
  <2>2. c \in Nat /\ c + 1 < Half /\ c + 1 \in 0..(top + 1)
    BY <1>1, <2>1
  <2> QED BY <1>0, <2>2, NextOff, OffNext
<1> QED BY <1>0, <1>3, <1>4, <1>5

(* Where a loop f is after k frames.                                       *)
LoopAt(f, ind, l, top, k) ==
    /\ f[k].ind \in SeqNos /\ Off(ind, f[k].ind) \in 0..(top + 1)
    /\ ~f[k].gap => \A i \in 1..k : Off(ind, Sn(l[i])) < Off(ind, f[k].ind)

(* The loop stays in the window, and what it has passed is behind it.      *)
LEMMA LoopWindow ==
    ASSUME Half > 1, NEW ind \in SeqNos, NEW l \in Seq(Int), NEW lo \in Int, NEW top \in Int,
           -1 <= top, top + 1 < Half, top + 1 - lo < Half, Between(ind, l, lo, top)
    PROVE  \A k \in 0..Len(l) : LoopAt(Loop(ind, l), ind, l, top, k)
<1>h. Half \in Nat /\ Half # 0 /\ Len(l) \in Nat
  BY Space
<1>0. PICK f : f = Loop(ind, l)
  OBVIOUS
<1> DEFINE T == {k \in Nat : LoopAt(f, ind, l, top, k)}
<1>1. 0 \in T
  <2>1. f[0].ind = ind /\ Off(ind, ind) = 0
    <3>1. f[0] = Start(ind)
      BY <1>0, <1>h, LoopSteps
    <3> QED BY <1>h, <3>1, OffSame DEF Start
  <2> QED BY <2>1 DEF LoopAt
<1>2. ASSUME NEW k \in 0..(Len(l) - 1), k \in T PROVE k + 1 \in T
  <2>1. f[k + 1] = Visit(f[k], Sn(l[k + 1]))
    BY <1>0, <1>h, LoopSteps
  <2>a. PICK v \in SeqNos : v = f[k].ind
    BY <1>2 DEF LoopAt
  <2>b. PICK c \in 0..(top + 1) : c = Off(ind, v)
    BY <1>2, <2>a DEF LoopAt
  <2>2. v = f[k].ind /\ c = Off(ind, v)
    BY <2>a, <2>b
  <2>3. k + 1 \in 1..Len(l) /\ l[k + 1] \in Int
    BY <1>h
  <2>4. PICK x \in SeqNos : x = Sn(l[k + 1])
    BY <1>h, <2>3, SnType
  <2>5. PICK p \in lo..top : p = Off(ind, x)
    <3>1. Off(ind, x) \in Int
      BY <1>h, OffIs
    <3>2. lo <= Off(ind, x) /\ Off(ind, x) <= top
      BY <2>3, <2>4 DEF Between
    <3> QED BY <3>1, <3>2
  <2>6. /\ SnLess(v, x) <=> p > c
        /\ x = v <=> p = c
        /\ x = v => NextSn(v) \in SeqNos /\ Off(ind, NextSn(v)) = c + 1 /\ c + 1 \in 0..(top + 1)
    <3> HIDE DEF T
    <3>1. Off(ind, v) \in 0..(top + 1) /\ Off(ind, x) \in lo..top
      BY <2>2, <2>5
    <3>2. /\ SnLess(v, x) <=> Off(ind, x) > Off(ind, v)
          /\ x = v <=> Off(ind, x) = Off(ind, v)
          /\ x = v => /\ NextSn(v) \in SeqNos /\ Off(ind, NextSn(v)) = Off(ind, v) + 1
                      /\ Off(ind, v) + 1 \in 0..(top + 1)
      BY <3>1, VisitStep
    <3> QED BY <2>2, <2>5, <3>2
  <2>7. f[k + 1].ind \in SeqNos /\ Off(ind, f[k + 1].ind) \in 0..(top + 1)
    BY <2>1, <2>2, <2>4, <2>6 DEF Visit
  <2>8. ASSUME ~f[k + 1].gap, NEW i \in 1..(k + 1)
        PROVE  Off(ind, Sn(l[i])) < Off(ind, f[k + 1].ind)
    <3>1. ~f[k].gap /\ ~(p > c) /\ f[k + 1].ind = IF p = c THEN NextSn(v) ELSE v
      BY <2>1, <2>2, <2>4, <2>6, <2>8 DEF Visit
    <3>2. p < Off(ind, f[k + 1].ind) /\ c <= Off(ind, f[k + 1].ind) /\ Off(ind, f[k + 1].ind) \in Int
      BY <2>2, <2>6, <3>1
    <3>3. CASE i = k + 1
      BY <2>4, <2>5, <3>2, <3>3
    <3>4. CASE i # k + 1
      <4>1. i \in 1..k /\ i \in 1..Len(l)
        BY <1>h, <3>4
      <4>2. Off(ind, Sn(l[i])) < c
        BY <1>2, <2>2, <3>1, <4>1 DEF LoopAt
      <4>3. Off(ind, Sn(l[i])) \in Int
        <5>1. l[i] \in Int
          BY <4>1
        <5> QED BY <5>1, <1>h, SnType, OffIs
      <4> QED BY <3>2, <4>2, <4>3
    <3> QED BY <3>3, <3>4
  <2> QED BY <2>7, <2>8 DEF LoopAt
<1>3. \A k \in 0..Len(l) : k \in T
  <2> HIDE DEF T
  <2> QED BY <1>1, <1>2, <1>h, UpTo
<1> QED BY <1>0, <1>3

(* The least of a set of numbers.                                          *)
LEMMA MinIs ==
    ASSUME NEW S \in SUBSET Nat, S # {}
    PROVE  Min(S) \in S /\ \A y \in S : Min(S) <= y
  BY Least DEF Min

(* The frames at the head that are not ahead of ind_sn, and no more.       *)
LEMMA ReadyIs ==
    ASSUME NEW ind, NEW l, Len(l) \in Nat
    PROVE  /\ Ready(ind, l) \in 0..Len(l)
           /\ \A i \in 1..Ready(ind, l) : ~SnLess(ind, Sn(l[i]))
           /\ Ready(ind, l) < Len(l) => SnLess(ind, Sn(l[Ready(ind, l) + 1]))
<1> DEFINE I == {i \in 1..Len(l) : SnLess(ind, Sn(l[i]))}
<1>1. I \in SUBSET Nat
  OBVIOUS
<1>2. CASE I = {}
  <2>1. Ready(ind, l) = Len(l)
    BY <1>2 DEF Ready, SelectInSeq
  <2> QED BY <1>2, <2>1
<1>3. CASE I # {}
  <2>1. Min(I) \in I /\ \A y \in I : Min(I) <= y
    BY <1>1, <1>3, MinIs
  <2>2. Ready(ind, l) = Min(I) - 1
    BY <1>3, <2>1 DEF Ready, SelectInSeq
  <2>3. PICK m \in I : m = Min(I)
    BY <2>1
  <2>4. m \in 1..Len(l) /\ SnLess(ind, Sn(l[m])) /\ Ready(ind, l) = m - 1 /\ (m - 1) + 1 = m
    BY <2>2, <2>3
  <2>5. ASSUME NEW i \in 1..(m - 1) PROVE ~SnLess(ind, Sn(l[i]))
    <3>1. i \in 1..Len(l) /\ ~(m <= i)
      BY <2>4
    <3>2. i \notin I
      BY <2>1, <2>3, <3>1
    <3> QED BY <3>1, <3>2
  <2> QED BY <2>4, <2>5
<1> QED BY <1>2, <1>3

(* What is put in at i.                                                    *)
LEMMA Inserted ==
    ASSUME NEW S, NEW l \in Seq(S), NEW n \in S, NEW i \in 1..Len(l)
    PROVE  /\ InsertAt(l, i, n) \in Seq(S) /\ Len(InsertAt(l, i, n)) = Len(l) + 1
           /\ \A j \in 1..(Len(l) + 1) :
                InsertAt(l, i, n)[j] = IF j < i THEN l[j] ELSE IF j = i THEN n ELSE l[j - 1]
<1>1. PICK a : a = SubSeq(l, 1, i - 1)
  OBVIOUS
<1>2. a \in Seq(S) /\ Len(a) = i - 1 /\ \A j \in 1..(i - 1) : a[j] = l[j]
  BY <1>1
<1>3. PICK b : b = SubSeq(l, i, Len(l))
  OBVIOUS
<1>4. b \in Seq(S) /\ Len(b) = Len(l) - i + 1 /\ \A j \in 1..(Len(l) - i + 1) : b[j] = l[i + j - 1]
  BY <1>3
<1>5. PICK c : c = a \o <<n>>
  OBVIOUS
<1>6. c \in Seq(S) /\ Len(c) = i /\ c[i] = n /\ \A j \in 1..(i - 1) : c[j] = l[j]
  BY <1>2, <1>5
<1>7. InsertAt(l, i, n) = c \o b
  BY <1>1, <1>3, <1>5 DEF InsertAt
<1>8. c \o b \in Seq(S) /\ Len(c \o b) = Len(l) + 1
  BY <1>4, <1>6
<1>9. ASSUME NEW j \in 1..(Len(l) + 1)
      PROVE  (c \o b)[j] = IF j < i THEN l[j] ELSE IF j = i THEN n ELSE l[j - 1]
  <2>1. CASE j <= i
    <3>1. (c \o b)[j] = c[j]
      BY <1>4, <1>6, <2>1
    <3> QED BY <1>6, <2>1, <3>1
  <2>2. CASE j > i
    <3>1. (c \o b)[j] = b[j - i] /\ j - i \in 1..(Len(l) - i + 1)
      BY <1>4, <1>6, <2>2
    <3>2. PICK d \in 1..(Len(l) - i + 1) : d = j - i
      BY <3>1
    <3>3. i + d - 1 = j - 1
      BY <3>2
    <3>4. b[d] = l[i + d - 1]
      BY <1>4
    <3>5. b[d] = l[j - 1]
      BY <3>3, <3>4
    <3>6. (c \o b)[j] = b[d]
      BY <3>1, <3>2
    <3>7. ~(j < i) /\ j # i
      BY <2>2
    <3> QED BY <3>5, <3>6, <3>7, Zenon
  <2>3. j <= i \/ j > i
    BY <1>6
  <2> QED BY <2>1, <2>2, <2>3, Zenon
<1> QED BY <1>7, <1>8, <1>9

(* The frame n stands at i of m, and l around it.                          *)
With(m, l, n, i) ==
    /\ i \in 1..(Len(l) + 1) /\ Len(m) = Len(l) + 1
    /\ \A j \in 1..(Len(l) + 1) : m[j] = IF j < i THEN l[j] ELSE IF j = i THEN n ELSE l[j - 1]

(* Where a frame is put on the list.                                       *)
LEMMA EnqueueIs ==
    ASSUME NEW S, NEW l \in Seq(S), NEW n \in S
    PROVE  /\ Enqueue(l, n) \in Seq(S)
           /\ \E i \in 1..(Len(l) + 1) :
                /\ With(Enqueue(l, n), l, n, i)
                /\ \A j \in 1..(i - 1) : SnLess(Sn(l[j]), Sn(n))
                /\ i <= Len(l) => /\ ~SnLess(Sn(l[i]), Sn(n))
                                  /\ IsDuplicate(l, n) <=> Sn(l[i]) = Sn(n)
                /\ i = Len(l) + 1 => ~IsDuplicate(l, n)
<1> DEFINE I == {i \in 1..Len(l) : ~SnLess(Sn(l[i]), Sn(n))}
<1>1. I \in SUBSET Nat
  OBVIOUS
<1>2. CASE I = {}
  <2>1. Enqueue(l, n) = Append(l, n) /\ ~IsDuplicate(l, n)
    BY <1>2 DEF Enqueue, IsDuplicate, SelectInSeq
  <2>2. With(Append(l, n), l, n, Len(l) + 1)
    BY DEF With
  <2>3. \A j \in 1..Len(l) : SnLess(Sn(l[j]), Sn(n))
    BY <1>2
  <2>4. Len(l) + 1 \in 1..(Len(l) + 1) /\ ~(Len(l) + 1 <= Len(l)) /\ (Len(l) + 1) - 1 = Len(l)
    OBVIOUS
  <2>5. Append(l, n) \in Seq(S)
    OBVIOUS
  <2> QED BY <2>1, <2>2, <2>3, <2>4, <2>5
<1>3. CASE I # {}
  <2>1. Min(I) \in I /\ \A y \in I : Min(I) <= y
    BY <1>1, <1>3, MinIs
  <2>2. PICK i \in I : i = Min(I)
    BY <2>1
  <2>3. i \in 1..Len(l) /\ i # 0 /\ ~SnLess(Sn(l[i]), Sn(n))
    OBVIOUS
  <2>4. Enqueue(l, n) = InsertAt(l, i, n) /\ (IsDuplicate(l, n) <=> Sn(l[i]) = Sn(n))
    BY <1>3, <2>2, <2>3 DEF Enqueue, IsDuplicate, SelectInSeq
  <2>5. InsertAt(l, i, n) \in Seq(S) /\ With(InsertAt(l, i, n), l, n, i)
    BY <2>3, Inserted DEF With
  <2>6. \A j \in 1..(i - 1) : SnLess(Sn(l[j]), Sn(n))
    BY <2>1, <2>2, <2>3
  <2>7. i \in 1..(Len(l) + 1) /\ i # Len(l) + 1
    BY <2>3
  <2> QED BY <2>3, <2>4, <2>5, <2>6, <2>7
<1> QED BY <1>2, <1>3

(* A frame taken for a duplicate has the number of a frame on the list.    *)
LEMMA DuplicateAt ==
    ASSUME NEW l \in Seq(Int), NEW n \in Int, IsDuplicate(l, n)
    PROVE  \E i \in 1..Len(l) : Sn(l[i]) = Sn(n)
<1>1. PICK i \in 1..(Len(l) + 1) :
                /\ i <= Len(l) => (IsDuplicate(l, n) <=> Sn(l[i]) = Sn(n))
                /\ i = Len(l) + 1 => ~IsDuplicate(l, n)
  BY EnqueueIs
<1>2. i # Len(l) + 1
  BY <1>1
<1>3. i \in 1..Len(l) /\ i <= Len(l)
  BY <1>2
<1> QED BY <1>1, <1>3

(* The tail of a list.                                                     *)
LEMMA TailIs ==
    ASSUME NEW l \in Seq(Int), NEW k \in 0..Len(l), NEW i \in 1..(Len(l) - k)
    PROVE  SubSeq(l, k + 1, Len(l))[i] = l[k + i]
<1>1. PICK n \in Nat : n = Len(l)
  OBVIOUS
<1>2. k + 1 \in 1..(n + 1) /\ i \in 1..(n - (k + 1) + 1) /\ (k + 1) + i - 1 = k + i
  BY <1>1
<1>3. SubSeq(l, k + 1, n)[i] = l[(k + 1) + i - 1]
  BY <1>1, <1>2
<1> QED BY <1>1, <1>2, <1>3

(* The frames of l are in order, seen from a.                              *)
Sorted(a, l) ==
    \A i, j \in 1..Len(l) : i < j => Off(a, Sn(l[i])) < Off(a, Sn(l[j]))

(* The frames of a list have offsets.                                      *)
LEMMA OffListed ==
    ASSUME Half # 0, NEW a \in SeqNos, NEW l \in Seq(Int)
    PROVE  \A i \in 1..Len(l) : /\ l[i] \in Int /\ Sn(l[i]) \in SeqNos
                                /\ Off(a, Sn(l[i])) \in Int
<1>1. ASSUME NEW i \in 1..Len(l) PROVE l[i] \in Int /\ Sn(l[i]) \in SeqNos
  <2>1. l[i] \in Int
    OBVIOUS
  <2> QED BY <2>1, SnType
<1>2. ASSUME NEW i \in 1..Len(l) PROVE Off(a, Sn(l[i])) \in Int
  <2>1. PICK x \in SeqNos : x = Sn(l[i])
    BY <1>1
  <2> QED BY <2>1, OffIs
<1> QED BY <1>1, <1>2

(* Two frames that are less than half of the numbers apart.                *)
LEMMA Compare ==
    ASSUME Half # 0, NEW a \in SeqNos, NEW x \in SeqNos, NEW y \in SeqNos,
           Off(a, y) - Off(a, x) < Half, Off(a, x) - Off(a, y) < Half
    PROVE  /\ Off(x, y) = Off(a, y) - Off(a, x)
           /\ SnLess(x, y) <=> Off(a, x) < Off(a, y)
           /\ x = y <=> Off(a, x) = Off(a, y)
<1>1. Half \in Nat /\ Off(a, x) \in Int /\ Off(a, y) \in Int
  BY Space, OffIs
<1>2. Off(x, y) = Off(a, y) - Off(a, x)
  BY <1>1, OffShift
<1>3. Off(x, y) > -Half
  BY <1>1, <1>2
<1>4. SnLess(x, y) <=> Off(x, y) > 0
  BY <1>3, LessOff
<1>5. x = y <=> Off(x, y) = 0
  BY OffSame
<1> QED BY <1>1, <1>2, <1>4, <1>5

(* A frame that is not there already is put on the list in order.          *)
LEMMA EnqueueSorted ==
    ASSUME Half # 0, NEW a \in SeqNos, NEW l \in Seq(Int), NEW n \in Int,
           NEW lo \in Int, NEW top \in Int, top - lo < Half,
           Between(a, l, lo, top), Sorted(a, l),
           lo <= Off(a, Sn(n)), Off(a, Sn(n)) <= top, ~IsDuplicate(l, n)
    PROVE  Between(a, Enqueue(l, n), lo, top) /\ Sorted(a, Enqueue(l, n))
<1> DEFINE F(j) == Off(a, Sn(l[j]))
           h == Off(a, Sn(n))
<1>1. Half \in Nat /\ Len(l) \in Nat
  BY Space
<1>2. /\ h \in Int /\ lo <= h /\ h <= top /\ Sn(n) \in SeqNos
      /\ \A j \in 1..Len(l) : F(j) \in Int /\ lo <= F(j) /\ F(j) <= top
  <2>1. Sn(n) \in SeqNos
    BY SnType
  <2>2. h \in Int
    BY <2>1, OffIs
  <2>3. \A j \in 1..Len(l) : F(j) \in Int
    BY OffListed
  <2> QED BY <2>1, <2>2, <2>3 DEF Between
<1>3. ASSUME NEW j \in 1..Len(l)
      PROVE  (SnLess(Sn(l[j]), Sn(n)) <=> F(j) < h) /\ (Sn(l[j]) = Sn(n) <=> F(j) = h)
  <2>1. PICK x \in SeqNos : x = Sn(l[j])
    BY OffListed
  <2>2. PICK y \in SeqNos : y = Sn(n)
    BY <1>2
  <2>3. Off(a, x) = F(j) /\ Off(a, y) = h
    BY <2>1, <2>2
  <2>4. Off(a, y) - Off(a, x) < Half /\ Off(a, x) - Off(a, y) < Half
    <3> HIDE DEF F, h
    <3> QED BY <1>1, <1>2, <2>3
  <2>5. (SnLess(x, y) <=> Off(a, x) < Off(a, y)) /\ (x = y <=> Off(a, x) = Off(a, y))
    BY <2>4, Compare
  <2> QED BY <2>1, <2>2, <2>5
<1>0. PICK m : m = Enqueue(l, n)
  OBVIOUS
<1>4. PICK i \in 1..(Len(l) + 1) :
        /\ m = Enqueue(l, n) /\ With(m, l, n, i)
        /\ \A j \in 1..(i - 1) : SnLess(Sn(l[j]), Sn(n))
        /\ i <= Len(l) => ~SnLess(Sn(l[i]), Sn(n)) /\ Sn(l[i]) # Sn(n)
  <2>1. PICK i \in 1..(Len(l) + 1) :
                /\ With(Enqueue(l, n), l, n, i)
                /\ \A j \in 1..(i - 1) : SnLess(Sn(l[j]), Sn(n))
                /\ i <= Len(l) => /\ ~SnLess(Sn(l[i]), Sn(n))
                                  /\ IsDuplicate(l, n) <=> Sn(l[i]) = Sn(n)
                /\ i = Len(l) + 1 => ~IsDuplicate(l, n)
    BY EnqueueIs
  <2> QED BY <1>0, <2>1
<1>5. ASSUME NEW j \in 1..(i - 1) PROVE F(j) < h
  <2>1. j \in 1..Len(l)
    BY <1>1
  <2> QED BY <1>3, <1>4, <2>1
<1>6. ASSUME i <= Len(l) PROVE F(i) > h
  <2>1. i \in 1..Len(l)
    BY <1>1, <1>6
  <2>2. ~(F(i) < h) /\ F(i) # h
    BY <1>3, <1>4, <1>6, <2>1
  <2> HIDE DEF F, h
  <2> QED BY <1>2, <2>1, <2>2
<1>7. \A j, k \in 1..Len(l) : j < k => F(j) < F(k)
  BY DEF Sorted
<1>8. /\ Len(m) = Len(l) + 1
      /\ \A j \in 1..(Len(l) + 1) :
           Off(a, Sn(m[j])) = IF j < i THEN F(j) ELSE IF j = i THEN h ELSE F(j - 1)
  BY <1>4 DEF With
<1> HIDE DEF F, h
<1>9. ASSUME NEW j \in 1..(Len(l) + 1), j > i PROVE j - 1 \in 1..Len(l) /\ F(j - 1) > h
  <2>1. j - 1 \in 1..Len(l) /\ i \in 1..Len(l) /\ i <= j - 1
    BY <1>1, <1>9
  <2>2. F(i) > h
    BY <1>6, <2>1
  <2>3. PICK q \in 1..Len(l) : q = j - 1
    BY <2>1
  <2>4. F(i) \in Int /\ F(q) \in Int /\ h \in Int
    BY <1>2, <2>1
  <2>5. F(i) <= F(q)
    <3>1. CASE i = q
      BY <2>4, <3>1
    <3>2. CASE i # q
      <4>1. i < q
        BY <2>1, <2>3, <3>2
      <4>2. F(i) < F(q)
        BY <1>7, <2>1, <4>1
      <4> QED BY <2>4, <4>2
    <3> QED BY <3>1, <3>2
  <2>6. F(q) > h
    BY <2>2, <2>4, <2>5
  <2> QED BY <2>1, <2>3, <2>6
<1>10. Between(a, m, lo, top)
  <2>1. ASSUME NEW j \in 1..(Len(l) + 1) PROVE lo <= Off(a, Sn(m[j])) /\ Off(a, Sn(m[j])) <= top
    <3>1. CASE j < i
      BY <1>1, <1>2, <1>8, <3>1
    <3>2. CASE j = i
      BY <1>1, <1>2, <1>8, <3>2
    <3>3. CASE j > i
      BY <1>1, <1>2, <1>8, <1>9, <3>3
    <3> QED BY <1>1, <3>1, <3>2, <3>3
  <2> QED BY <1>8, <2>1 DEF Between
<1>11. Sorted(a, m)
  <2>1. ASSUME NEW j \in 1..(Len(l) + 1), NEW k \in 1..(Len(l) + 1), j < k
        PROVE  Off(a, Sn(m[j])) < Off(a, Sn(m[k]))
    <3>1. CASE k < i
      <4>1. j \in 1..Len(l) /\ k \in 1..Len(l) /\ j < i
        BY <1>1, <2>1, <3>1
      <4> QED BY <1>7, <1>8, <2>1, <3>1, <4>1
    <3>2. CASE j < i /\ k = i
      <4>1. j \in 1..(i - 1)
        BY <1>1, <3>2
      <4>2. F(j) < h
        BY <1>5, <4>1
      <4> QED BY <1>8, <3>2, <4>2
    <3>3. CASE j < i /\ k > i
      <4>1. j \in 1..(i - 1) /\ j \in 1..Len(l)
        BY <1>1, <3>3
      <4>2. F(j) < h
        BY <1>5, <4>1
      <4>3. k - 1 \in 1..Len(l) /\ F(k - 1) > h
        BY <1>9, <3>3
      <4>6. PICK q \in 1..Len(l) : q = k - 1
        BY <4>3
      <4>7. F(j) \in Int /\ F(q) \in Int /\ h \in Int /\ F(q) > h
        BY <1>2, <4>1, <4>3, <4>6
      <4>8. F(j) < F(q)
        BY <4>2, <4>7
      <4>4. F(j) < F(k - 1)
        BY <4>6, <4>8
      <4>5. ~(k < i) /\ k # i
        BY <1>1, <3>3
      <4> QED BY <1>8, <3>3, <4>4, <4>5
    <3>4. CASE j = i
      <4>1. k > i /\ ~(k < i) /\ k # i /\ ~(j < i)
        BY <1>1, <2>1, <3>4
      <4>2. k - 1 \in 1..Len(l) /\ F(k - 1) > h
        BY <1>9, <4>1
      <4>3. h < F(k - 1)
        BY <1>2, <4>2
      <4> QED BY <1>8, <3>4, <4>1, <4>3
    <3>5. CASE j > i
      <4>1. /\ ~(j < i) /\ j # i /\ ~(k < i) /\ k # i /\ j - 1 < k - 1
            /\ j - 1 \in 1..Len(l) /\ k - 1 \in 1..Len(l)
        BY <1>1, <2>1, <3>5
      <4>2. F(j - 1) < F(k - 1)
        BY <1>7, <4>1
      <4> QED BY <1>8, <4>1, <4>2
    <3> QED BY <1>1, <2>1, <3>1, <3>2, <3>3, <3>4, <3>5
  <2> QED BY <1>8, <2>1 DEF Sorted
<1> QED BY <1>4, <1>10, <1>11

(* Seen from another number.                                               *)
LEMMA Rebase ==
    ASSUME Half # 0, NEW a \in SeqNos, NEW b \in SeqNos, NEW l \in Seq(Int),
           NEW lo \in Int, NEW top \in Int, NEW e \in Int, Off(a, b) = e,
           -Half <= lo - e, top - e < Half, Between(a, l, lo, top), Sorted(a, l)
    PROVE  Between(b, l, lo - e, top - e) /\ Sorted(b, l)
<1>1. Half \in Nat
  BY Space
<1>2. ASSUME NEW i \in 1..Len(l)
      PROVE  /\ Off(b, Sn(l[i])) = Off(a, Sn(l[i])) - e /\ Off(a, Sn(l[i])) \in Int
             /\ lo - e <= Off(b, Sn(l[i])) /\ Off(b, Sn(l[i])) <= top - e
  <2>1. PICK x \in SeqNos : x = Sn(l[i])
    BY OffListed
  <2>2. Off(a, x) \in Int
    BY OffIs
  <2>3. lo <= Off(a, x) /\ Off(a, x) <= top
    BY <2>1 DEF Between
  <2>4. -Half <= Off(a, x) - Off(a, b) /\ Off(a, x) - Off(a, b) < Half
    BY <1>1, <2>2, <2>3
  <2>5. Off(b, x) = Off(a, x) - Off(a, b)
    BY <2>4, OffShift
  <2> QED BY <2>1, <2>2, <2>3, <2>5
<1>3. Between(b, l, lo - e, top - e)
  BY <1>2 DEF Between
<1>4. ASSUME NEW i \in 1..Len(l), NEW j \in 1..Len(l), i < j
      PROVE  Off(b, Sn(l[i])) < Off(b, Sn(l[j]))
  <2>1. Off(a, Sn(l[i])) < Off(a, Sn(l[j]))
    BY <1>4 DEF Sorted
  <2> QED BY <1>2, <2>1
<1> QED BY <1>3, <1>4 DEF Sorted

(* What Indicate leaves on the list.                                       *)
Rest(a, l) == SubSeq(l, Ready(Process(a, l).ind, l) + 1, Len(l))

(* What stays on the list is in order and ahead of ind_sn; if no gap was   *)
(* found nothing stays.                                                    *)
LEMMA RestInWindow ==
    ASSUME Half > 1, NEW a \in SeqNos, NEW l \in Seq(Int),
           NEW lo \in Int, NEW top \in Int, -1 <= top, top + 1 < Half, top + 1 - lo < Half,
           Between(a, l, lo, top), Sorted(a, l)
    PROVE  /\ Between(Process(a, l).ind, Rest(a, l), 1, top)
           /\ Sorted(Process(a, l).ind, Rest(a, l))
           /\ ~Process(a, l).gap => Rest(a, l) = <<>>
<1> DEFINE F(j) == Off(a, Sn(l[j]))
<1>1. Half \in Nat /\ Half # 0 /\ Len(l) \in Nat
  BY Space
<1>2. LoopAt(Loop(a, l), a, l, top, Len(l))
  BY <1>1, LoopWindow
<1>3. PICK v \in SeqNos : v = Process(a, l).ind
  BY <1>2 DEF LoopAt, Process
<1>4. PICK c \in 0..(top + 1) : c = Off(a, v)
  BY <1>2, <1>3 DEF LoopAt, Process
<1>5. ~Process(a, l).gap => \A i \in 1..Len(l) : F(i) < c
  BY <1>2, <1>3, <1>4 DEF LoopAt, Process
<1>6. \A j \in 1..Len(l) : F(j) \in Int /\ lo <= F(j) /\ F(j) <= top
  BY <1>1, OffListed DEF Between
<1>7. ASSUME NEW j \in 1..Len(l)
      PROVE  (SnLess(v, Sn(l[j])) <=> c < F(j)) /\ Off(v, Sn(l[j])) = F(j) - c
  <2>1. PICK x \in SeqNos : x = Sn(l[j])
    BY <1>1, OffListed
  <2>2. Off(a, x) = F(j) /\ Off(a, v) = c
    BY <2>1, <1>4
  <2>3. Off(a, v) - Off(a, x) < Half /\ Off(a, x) - Off(a, v) < Half
    <3> HIDE DEF F
    <3> QED BY <1>1, <1>6, <2>2
  <2>4. (SnLess(v, x) <=> Off(a, v) < Off(a, x)) /\ Off(v, x) = Off(a, x) - Off(a, v)
    BY <1>1, <2>3, Compare
  <2> QED BY <2>1, <2>2, <2>4
<1>8. PICK k \in 0..Len(l) : /\ k = Ready(v, l)
                             /\ k < Len(l) => SnLess(v, Sn(l[k + 1]))
  BY <1>1, ReadyIs
<1>9. \A j, i \in 1..Len(l) : j < i => F(j) < F(i)
  BY DEF Sorted
<1>10. PICK r : r = Rest(a, l)
  OBVIOUS
<1>11. /\ r = SubSeq(l, k + 1, Len(l)) /\ Len(r) = Len(l) - k
       /\ \A i \in 1..Len(r) : r[i] = l[k + i] /\ k + i \in 1..Len(l)
  <2>1. r = SubSeq(l, k + 1, Len(l))
    BY <1>3, <1>8, <1>10 DEF Rest
  <2>2. Len(r) = Len(l) - k
    BY <1>1, <2>1
  <2>3. ASSUME NEW i \in 1..Len(r) PROVE r[i] = l[k + i] /\ k + i \in 1..Len(l)
    <3>1. i \in 1..(Len(l) - k)
      BY <2>2
    <3>2. k + i \in 1..Len(l)
      BY <1>1, <3>1
    <3> QED BY <2>1, <3>1, <3>2, TailIs
  <2> QED BY <2>1, <2>2, <2>3
<1>12. ASSUME NEW i \in 1..Len(r)
       PROVE  /\ k + i \in 1..Len(l) /\ Off(v, Sn(r[i])) = F(k + i) - c
              /\ c < F(k + i) /\ F(k + i) \in Int /\ F(k + i) <= top
  <2>1. k + i \in 1..Len(l) /\ r[i] = l[k + i] /\ k + 1 \in 1..Len(l) /\ k < Len(l) /\ k + 1 <= k + i
    <3>1. k + i \in 1..Len(l) /\ r[i] = l[k + i]
      BY <1>11
    <3>2. PICK z \in Nat : z = Len(l)
      BY <1>1
    <3>3. k \in Nat /\ i \in Nat /\ 1 <= i /\ k + i <= z
      BY <1>1, <1>11, <3>1, <3>2
    <3>4. k + 1 \in 1..z /\ k < z /\ k + 1 <= k + i
      BY <3>3
    <3> QED BY <3>1, <3>2, <3>4
  <2>2. c < F(k + 1)
    BY <1>7, <1>8, <2>1
  <2>3. Off(v, Sn(r[i])) = F(k + i) - c
    BY <1>7, <2>1
  <2> HIDE DEF F
  <2>4. PICK s \in 1..Len(l), q \in 1..Len(l) : s = k + 1 /\ q = k + i
    BY <2>1
  <2>5. F(s) \in Int /\ F(q) \in Int /\ F(q) <= top
    BY <1>6
  <2>6. F(s) <= F(q)
    <3>1. CASE s = q
      BY <2>5, <3>1
    <3>2. CASE s # q
      <4>1. s < q
        BY <2>1, <2>4, <3>2
      <4>2. F(s) < F(q)
        BY <1>9, <4>1
      <4> QED BY <2>5, <4>2
    <3> QED BY <3>1, <3>2
  <2>7. c < F(s)
    BY <2>2, <2>4
  <2>8. c < F(q)
    BY <2>5, <2>6, <2>7
  <2> QED BY <2>1, <2>3, <2>4, <2>5, <2>8
<1>13. Between(v, r, 1, top)
  <2> HIDE DEF F
  <2>1. ASSUME NEW i \in 1..Len(r) PROVE 1 <= Off(v, Sn(r[i])) /\ Off(v, Sn(r[i])) <= top
    <3>1. PICK f \in Int : f = F(k + i) /\ c < f /\ f <= top /\ Off(v, Sn(r[i])) = f - c
      BY <1>12
    <3>2. c \in Nat /\ top \in Int
      BY <1>1
    <3>3. 1 <= f - c /\ f - c <= top
      BY <3>1, <3>2
    <3> QED BY <3>1, <3>3
  <2> QED BY <2>1 DEF Between
<1>14. Sorted(v, r)
  <2> HIDE DEF F
  <2>1. ASSUME NEW i \in 1..Len(r), NEW j \in 1..Len(r), i < j
        PROVE  Off(v, Sn(r[i])) < Off(v, Sn(r[j]))
    <3>1. k + i \in 1..Len(l) /\ k + j \in 1..Len(l) /\ k + i < k + j
      BY <1>12, <2>1, <1>11
    <3>2. F(k + i) < F(k + j)
      BY <1>9, <3>1
    <3> QED BY <1>12, <3>2
  <2> QED BY <2>1 DEF Sorted
<1>15. ASSUME ~Process(a, l).gap PROVE r = <<>>
  <2>1. SUFFICES ASSUME k < Len(l) PROVE FALSE
    BY <1>1, <1>11
  <2>2. k + 1 \in 1..Len(l)
    BY <1>1, <2>1
  <2>3. c < F(k + 1) /\ F(k + 1) < c
    BY <1>5, <1>7, <1>8, <1>15, <2>1, <2>2
  <2> HIDE DEF F
  <2> QED BY <1>6, <2>2, <2>3
<1> QED BY <1>3, <1>10, <1>13, <1>14, <1>15

(* A list between two offsets is between wider ones.                       *)
LEMMA Widen ==
    ASSUME Half # 0, NEW a \in SeqNos, NEW l \in Seq(Int), NEW lo \in Int, NEW top \in Int,
           NEW lo2 \in Int, NEW top2 \in Int, lo2 <= lo, top <= top2, Between(a, l, lo, top)
    PROVE  Between(a, l, lo2, top2)
<1>1. \A i \in 1..Len(l) : Off(a, Sn(l[i])) \in Int
  BY OffListed
<1> QED BY <1>1 DEF Between

(* The list is in order and in the window of w numbers at ind.             *)
InWindow(ind, l, w) == Between(ind, l, 1, w - 1) /\ Sorted(ind, l)

(* The same with the differences that the code computes.                   *)
LEMMA WindowIs ==
    ASSUME Half # 0, NEW ind \in SeqNos, NEW l \in Seq(Int), NEW w \in Nat, w <= Half
    PROVE  InWindow(ind, l, w) <=>
             /\ \A i \in DOMAIN l : (Sn(l[i]) - ind) % SnMod \in 1 .. w - 1
             /\ \A i, j \in DOMAIN l :
                  i < j => (Sn(l[i]) - ind) % SnMod < (Sn(l[j]) - ind) % SnMod
<1> DEFINE A(i) == (Sn(l[i]) - ind) % SnMod
           F(i) == Off(ind, Sn(l[i]))
<1>1. Half \in Nat /\ SnMod = 2 * Half /\ Len(l) \in Nat /\ DOMAIN l = 1..Len(l)
  BY Space
<1>2. \A i \in 1..Len(l) : /\ A(i) \in 0..(SnMod - 1)
                           /\ F(i) = IF A(i) < Half THEN A(i) ELSE A(i) - SnMod
  <2>1. SUFFICES ASSUME NEW i \in 1..Len(l)
                 PROVE  /\ A(i) \in 0..(SnMod - 1)
                        /\ F(i) = IF A(i) < Half THEN A(i) ELSE A(i) - SnMod
    OBVIOUS
  <2>2. Sn(l[i]) - ind \in Int /\ SnMod \in Nat \ {0}
    <3>1. Sn(l[i]) \in SeqNos
      BY OffListed
    <3> QED BY <3>1, Space DEF SeqNos
  <2>3. A(i) \in 0..(SnMod - 1)
    BY <2>2
  <2> QED BY <2>3 DEF Off
<1>3. InWindow(ind, l, w) <=> /\ \A i \in 1..Len(l) : 1 <= F(i) /\ F(i) <= w - 1
                              /\ \A i, j \in 1..Len(l) : i < j => F(i) < F(j)
  BY DEF InWindow, Between, Sorted
<1> HIDE DEF A, F
<1>4. ASSUME InWindow(ind, l, w)
      PROVE  /\ \A i \in 1..Len(l) : A(i) \in 1 .. w - 1
             /\ \A i, j \in 1..Len(l) : i < j => A(i) < A(j)
  <2>1. \A i \in 1..Len(l) : A(i) = F(i) /\ A(i) \in Int /\ 1 <= F(i) /\ F(i) <= w - 1
    BY <1>1, <1>2, <1>3, <1>4
  <2>2. \A i, j \in 1..Len(l) : i < j => F(i) < F(j)
    BY <1>3, <1>4
  <2> QED BY <2>1, <2>2
<1>5. ASSUME \A i \in 1..Len(l) : A(i) \in 1 .. w - 1,
             \A i, j \in 1..Len(l) : i < j => A(i) < A(j)
      PROVE  InWindow(ind, l, w)
  <2>1. \A i \in 1..Len(l) : A(i) = F(i) /\ 1 <= F(i) /\ F(i) <= w - 1
    BY <1>1, <1>2, <1>5
  <2>2. \A i, j \in 1..Len(l) : i < j => F(i) < F(j)
    BY <1>5, <2>1
  <2> QED BY <1>3, <2>1, <2>2
<1> QED BY <1>1, <1>4, <1>5 DEF A

(* Seen from a, the frames of l are in order and so close together that    *)
(* the                                                                     *)
(* loop over them compares them right.                                     *)
Fits(a, l, w) ==
    \E lo \in Int, top \in Int :
        /\ -1 <= top /\ top <= w - 1 /\ top + 1 < Half /\ top + 1 - lo < Half
        /\ Between(a, l, lo, top) /\ Sorted(a, l)

(* What stays of a list that fits is in the window.                        *)
LEMMA RestFits ==
    ASSUME Half > 1, NEW a \in SeqNos, NEW l \in Seq(Int), NEW w \in Nat, Fits(a, l, w)
    PROVE  /\ InWindow(Process(a, l).ind, Rest(a, l), w)
           /\ ~Process(a, l).gap => Rest(a, l) = <<>>
<1>1. Half \in Nat /\ Half # 0
  BY Space
<1>2. PICK lo \in Int, top \in Int :
        /\ -1 <= top /\ top <= w - 1 /\ top + 1 < Half /\ top + 1 - lo < Half
        /\ Between(a, l, lo, top) /\ Sorted(a, l)
  BY DEF Fits
<1>4. /\ Between(Process(a, l).ind, Rest(a, l), 1, top)
      /\ Sorted(Process(a, l).ind, Rest(a, l))
      /\ ~Process(a, l).gap => Rest(a, l) = <<>>
  BY <1>2, RestInWindow
<1>5. PICK v \in SeqNos : v = Process(a, l).ind
  BY <1>1, LoopTyped DEF Process
<1>6. PICK r \in Seq(Int) : r = Rest(a, l)
  <2>1. Ready(v, l) \in 0..Len(l)
    BY ReadyIs
  <2>2. Rest(a, l) \in Seq(Int)
    BY <1>5, <2>1 DEF Rest
  <2> QED BY <2>2
<1>7. Between(v, r, 1, w - 1)
  BY <1>1, <1>2, <1>4, <1>5, <1>6, Widen
<1> QED BY <1>4, <1>5, <1>6, <1>7 DEF InWindow

(* A frame in the same half joins a list that fits.                        *)
LEMMA EnqueueFits ==
    ASSUME Half > 1, NEW a \in SeqNos, NEW l \in Seq(Int), NEW n \in Int,
           NEW lo \in Int, NEW top \in Int, NEW w \in Nat, -1 <= top, top <= w - 1,
           top + 1 < Half, top + 1 - lo < Half, Between(a, l, lo, top), Sorted(a, l),
           lo <= Off(a, Sn(n)), Off(a, Sn(n)) <= top, ~IsDuplicate(l, n)
    PROVE  Fits(a, Enqueue(l, n), w)
<1>1. Half \in Nat /\ Half # 0 /\ top - lo < Half
  BY Space
<1>3. Between(a, Enqueue(l, n), lo, top) /\ Sorted(a, Enqueue(l, n))
  BY <1>1, EnqueueSorted
<1> QED BY <1>3 DEF Fits

(* Seen from the other number.                                             *)
LEMMA OffBack ==
    ASSUME Half # 0, NEW a \in SeqNos, NEW b \in SeqNos, Off(a, b) > -Half
    PROVE  Off(b, a) = -Off(a, b)
<1>1. Half \in Nat /\ Off(a, b) \in Int /\ Off(a, b) < Half /\ Off(a, a) = 0
  BY Space, OffIs, OffSame
<1>2. -Half <= Off(a, a) - Off(a, b) /\ Off(a, a) - Off(a, b) < Half
  BY <1>1
<1>3. Off(b, a) = Off(a, a) - Off(a, b)
  BY <1>2, OffShift
<1> QED BY <1>1, <1>3

(* ind_sn after reord_need_check, with a window of w.                      *)
Checked(ind, sn, w) ==
    IF sn = ind THEN NextSn(ind)
    ELSE IF SnLess(Sn(ind + w - 1), sn) THEN Sn(sn - (w - 1)) ELSE ind

(* reord_need_check and the insertion leave a list that fits, and ind_sn   *)
(* alone for a duplicate.                                                  *)
LEMMA AcceptedFits ==
    ASSUME NEW w \in Nat \ {0}, w < Half, NEW ind \in SeqNos, NEW l \in Seq(Int), NEW n \in Int,
           InWindow(ind, l, w), ~SnLess(Sn(n), ind)
    PROVE  /\ Checked(ind, Sn(n), w) \in SeqNos
           /\ IsDuplicate(l, n) => Checked(ind, Sn(n), w) = ind
           /\ ~IsDuplicate(l, n) => Fits(Checked(ind, Sn(n), w), Enqueue(l, n), w)
<1>1. Half \in Nat /\ Half # 0 /\ Half > 1
  BY Space
<1>2. PICK x \in SeqNos : x = Sn(n)
  BY <1>1, SnType
<1>3. PICK d \in Int : d = Off(ind, x) /\ d < Half
  BY <1>1, OffIs
<1>4. 0 <= d
  BY <1>2, <1>3, LessOff, <1>1
<1>5. x = ind <=> d = 0
  BY <1>1, <1>3, OffSame
<1>6. PICK y \in SeqNos : y = Sn(ind + w - 1) /\ Off(ind, y) = w - 1
  <2>1. PICK u \in Nat : u = w - 1 /\ u < Half
    BY <1>1
  <2>2. Sn(ind + u) \in SeqNos /\ Off(ind, Sn(ind + u)) = u
    BY <1>1, <2>1, BackOff
  <2>3. ind + u = ind + w - 1
    BY <2>1 DEF SeqNos
  <2> QED BY <2>1, <2>2, <2>3
<1>7. SnLess(y, x) <=> w - 1 < d
  <2>1. Off(ind, x) - Off(ind, y) < Half /\ Off(ind, y) - Off(ind, x) < Half
    BY <1>1, <1>3, <1>4, <1>6
  <2>2. SnLess(y, x) <=> Off(ind, y) < Off(ind, x)
    BY <1>1, <2>1, Compare
  <2> QED BY <1>3, <1>6, <2>2
<1>8. Between(ind, l, 1, w - 1) /\ Sorted(ind, l)
  BY DEF InWindow
<1>9. ASSUME IsDuplicate(l, n) PROVE 1 <= d /\ d <= w - 1
  <2>1. PICK i \in 1..Len(l) : Sn(l[i]) = x
    BY <1>2, <1>9, DuplicateAt
  <2> QED BY <1>3, <1>8, <2>1 DEF Between
<1> DEFINE new == Checked(ind, Sn(n), w)
           Good == Fits(new, Enqueue(l, n), w)
<1>10. CASE d = 0
  <2>1. PICK b \in SeqNos : b = new /\ Off(ind, b) = 1
    BY <1>1, <1>2, <1>5, <1>10, NextOff DEF Checked
  <2>2. ~IsDuplicate(l, n)
    BY <1>9, <1>10
  <2>3. Off(b, x) = -1
    BY <1>1, <1>5, <1>10, <2>1, OffBack
  <2>4. PICK top \in Int : top = w - 1 - 1
    BY <1>1
  <2>5. PICK lo \in Int : lo = 1 - 1
    OBVIOUS
  <2>6. PICK e \in Int : e = 1
    OBVIOUS
  <2>7. Between(b, l, lo, top) /\ Sorted(b, l)
    <3>1. PICK t \in Int : t = w - 1
      OBVIOUS
    <3>2. -Half <= 1 - e /\ t - e < Half /\ Off(ind, b) = e /\ 1 \in Int
      BY <1>1, <2>1, <2>6, <3>1
    <3>3. Between(b, l, 1 - e, t - e) /\ Sorted(b, l)
      BY <1>1, <1>8, <3>1, <3>2, Rebase
    <3> QED BY <2>4, <2>5, <2>6, <3>1, <3>3
  <2>8. PICK lo2 \in Int : lo2 = -1
    OBVIOUS
  <2>9. Between(b, l, lo2, top)
    BY <1>1, <2>5, <2>7, <2>8, Widen
  <2>10. /\ -1 <= top /\ top <= w - 1 /\ top + 1 < Half /\ top + 1 - lo2 < Half /\ w \in Nat
         /\ lo2 <= Off(b, Sn(n)) /\ Off(b, Sn(n)) <= top
    BY <1>1, <1>2, <2>3, <2>4, <2>8
  <2>11. Good
    BY <1>1, <2>1, <2>2, <2>7, <2>9, <2>10, EnqueueFits
  <2> QED BY <2>1, <2>2, <2>11
<1>11. CASE d > w - 1
  <2>1. d # 0 /\ w - 1 < d
    BY <1>11
  <2>2. PICK u \in Nat : u = w - 1 /\ u < Half
    BY <1>1
  <2>3. PICK b \in SeqNos : b = new /\ Off(x, b) = -u
    <3>1. Sn(x - u) \in SeqNos /\ Off(x, Sn(x - u)) = -u
      BY <2>2, BackOff
    <3>2. new = Sn(x - u)
      BY <1>2, <1>5, <1>6, <1>7, <2>1, <2>2 DEF Checked
    <3> QED BY <3>1, <3>2
  <2>4. ~IsDuplicate(l, n)
    BY <1>9, <1>11, <1>3
  <2>5. Off(b, x) = u
    <3>1. Off(x, b) > -Half
      BY <1>1, <2>2, <2>3
    <3>2. Off(b, x) = -Off(x, b)
      BY <1>1, <3>1, OffBack
    <3> QED BY <2>3, <3>2
  <2>6. PICK e \in Int : e = d - u /\ e > 0
    BY <1>11, <2>2
  <2>7. Off(ind, b) = e
    <3>1. Off(x, ind) = -d
      BY <1>1, <1>3, <1>4, OffBack
    <3>2. -Half <= Off(x, b) - Off(x, ind) /\ Off(x, b) - Off(x, ind) < Half
      BY <1>1, <1>3, <1>4, <2>2, <2>3, <2>6, <3>1
    <3>3. Off(ind, b) = Off(x, b) - Off(x, ind)
      BY <1>1, <3>2, OffShift
    <3> QED BY <2>2, <2>3, <2>6, <3>1, <3>3
  <2>8. PICK t \in Int, lo \in Int, top \in Int : t = w - 1 /\ lo = 1 - e /\ top = t - e
    <3>1. w - 1 \in Int /\ 1 - e \in Int /\ (w - 1) - e \in Int
      OBVIOUS
    <3> QED BY <3>1
  <2>9. Between(b, l, lo, top) /\ Sorted(b, l)
    <3>3. PICK H \in Nat : H = Half
      BY <1>1
    <3>4. d < H /\ e > 0 /\ e <= d /\ t < H
      BY <1>3, <2>2, <2>6, <2>8, <3>3
    <3>5. -H <= 1 - e /\ t - e < H
      BY <3>4
    <3>1. -Half <= 1 - e /\ t - e < Half /\ 1 \in Int
      BY <3>3, <3>5
    <3>2. Between(b, l, 1 - e, t - e) /\ Sorted(b, l)
      BY <1>1, <1>8, <2>7, <2>8, <3>1, Rebase
    <3> QED BY <2>8, <3>2
  <2>10. Between(b, l, lo, t)
    BY <1>1, <2>6, <2>8, <2>9, Widen
  <2>11. /\ -1 <= t /\ t <= w - 1 /\ t + 1 < Half /\ t + 1 - lo < Half /\ w \in Nat
         /\ lo <= Off(b, Sn(n)) /\ Off(b, Sn(n)) <= t
    <3>4. t = u /\ t + 1 = w /\ 0 <= u
      BY <2>2, <2>8
    <3>5. lo = 1 - (d - u) /\ lo <= 0
      BY <2>6, <2>8
    <3>1. t = u /\ t + 1 = w /\ t + 1 - lo = d /\ lo <= 0 /\ 0 <= u
      BY <3>4, <3>5
    <3>2. -1 <= t /\ t <= w - 1 /\ t + 1 < Half /\ t + 1 - lo < Half /\ w \in Nat
      BY <1>3, <3>1
    <3>3. Off(b, Sn(n)) = u /\ lo <= u /\ u <= t
      BY <1>2, <2>2, <2>5, <2>8, <3>1
    <3> QED BY <3>2, <3>3
  <2>12. Good
    BY <1>1, <2>3, <2>4, <2>9, <2>10, <2>11, EnqueueFits
  <2> QED BY <2>3, <2>4, <2>12
<1>12. CASE d # 0 /\ ~(d > w - 1)
  <2>1. new = ind
    <3>1. ~(w - 1 < d)
      BY <1>12
    <3> QED BY <1>2, <1>5, <1>6, <1>7, <1>12, <3>1 DEF Checked
  <2>2. PICK t \in Int : t = w - 1
    OBVIOUS
  <2>3. /\ -1 <= t /\ t <= w - 1 /\ t + 1 < Half /\ t + 1 - 1 < Half /\ w \in Nat /\ 1 \in Int
        /\ 1 <= Off(ind, Sn(n)) /\ Off(ind, Sn(n)) <= t
    BY <1>1, <1>2, <1>3, <1>4, <1>12, <2>2
  <2>4. ASSUME ~IsDuplicate(l, n) PROVE Good
    BY <1>1, <1>8, <2>1, <2>2, <2>3, <2>4, EnqueueFits
  <2> QED BY <2>1, <2>4
<1> QED BY <1>10, <1>11, <1>12

(* The work item takes the head of the list for the frame that it waits    *)
(* for.                                                                    *)
LEMMA GivenUpFits ==
    ASSUME NEW w \in Nat \ {0}, w < Half, NEW ind \in SeqNos, NEW l \in Seq(Int), l # <<>>,
           InWindow(ind, l, w)
    PROVE  Fits(Sn(Head(l)), l, w)
<1>1. Half \in Nat /\ Half # 0 /\ Half > 1 /\ 1 \in 1..Len(l) /\ Head(l) = l[1]
  BY Space
<1>2. PICK b \in SeqNos : b = Sn(Head(l))
  BY <1>1, OffListed
<1>3. PICK e \in Int : e = Off(ind, b)
  BY <1>1, OffIs
<1>4. Between(ind, l, 1, w - 1) /\ Sorted(ind, l)
  BY DEF InWindow
<1>5. 1 <= e /\ e <= w - 1
  BY <1>1, <1>2, <1>3, <1>4 DEF Between
<1>6. PICK t \in Int : t = w - 1
  OBVIOUS
<1>7. Between(ind, l, e, t)
  <2>1. ASSUME NEW i \in 1..Len(l) PROVE e <= Off(ind, Sn(l[i])) /\ Off(ind, Sn(l[i])) <= t
    <3>1. Off(ind, Sn(l[i])) \in Int
      BY <1>1, OffListed
    <3>2. Off(ind, Sn(l[i])) <= t
      BY <1>4, <1>6 DEF Between
    <3>3. CASE i = 1
      BY <1>1, <1>2, <1>3, <3>2, <3>3
    <3>4. CASE i # 1
      <4>1. 1 < i
        BY <3>4
      <4>2. Off(ind, Sn(l[1])) < Off(ind, Sn(l[i]))
        BY <1>1, <1>4, <4>1 DEF Sorted
      <4> QED BY <1>1, <1>2, <1>3, <3>1, <3>2, <4>2
    <3> QED BY <3>3, <3>4
  <2> QED BY <2>1 DEF Between
<1>8. -Half <= e - e /\ t - e < Half
  BY <1>1, <1>5, <1>6
<1>9. Between(b, l, e - e, t - e) /\ Sorted(b, l)
  BY <1>1, <1>3, <1>4, <1>7, <1>8, Rebase
<1>10. PICK lo \in Int, top \in Int : lo = e - e /\ top = t - e
  <2>1. e - e \in Int /\ t - e \in Int
    OBVIOUS
  <2> QED BY <2>1
<1>11. -1 <= top /\ top + 1 < Half /\ top + 1 - lo < Half /\ top <= t
  BY <1>1, <1>5, <1>6, <1>10
<1>12. top <= w - 1
  BY <1>6, <1>11
<1> QED BY <1>2, <1>9, <1>10, <1>11, <1>12 DEF Fits

(* What is on a list, once or twice.                                       *)
LEMMA RepeatedIs ==
    ASSUME NEW S, NEW l \in Seq(S), NEW x
    PROVE  /\ x \in Repeated(l) <=> \E i, j \in 1..Len(l) : i < j /\ l[i] = x /\ l[j] = x
           /\ x \in ToSet(l) <=> \E i \in 1..Len(l) : l[i] = x
  BY DEF Repeated, ToSet

(* A frame put on the list is there, and is there twice only if it was     *)
(* there before.                                                           *)
LEMMA EnqueueSet ==
    ASSUME NEW S, NEW l \in Seq(S), NEW n \in S
    PROVE  /\ ToSet(Enqueue(l, n)) = ToSet(l) \cup {n}
           /\ Repeated(Enqueue(l, n)) \subseteq Repeated(l) \cup (ToSet(l) \cap {n})
<1>1. PICK m \in Seq(S) : m = Enqueue(l, n)
  BY EnqueueIs
<1>2. PICK i \in 1..(Len(l) + 1) : With(m, l, n, i)
  BY <1>1, EnqueueIs
<1>3. Len(l) \in Nat /\ Len(m) = Len(l) + 1
  BY <1>2 DEF With
<1>4. m[i] = n /\ i \in 1..Len(m)
  BY <1>2, <1>3 DEF With
<1>5. ASSUME NEW j \in 1..Len(m), j # i
      PROVE  \E k \in 1..Len(l) : m[j] = l[k] /\ (j < i => k = j) /\ (j > i => k = j - 1)
  <2>1. CASE j < i
    <3>1. j \in 1..Len(l) /\ m[j] = l[j]
      BY <1>2, <1>3, <2>1 DEF With
    <3> QED BY <1>3, <2>1, <3>1
  <2>2. CASE j > i
    <3>1. PICK k \in 1..Len(l) : k = j - 1
      BY <1>3, <2>2
    <3>2. m[j] = l[k] /\ ~(j < i)
      BY <1>2, <1>3, <2>2, <3>1 DEF With
    <3> QED BY <3>1, <3>2
  <2> QED BY <1>3, <1>5, <2>1, <2>2
<1>6. ASSUME NEW k \in 1..Len(l) PROVE \E j \in 1..Len(m) : m[j] = l[k]
  <2>1. CASE k < i
    <3>1. k \in 1..Len(m) /\ m[k] = l[k]
      BY <1>2, <1>3, <2>1 DEF With
    <3> QED BY <3>1
  <2>2. CASE k >= i
    <3>1. PICK j \in 1..Len(m) : j = k + 1
      BY <1>3
    <3>2. ~(j < i) /\ j # i /\ j - 1 = k /\ j \in 1..(Len(l) + 1)
      BY <1>3, <2>2, <3>1
    <3>3. m[j] = l[k]
      BY <1>2, <3>2 DEF With
    <3> QED BY <3>3
  <2> QED BY <1>3, <2>1, <2>2
<1>7. ToSet(m) = ToSet(l) \cup {n}
  <2>1. ASSUME NEW x \in ToSet(m) PROVE x \in ToSet(l) \cup {n}
    <3>1. PICK j \in 1..Len(m) : m[j] = x
      BY RepeatedIs
    <3> QED BY <1>4, <1>5, <3>1, RepeatedIs
  <2>2. ASSUME NEW x \in ToSet(l) PROVE x \in ToSet(m)
    <3>1. PICK j \in 1..Len(l) : l[j] = x
      BY RepeatedIs
    <3> QED BY <1>6, <3>1, RepeatedIs
  <2>3. n \in ToSet(m)
    BY <1>4, RepeatedIs
  <2> QED BY <2>1, <2>2, <2>3
<1>8. ASSUME NEW x \in Repeated(m) PROVE x \in Repeated(l) \cup (ToSet(l) \cap {n})
  <2>1. PICK p \in 1..Len(m), q \in 1..Len(m) : p < q /\ m[p] = x /\ m[q] = x
    BY RepeatedIs
  <2>2. CASE p = i \/ q = i
    <3>1. x = n
      BY <1>4, <2>1, <2>2
    <3>2. PICK j \in 1..Len(m) : j # i /\ m[j] = x
      BY <1>3, <2>1, <2>2
    <3>3. x \in ToSet(l)
      BY <1>5, <3>2, RepeatedIs
    <3> QED BY <3>1, <3>3
  <2>3. CASE p # i /\ q # i
    <3>1. PICK k \in 1..Len(l) : m[p] = l[k] /\ (p < i => k = p) /\ (p > i => k = p - 1)
      BY <1>5, <2>3
    <3>2. PICK j \in 1..Len(l) : m[q] = l[j] /\ (q < i => j = q) /\ (q > i => j = q - 1)
      BY <1>5, <2>3
    <3>3. k < j
      BY <1>3, <2>1, <2>3, <3>1, <3>2
    <3> QED BY <2>1, <3>1, <3>2, <3>3, RepeatedIs
  <2> QED BY <2>2, <2>3
<1> QED BY <1>1, <1>7, <1>8

(* h is the first k frames of l, r the others.                             *)
Splits(l, k, h, r) ==
    /\ k \in 0..Len(l) /\ Len(h) = k /\ \A i \in 1..k : h[i] = l[i]
    /\ Len(r) = Len(l) - k /\ \A i \in 1..Len(r) : r[i] = l[k + i]

(* The frames of the two parts of a list.                                  *)
LEMMA SplitSet ==
    ASSUME NEW S, NEW l \in Seq(S), NEW k, NEW h \in Seq(S), NEW r \in Seq(S), Splits(l, k, h, r)
    PROVE  /\ ToSet(l) = ToSet(h) \cup ToSet(r)
           /\ ToSet(h) \cap ToSet(r) \subseteq Repeated(l) /\ Repeated(r) \subseteq Repeated(l)
<1>1. Len(l) \in Nat /\ k \in 0..Len(l)
  BY DEF Splits
<1>2. h \in Seq(S) /\ Len(h) = k /\ \A i \in 1..k : h[i] = l[i]
  BY DEF Splits
<1>3. r \in Seq(S) /\ Len(r) = Len(l) - k
  BY DEF Splits
<1>4. ASSUME NEW i \in 1..Len(r) PROVE k + i \in 1..Len(l) /\ r[i] = l[k + i]
  BY <1>1, <1>3 DEF Splits
<1>5. ASSUME NEW x \in ToSet(l) PROVE x \in ToSet(h) \cup ToSet(r)
  <2>1. PICK i \in 1..Len(l) : l[i] = x
    BY RepeatedIs
  <2>2. CASE i <= k
    <3>1. i \in 1..Len(h) /\ h[i] = x
      BY <1>1, <1>2, <2>1, <2>2
    <3> QED BY <1>2, <3>1, RepeatedIs
  <2>3. CASE i > k
    <3>1. PICK j \in 1..Len(r) : k + j = i
      <4>1. i - k \in 1..Len(r) /\ k + (i - k) = i
        BY <1>1, <1>3, <2>3
      <4> QED BY <4>1
    <3>2. r[j] = x
      BY <1>4, <2>1, <3>1
    <3> QED BY <1>3, <3>2, RepeatedIs
  <2> QED BY <1>1, <2>2, <2>3
<1>6. ASSUME NEW x \in ToSet(h) PROVE \E i \in 1..k : i \in 1..Len(l) /\ l[i] = x
  <2>1. PICK i \in 1..Len(h) : h[i] = x
    BY <1>2, RepeatedIs
  <2> QED BY <1>1, <1>2, <2>1
<1>7. ASSUME NEW x \in ToSet(r) PROVE \E i \in 1..Len(l) : i > k /\ l[i] = x
  <2>1. PICK i \in 1..Len(r) : r[i] = x
    BY <1>3, RepeatedIs
  <2>2. k + i \in 1..Len(l) /\ k + i > k /\ l[k + i] = x
    BY <1>1, <1>3, <1>4, <2>1
  <2> QED BY <2>2
<1>8. ASSUME NEW x \in ToSet(h) \cap ToSet(r) PROVE x \in Repeated(l)
  <2>1. PICK i \in 1..k : i \in 1..Len(l) /\ l[i] = x
    BY <1>6
  <2>2. PICK j \in 1..Len(l) : j > k /\ l[j] = x
    BY <1>7
  <2>3. i < j
    BY <1>1, <2>1, <2>2
  <2> QED BY <2>1, <2>2, <2>3, RepeatedIs
<1>9. ASSUME NEW x \in Repeated(r) PROVE x \in Repeated(l)
  <2>1. PICK i \in 1..Len(r), j \in 1..Len(r) : i < j /\ r[i] = x /\ r[j] = x
    BY <1>3, RepeatedIs
  <2>2. PICK p \in 1..Len(l), q \in 1..Len(l) : p = k + i /\ q = k + j
    BY <1>4
  <2>3. l[p] = x /\ l[q] = x /\ p < q
    <3>1. r[i] = l[p] /\ r[j] = l[q]
      BY <1>4, <2>2
    <3>2. p < q
      BY <1>1, <1>3, <2>1, <2>2
    <3> QED BY <2>1, <3>1, <3>2
  <2> QED BY <2>3, RepeatedIs
<1>10. ToSet(h) \cup ToSet(r) \subseteq ToSet(l)
  BY <1>6, <1>7, RepeatedIs
<1> QED BY <1>2, <1>3, <1>5, <1>8, <1>9, <1>10

(* What Indicate does to the list, to what went up and to ind_sn.          *)
LEMMA IndicateIs ==
    ASSUME Half # 0, NEW a \in SeqNos, NEW S \in SUBSET Int, NEW l \in Seq(S), Indicate(a, l)
    PROVE  /\ ind_sn' = Process(a, l).ind /\ ind_sn' \in SeqNos
           /\ list' = Rest(a, l) /\ list' \in Seq(S)
           /\ out \in Seq(S) => out' \in Seq(S)
           /\ \E H \in SUBSET ToSet(l) :
                /\ up' = up \cup H /\ ToSet(l) = H \cup ToSet(list')
                /\ H \cap ToSet(list') \subseteq Repeated(l)
                /\ Repeated(list') \subseteq Repeated(l)
<1>1. PICK v \in SeqNos : v = Process(a, l).ind
  BY LoopTyped DEF Process
<1>2. PICK k \in 0..Len(l) : k = Ready(v, l)
  BY ReadyIs
<1>3. PICK h, r : h = SubSeq(l, 1, k) /\ r = SubSeq(l, k + 1, Len(l))
  OBVIOUS
<1>4. /\ ind_sn' = v /\ list' = r /\ out' = out \o h /\ up' = up \cup ToSet(h)
      /\ r = Rest(a, l)
  BY <1>1, <1>2, <1>3 DEF Indicate, Rest
<1>7. Len(l) \in Nat
  OBVIOUS
<1>8. h \in Seq(S) /\ Len(h) = k /\ \A i \in 1..k : h[i] = l[i]
  BY <1>3, <1>7
<1>9. r \in Seq(S) /\ Len(r) = Len(l) - k
  BY <1>3, <1>7
<1>10. ASSUME NEW i \in 1..Len(r) PROVE r[i] = l[k + i]
  <2>1. k + i \in 1..Len(l) /\ (k + 1) + i - 1 = k + i
    BY <1>7, <1>9
  <2> QED BY <1>3, <1>7, <1>9, <2>1
<1>5. /\ h \in Seq(S) /\ r \in Seq(S) /\ ToSet(l) = ToSet(h) \cup ToSet(r)
      /\ ToSet(h) \cap ToSet(r) \subseteq Repeated(l) /\ Repeated(r) \subseteq Repeated(l)
  <2>1. Splits(l, k, h, r)
    BY <1>8, <1>9, <1>10 DEF Splits
  <2>2. h \in Seq(S) /\ r \in Seq(S)
    BY <1>8, <1>9
  <2>3. /\ ToSet(l) = ToSet(h) \cup ToSet(r)
        /\ ToSet(h) \cap ToSet(r) \subseteq Repeated(l) /\ Repeated(r) \subseteq Repeated(l)
    BY <2>1, <2>2, SplitSet
  <2> QED BY <2>2, <2>3
<1>6. out \in Seq(S) => out' \in Seq(S)
  BY <1>4, <1>5
<1> QED BY <1>1, <1>4, <1>5, <1>6

(* The setup of a behaviour.                                               *)
LEMMA SetupIs ==
    ASSUME setup \in Setups
    PROVE  /\ Half \in Nat /\ Half > 1 /\ Half # 0
           /\ WinSize \in Nat \ {0} /\ WinSize < Half
           /\ SeqNos \subseteq Int /\ Numbers \subseteq Int
<1>1. /\ Half \in Nat /\ WinSize \in Nat \ {0} /\ setup.gap \in Nat \ {0}
      /\ WinSize + setup.gap <= Half
  BY Space DEF WinSize
<1>2. Numbers \subseteq Int
  BY SnAssumption DEF Numbers
<1>3. SeqNos \subseteq Int
  BY Space DEF SeqNos
<1> QED BY <1>1, <1>2, <1>3

(* Frames are numbers.                                                     *)
LEMMA SeqOfInts ==
    ASSUME NEW S \in SUBSET Int, NEW l \in Seq(S)
    PROVE  l \in Seq(Int)
<1>1. Len(l) \in Nat /\ l \in [1..Len(l) -> S]
  OBVIOUS
<1>2. l \in [1..Len(l) -> Int]
  BY <1>1
<1> QED BY <1>1, <1>2

(* An empty list is in every window.                                       *)
LEMMA EmptyWindow ==
    ASSUME NEW ind, NEW w
    PROVE  InWindow(ind, <<>>, w)
  BY DEF InWindow, Between, Sorted

(* An empty list has no frames.                                            *)
LEMMA NoneRepeated == Repeated(<<>>) = {} /\ ToSet(<<>>) = {}
  BY DEF Repeated, ToSet

(* ListInWindow from and to InWindow.                                      *)
LEMMA WindowOf ==
    ASSUME RxInv, enable, ind_sn # NoSn, dpc = "idle"
    PROVE  InWindow(ind_sn, list, WinSize)
<1>1. setup \in Setups /\ ind_sn \in SeqNos /\ list \in Seq(Numbers)
  BY DEF RxInv, TypeOK, SeqNos
<1>2. /\ \A i \in DOMAIN list : (Sn(list[i]) - ind_sn) % SnMod \in 1 .. WinSize - 1
      /\ \A i, j \in DOMAIN list :
           i < j => (Sn(list[i]) - ind_sn) % SnMod < (Sn(list[j]) - ind_sn) % SnMod
  BY DEF RxInv, ListInWindow, Ahead
<1>3. Half # 0 /\ WinSize \in Nat /\ WinSize <= Half /\ list \in Seq(Int)
  BY <1>1, SetupIs
<1> QED BY <1>1, <1>2, <1>3, WindowIs

(* The same after a step.                                                  *)
LEMMA WindowOfNext ==
    ASSUME NEW w \in Nat, w <= Half, Half # 0, w = WinSize', ind_sn' \in SeqNos, list' \in Seq(Int),
           InWindow(ind_sn', list', w)
    PROVE  ListInWindow'
<1>1. PICK ind \in SeqNos : ind = ind_sn'
  OBVIOUS
<1>2. PICK l \in Seq(Int) : l = list'
  OBVIOUS
<1>3. /\ \A i \in DOMAIN l : (Sn(l[i]) - ind) % SnMod \in 1 .. w - 1
      /\ \A i, j \in DOMAIN l :
           i < j => (Sn(l[i]) - ind) % SnMod < (Sn(l[j]) - ind) % SnMod
  BY <1>1, <1>2, WindowIs
<1> QED BY <1>1, <1>2, <1>3 DEF ListInWindow, Ahead

(* The step that puts a frame on the list keeps the invariant.             *)
LEMMA EnqueueKeeps ==
    ASSUME RxInv, RxEnqueue, setup' = setup
    PROVE  RxInv'
<1> DEFINE ind == IF ind_sn = NoSn THEN Sn(hand) ELSE ind_sn
           new == NeedCheck(ind, Sn(hand))
<1>1. /\ TypeOK /\ NothingLost /\ TimerCovers /\ ListOnlyEnabled /\ FramesCounted
      /\ setup \in Setups /\ list \in Seq(Numbers) /\ hand \in Numbers /\ out \in Seq(Numbers)
  BY DEF RxInv, TypeOK
<1>2. /\ Half \in Nat /\ Half > 1 /\ Half # 0 /\ WinSize \in Nat \ {0} /\ WinSize < Half
      /\ SeqNos \subseteq Int /\ Numbers \subseteq Int /\ list \in Seq(Int) /\ hand \in Int
  BY <1>1, SetupIs
<1>3. ind \in SeqNos
  <2>1. Sn(hand) \in SeqNos
    BY <1>2, SnType
  <2>2. ind_sn \in SeqNos \cup {NoSn}
    BY <1>1 DEF TypeOK, SeqNos
  <2> QED BY <2>1, <2>2
<1>4. PICK a \in SeqNos : a = ind
  BY <1>3
<1>5. new = Checked(a, Sn(hand), WinSize)
  BY <1>4 DEF NeedCheck, WindowEnd, Checked
<1>6. new \in SeqNos
  <2>1. PICK w \in Int : w = WinSize
    BY <1>2
  <2>2. Sn(hand) \in Int /\ a \in Int
    BY <1>2, SnType
  <2>3. Sn(hand) - (w - 1) \in Int /\ a + 1 \in Int
    BY <2>1, <2>2
  <2>4. Sn(Sn(hand) - (w - 1)) \in SeqNos /\ NextSn(a) \in SeqNos
    BY <1>2, <2>3, SnType DEF NextSn
  <2> QED BY <1>4, <1>5, <2>1, <2>4 DEF Checked
<1>7. PICK b \in SeqNos : b = new
  BY <1>6
<1>8. /\ rpc = "process" /\ enable /\ ~SnLess(Sn(hand), a) /\ rpc' = "idle"
      /\ UNCHANGED <<sent, air, got, dups, usb, enable, work, wpc, hand, present, dpc, dangling, fault>>
      /\ WinSize' = WinSize
  BY <1>4 DEF RxEnqueue, JudgedLate, envVars, staVars, WinSize
<1>9. ASSUME dpc = "idle" PROVE InWindow(a, list, WinSize)
  <2>1. CASE ind_sn = NoSn
    <3>1. list = <<>>
      BY <1>1, <1>9, <2>1 DEF ListOnlyEnabled
    <3> QED BY <3>1, EmptyWindow
  <2>2. CASE ind_sn # NoSn
    BY <1>4, <1>8, <1>9, <2>2, WindowOf
  <2> QED BY <2>1, <2>2
<1>10. ASSUME dpc = "idle"
       PROVE  /\ IsDuplicate(list, hand) => b = a
              /\ ~IsDuplicate(list, hand) => Fits(b, Enqueue(list, hand), WinSize)
  <2>1. InWindow(a, list, WinSize)
    BY <1>9, <1>10
  <2>2. b = Checked(a, Sn(hand), WinSize)
    BY <1>5, <1>7
  <2> HIDE DEF ind, new
  <2> QED BY <1>2, <1>8, <2>1, <2>2, AcceptedFits
<1> HIDE DEF ind
<1>11. NoSn \notin SeqNos
  BY DEF NoSn, SeqNos
<1>12. CASE IsDuplicate(list, hand)
  <2>1. ind_sn' = b /\ dropped' = dropped \cup {hand} /\ UNCHANGED <<list, out, up, timer>>
    BY <1>7, <1>12 DEF RxEnqueue, ind
  <2>2. TypeOK'
    BY <1>1, <1>8, <2>1 DEF TypeOK, SeqNos
  <2>3. ListInWindow'
    <3>1. CASE dpc = "idle"
      <4>1. InWindow(b, list, WinSize)
        BY <1>9, <1>10, <1>12, <3>1
      <4>2. PICK w \in Nat : w = WinSize' /\ w <= Half /\ w = WinSize
        BY <1>2, <1>8
      <4> QED BY <1>2, <2>1, <4>1, <4>2, WindowOfNext
    <3>2. CASE dpc # "idle"
      BY <1>8, <3>2 DEF ListInWindow
    <3> QED BY <3>1, <3>2
  <2>4. NothingLost'
    BY <1>1, <1>8, <2>1 DEF NothingLost
  <2>5. TimerCovers'
    BY <1>1, <1>8, <2>1 DEF TimerCovers
  <2>6. ListOnlyEnabled'
    BY <1>1, <1>8, <1>11, <2>1 DEF ListOnlyEnabled
  <2>7. FramesCounted'
    BY <1>1, <1>8, <2>1 DEF FramesCounted
  <2> QED BY <2>2, <2>3, <2>4, <2>5, <2>6, <2>7 DEF RxInv
<1>13. CASE ~IsDuplicate(list, hand)
  <2>1. PICK m \in Seq(Numbers) : /\ m = Enqueue(list, hand) /\ ToSet(m) = ToSet(list) \cup {hand}
                                  /\ Repeated(m) \subseteq Repeated(list) \cup (ToSet(list) \cap {hand})
    BY <1>1, EnqueueIs, EnqueueSet
  <2>2. Indicate(b, m) /\ RestartTimer(Process(b, m).gap) /\ UNCHANGED dropped
    BY <1>7, <1>13, <2>1 DEF RxEnqueue, ind
  <2>3. /\ ind_sn' = Process(b, m).ind /\ ind_sn' \in SeqNos
        /\ list' = Rest(b, m) /\ list' \in Seq(Numbers) /\ out' \in Seq(Numbers)
    BY <1>1, <1>2, <2>2, IndicateIs
  <2>4. PICK H \in SUBSET ToSet(m) :
                /\ up' = up \cup H /\ ToSet(m) = H \cup ToSet(list')
                /\ H \cap ToSet(list') \subseteq Repeated(m)
                /\ Repeated(list') \subseteq Repeated(m)
    BY <1>1, <1>2, <2>2, IndicateIs
  <2>5. ToSet(list) \subseteq Numbers /\ ToSet(list') \subseteq Numbers /\ Repeated(m) \subseteq dups
    <3>1. ToSet(list) \subseteq Numbers /\ ToSet(list') \subseteq Numbers
      BY <1>1, <2>3 DEF ToSet
    <3>2. ToSet(list) \cap {hand} \subseteq dups
      BY <1>1, <1>8 DEF NothingLost
    <3>3. Repeated(list) \subseteq dups
      BY <1>1 DEF FramesCounted
    <3> QED BY <2>1, <3>1, <3>2, <3>3
  <2>12. ASSUME dpc = "idle"
         PROVE  InWindow(ind_sn', list', WinSize) /\ (~Process(b, m).gap => list' = <<>>)
    <3>1. Fits(b, m, WinSize) /\ m \in Seq(Int)
      BY <1>2, <1>10, <1>13, <2>1, <2>12, SeqOfInts
    <3> QED BY <1>2, <2>3, <3>1, RestFits
  <2>6. TypeOK'
    <3>1. up' \subseteq Numbers /\ timer' \in {"off", "armed"}
      BY <1>1, <2>1, <2>2, <2>4, <2>5 DEF TypeOK, RestartTimer
    <3> QED BY <1>1, <1>8, <2>2, <2>3, <3>1 DEF TypeOK, SeqNos
  <2>7. ListInWindow'
    <3>1. CASE dpc = "idle"
      <4>1. InWindow(ind_sn', list', WinSize)
        BY <2>12, <3>1
      <4>2. PICK w \in Nat : w = WinSize' /\ w <= Half /\ w = WinSize
        BY <1>2, <1>8
      <4>3. list' \in Seq(Int)
        BY <1>2, <2>3, SeqOfInts
      <4> QED BY <1>2, <2>3, <4>1, <4>2, <4>3, WindowOfNext
    <3>2. CASE dpc # "idle"
      BY <1>8, <3>2 DEF ListInWindow
    <3> QED BY <3>1, <3>2
  <2>8. NothingLost'
    <3>1. /\ got = ToSet(list) \cup {hand} \cup up \cup dropped
          /\ ToSet(list) \cap (up \cup dropped \cup {hand}) \subseteq dups
          /\ {hand} \cap (up \cup dropped) \subseteq dups
          /\ up \cap dropped \subseteq dups
      BY <1>1, <1>8 DEF NothingLost
    <3>2. /\ got = ToSet(list') \cup up' \cup dropped
          /\ ToSet(list') \cap (up' \cup dropped) \subseteq dups
          /\ up' \cap dropped \subseteq dups
      BY <2>1, <2>4, <2>5, <3>1
    <3> QED BY <1>8, <2>2, <3>2 DEF NothingLost
  <2>9. TimerCovers'
    <3>1. CASE dpc = "idle" /\ ~Process(b, m).gap
      <4>1. list' = <<>>
        BY <2>12, <3>1
      <4> QED BY <4>1 DEF TimerCovers
    <3>2. CASE Process(b, m).gap
      BY <2>2, <3>2 DEF RestartTimer, TimerCovers
    <3>3. CASE dpc # "idle"
      BY <1>8, <3>3 DEF TimerCovers
    <3> QED BY <3>1, <3>2, <3>3
  <2>10. ListOnlyEnabled'
    BY <1>1, <1>8, <1>11, <2>3 DEF ListOnlyEnabled
  <2>11. FramesCounted'
    BY <1>1, <1>8, <2>4, <2>5 DEF FramesCounted
  <2> QED BY <2>6, <2>7, <2>8, <2>9, <2>10, <2>11 DEF RxInv
<1> QED BY <1>12, <1>13

(* So does the work item that gives a gap up.                              *)
LEMMA WorkRunKeeps ==
    ASSUME RxInv, WorkRun, setup' = setup
    PROVE  RxInv'
<1>1. /\ TypeOK /\ NothingLost /\ TimerCovers /\ ListOnlyEnabled /\ FramesCounted
      /\ setup \in Setups /\ list \in Seq(Numbers) /\ out \in Seq(Numbers)
  BY DEF RxInv, TypeOK
<1>2. /\ Half \in Nat /\ Half > 1 /\ Half # 0 /\ WinSize \in Nat \ {0} /\ WinSize < Half
      /\ SeqNos \subseteq Int /\ Numbers \subseteq Int /\ list \in Seq(Int)
  BY <1>1, SetupIs
<1>3. /\ wpc = "run" /\ wpc' = "idle" /\ WinSize' = WinSize
      /\ UNCHANGED <<sent, air, got, dups, usb, enable, work, rpc, hand, present, dpc, dangling,
                     dropped, fault>>
  BY DEF WorkRun, envVars, staVars, rxVars, WinSize
<1>4. NoSn \notin SeqNos
  BY DEF NoSn, SeqNos
<1>5. CASE list = <<>>
  <2>1. UNCHANGED <<ind_sn, list, out, up, timer>>
    BY <1>5 DEF WorkRun
  <2>2. TypeOK'
    BY <1>1, <1>3, <2>1 DEF TypeOK
  <2>3. ListInWindow'
    BY <1>3, <1>5, <2>1 DEF ListInWindow
  <2>4. NothingLost'
    BY <1>1, <1>3, <2>1 DEF NothingLost
  <2>5. TimerCovers' /\ ListOnlyEnabled' /\ FramesCounted'
    BY <1>1, <1>3, <1>5, <2>1 DEF TimerCovers, ListOnlyEnabled, FramesCounted
  <2> QED BY <2>2, <2>3, <2>4, <2>5 DEF RxInv
<1>6. CASE list # <<>>
  <2>1. PICK b \in SeqNos : b = Sn(Head(list))
    <3>1. Head(list) \in Int
      BY <1>2, <1>6
    <3> QED BY <1>2, <3>1, SnType
  <2>2. Indicate(b, list) /\ Rearm(Process(b, list).gap)
    BY <1>6, <2>1 DEF WorkRun
  <2>3. /\ ind_sn' = Process(b, list).ind /\ ind_sn' \in SeqNos
        /\ list' = Rest(b, list) /\ list' \in Seq(Numbers) /\ out' \in Seq(Numbers)
    BY <1>1, <1>2, <2>2, IndicateIs
  <2>4. PICK H \in SUBSET ToSet(list) :
                /\ up' = up \cup H /\ ToSet(list) = H \cup ToSet(list')
                /\ H \cap ToSet(list') \subseteq Repeated(list)
                /\ Repeated(list') \subseteq Repeated(list)
    BY <1>1, <1>2, <2>2, IndicateIs
  <2>5. ToSet(list) \subseteq Numbers /\ Repeated(list) \subseteq dups
    BY <1>1 DEF ToSet, FramesCounted
  <2>6. ASSUME dpc = "idle"
        PROVE  /\ InWindow(ind_sn', list', WinSize)
               /\ ~Process(b, list).gap => list' = <<>>
    <3>1. enable /\ ind_sn # NoSn
      BY <1>1, <1>6, <2>6 DEF ListOnlyEnabled
    <3>2. InWindow(ind_sn, list, WinSize)
      BY <2>6, <3>1, WindowOf
    <3>3. ind_sn \in SeqNos
      BY <1>1, <3>1 DEF TypeOK, SeqNos
    <3>4. Fits(b, list, WinSize)
      BY <1>2, <1>6, <2>1, <3>2, <3>3, GivenUpFits
    <3> QED BY <1>2, <2>3, <3>4, RestFits
  <2>7. TypeOK'
    <3>1. up' \subseteq Numbers /\ timer' \in {"off", "armed", "missed"}
      BY <1>1, <2>2, <2>4, <2>5 DEF TypeOK, Rearm
    <3> QED BY <1>1, <1>3, <2>3, <3>1 DEF TypeOK, SeqNos
  <2>8. ListInWindow'
    <3>1. CASE dpc = "idle"
      <4>1. InWindow(ind_sn', list', WinSize)
        BY <2>6, <3>1
      <4>2. PICK w \in Nat : w = WinSize' /\ w <= Half /\ w = WinSize
        BY <1>2, <1>3
      <4>3. list' \in Seq(Int)
        BY <1>2, <2>3, SeqOfInts
      <4> QED BY <1>2, <2>3, <4>1, <4>2, <4>3, WindowOfNext
    <3>2. CASE dpc # "idle"
      BY <1>3, <3>2 DEF ListInWindow
    <3> QED BY <3>1, <3>2
  <2>9. NothingLost'
    <3>1. PICK I : I = IF rpc = "idle" THEN {} ELSE {hand}
      OBVIOUS
    <3>2. /\ got = ToSet(list) \cup I \cup up \cup dropped
          /\ ToSet(list) \cap (up \cup dropped \cup I) \subseteq dups
          /\ I \cap (up \cup dropped) \subseteq dups
          /\ up \cap dropped \subseteq dups
      BY <1>1, <3>1 DEF NothingLost
    <3>3. /\ got = ToSet(list') \cup I \cup up' \cup dropped
          /\ ToSet(list') \cap (up' \cup dropped \cup I) \subseteq dups
          /\ I \cap (up' \cup dropped) \subseteq dups
          /\ up' \cap dropped \subseteq dups
      BY <2>4, <2>5, <3>2
    <3> QED BY <1>3, <3>1, <3>3 DEF NothingLost
  <2>10. TimerCovers'
    <3>1. CASE dpc = "idle" /\ ~Process(b, list).gap
      <4>1. list' = <<>>
        BY <2>6, <3>1
      <4> QED BY <4>1 DEF TimerCovers
    <3>2. CASE Process(b, list).gap
      BY <2>2, <3>2 DEF Rearm, TimerCovers
    <3>3. CASE dpc # "idle"
      BY <1>3, <3>3 DEF TimerCovers
    <3> QED BY <3>1, <3>2, <3>3
  <2>11. ListOnlyEnabled'
    <3>1. CASE dpc = "idle"
      <4>1. enable
        BY <1>1, <1>6, <3>1 DEF ListOnlyEnabled
      <4> QED BY <1>1, <1>3, <1>4, <2>3, <4>1 DEF ListOnlyEnabled
    <3>2. CASE dpc # "idle"
      BY <1>1, <1>3, <3>2 DEF ListOnlyEnabled
    <3> QED BY <3>1, <3>2
  <2>12. FramesCounted'
    BY <1>1, <1>3, <2>4, <2>5 DEF FramesCounted
  <2> QED BY <2>7, <2>8, <2>9, <2>10, <2>11, <2>12 DEF RxInv
<1> QED BY <1>5, <1>6

(* So does every other step of the threads and of the environment.         *)
LEMMA NextKeeps ==
    ASSUME RxInv, Next
    PROVE  RxInv'
<1>1. /\ TypeOK /\ ListInWindow /\ NothingLost /\ TimerCovers /\ ListOnlyEnabled /\ FramesCounted
      /\ setup' = setup /\ setup \in Setups
  BY DEF RxInv, TypeOK, Next
<1>2. First \in Nat /\ MaxFrames \in Nat \ {0}
  BY SnAssumption
<1>3. CASE Send
  <2>1. TypeOK'
    <3>1. sent \in First .. First + MaxFrames /\ sent < First + MaxFrames /\ sent' = sent + 1
      BY <1>1, <1>3 DEF Send, TypeOK
    <3>2. sent' \in First .. First + MaxFrames /\ sent \in Numbers
      BY <1>2, <3>1 DEF Numbers
    <3>3. air' \subseteq air \cup {sent}
      BY <1>3 DEF Send
    <3>4. air' \subseteq Numbers
      BY <1>1, <3>2, <3>3 DEF TypeOK
    <3>5. UNCHANGED <<setup, got, dups, usb, enable, ind_sn, list, timer, work, wpc, rpc, hand,
                      present, dpc, dangling, out, up, dropped, fault>>
      BY <1>1, <1>3 DEF Send, envVars, ctrlVars, timeVars, rxVars, staVars, indVars
    <3> QED BY <1>1, <3>2, <3>4, <3>5 DEF TypeOK
  <2>2. ListInWindow'
    BY <1>1, <1>2, <1>3 DEF ListInWindow, Ahead, WinSize, Send, envVars, ctrlVars, timeVars, rxVars, staVars, indVars
  <2>3. NothingLost'
    BY <1>1, <1>2, <1>3 DEF NothingLost, Send, envVars, ctrlVars, timeVars, rxVars, staVars, indVars
  <2>4. TimerCovers'
    BY <1>1, <1>2, <1>3 DEF TimerCovers, TypeOK, Send, envVars, ctrlVars, timeVars, rxVars, staVars, indVars
  <2>5. ListOnlyEnabled'
    BY <1>1, <1>2, <1>3 DEF ListOnlyEnabled, TypeOK, Send, envVars, ctrlVars, timeVars, rxVars, staVars, indVars
  <2>6. FramesCounted'
    <3>1. sent \in Int /\ sent' = sent + 1
      BY <1>1, <1>2, <1>3 DEF Send, TypeOK
    <3>2. First .. sent - 1 \subseteq First .. sent' - 1 /\ sent \notin First .. sent - 1
      BY <1>2, <3>1
    <3>3. sent \in First .. sent' - 1
      BY <1>1, <1>2, <3>1 DEF TypeOK
    <3>4. air' \subseteq air \cup {sent} /\ UNCHANGED <<got, dups, list>>
      BY <1>3 DEF Send, ctrlVars
    <3> QED BY <1>1, <3>2, <3>3, <3>4 DEF FramesCounted
  <2> QED BY <2>1, <2>2, <2>3, <2>4, <2>5, <2>6 DEF RxInv
<1>4. CASE RxLate
  <2>1. TypeOK'
    <3>1. ind_sn' \in 0 .. SnMod - 1 \cup {NoSn}
      <4>1. Sn(hand) \in SeqNos
        BY <1>1, SetupIs, SnType DEF TypeOK
      <4> QED BY <1>1, <1>4, <4>1 DEF RxLate, TypeOK, SeqNos
    <3> QED BY <1>1, <1>4, <3>1 DEF TypeOK, RxLate, envVars, ctrlVars, timeVars, rxVars, staVars, indVars
  <2>2. ListInWindow'
    <3>1. ind_sn # NoSn
      <4>1. PICK x \in SeqNos : x = Sn(hand)
        BY <1>1, SetupIs, SnType DEF TypeOK
      <4>2. ~SnLess(x, x)
        BY <1>1, SetupIs, LessOff, OffSame
      <4> QED BY <1>4, <4>1, <4>2 DEF RxLate, JudgedLate
    <3>2. UNCHANGED <<ind_sn, list, enable, dpc>>
      BY <1>4, <3>1 DEF RxLate, staVars
    <3> QED BY <1>1, <3>2 DEF ListInWindow, Ahead, WinSize
  <2>3. NothingLost'
    BY <1>1, <1>2, <1>4 DEF NothingLost, JudgedLate, RxLate, envVars, ctrlVars, timeVars, rxVars, staVars, indVars
  <2>4. TimerCovers'
    BY <1>1, <1>2, <1>4 DEF TimerCovers, TypeOK, JudgedLate, RxLate, envVars, ctrlVars, timeVars, rxVars, staVars, indVars
  <2>5. ListOnlyEnabled'
    BY <1>1, <1>2, <1>4 DEF ListOnlyEnabled, TypeOK, JudgedLate, RxLate, envVars, ctrlVars, timeVars, rxVars, staVars, indVars
  <2>6. FramesCounted'
    BY <1>1, <1>4 DEF FramesCounted, JudgedLate, RxLate, envVars, ctrlVars, timeVars, rxVars, staVars, indVars
  <2> QED BY <2>1, <2>2, <2>3, <2>4, <2>5, <2>6 DEF RxInv
<1>5. CASE RxDisabled
  <2>1. TypeOK'
    <3>1. ind_sn' \in 0 .. SnMod - 1
      <4>1. Sn(hand) \in Int
        BY <1>1, SetupIs, SnType DEF TypeOK
      <4>2. Sn(hand) + 1 \in Int
        BY <4>1
      <4> QED BY <1>1, <1>5, <4>2, SetupIs, SnType DEF RxDisabled, NextSn, SeqNos
    <3> QED BY <1>1, <1>5, <3>1 DEF TypeOK, RxDisabled, envVars, ctrlVars, timeVars, rxVars, staVars, indVars
  <2>2. ListInWindow'
    BY <1>1, <1>2, <1>5 DEF ListInWindow, Ahead, WinSize, RxDisabled, envVars, ctrlVars, timeVars, rxVars, staVars, indVars
  <2>3. NothingLost'
    BY <1>1, <1>2, <1>5 DEF NothingLost, RxDisabled, envVars, ctrlVars, timeVars, rxVars, staVars, indVars
  <2>4. TimerCovers'
    BY <1>1, <1>2, <1>5 DEF TimerCovers, TypeOK, RxDisabled, envVars, ctrlVars, timeVars, rxVars, staVars, indVars
  <2>5. ListOnlyEnabled'
    BY <1>1, <1>2, <1>5 DEF ListOnlyEnabled, TypeOK, RxDisabled, envVars, ctrlVars, timeVars, rxVars, staVars, indVars
  <2>6. FramesCounted'
    BY <1>1, <1>5 DEF FramesCounted, RxDisabled, envVars, ctrlVars, timeVars, rxVars, staVars, indVars
  <2> QED BY <2>1, <2>2, <2>3, <2>4, <2>5, <2>6 DEF RxInv
<1>6. CASE RxFlush
  <2>1. TypeOK'
    <3>1. list \in Seq(Numbers) /\ out \in Seq(Numbers)
      BY <1>1 DEF TypeOK
    <3>2. ToSet(list) \subseteq Numbers /\ out \o list \in Seq(Numbers) /\ <<>> \in Seq(Numbers)
      BY <3>1 DEF ToSet
    <3> QED BY <1>1, <1>6, <3>2 DEF TypeOK, RxFlush, Flushed, envVars, ctrlVars, timeVars, rxVars, staVars, indVars
  <2>2. ListInWindow'
    BY <1>1, <1>2, <1>6 DEF ListInWindow, Ahead, WinSize, Flushed, RxFlush, envVars, ctrlVars, timeVars, rxVars, staVars, indVars
  <2>3. NothingLost'
    BY <1>1, <1>2, <1>6, NoneRepeated DEF NothingLost, Flushed, RxFlush, envVars, ctrlVars, timeVars, rxVars, staVars, indVars
  <2>4. TimerCovers'
    BY <1>1, <1>2, <1>6 DEF TimerCovers, TypeOK, Flushed, RxFlush, envVars, ctrlVars, timeVars, rxVars, staVars, indVars
  <2>5. ListOnlyEnabled'
    BY <1>1, <1>2, <1>6 DEF ListOnlyEnabled, TypeOK, Flushed, RxFlush, envVars, ctrlVars, timeVars, rxVars, staVars, indVars
  <2>6. FramesCounted'
    BY <1>1, <1>6, NoneRepeated DEF FramesCounted, Flushed, RxFlush, envVars, ctrlVars, timeVars, rxVars, staVars, indVars
  <2> QED BY <2>1, <2>2, <2>3, <2>4, <2>5, <2>6 DEF RxInv
<1>7. CASE RxFlushCancel
  <2>1. TypeOK'
    BY <1>1, <1>7 DEF TypeOK, RxFlushCancel, envVars, ctrlVars, timeVars, rxVars, staVars, indVars
  <2>2. ListInWindow'
    BY <1>1, <1>2, <1>7 DEF ListInWindow, Ahead, WinSize, RxFlushCancel, envVars, ctrlVars, timeVars, rxVars, staVars, indVars
  <2>3. NothingLost'
    BY <1>1, <1>2, <1>7 DEF NothingLost, RxFlushCancel, envVars, ctrlVars, timeVars, rxVars, staVars, indVars
  <2>4. TimerCovers'
    BY <1>1, <1>7 DEF TimerCovers, ListOnlyEnabled, RxFlushCancel, envVars, ctrlVars, timeVars, rxVars, staVars, indVars
  <2>5. ListOnlyEnabled'
    BY <1>1, <1>2, <1>7 DEF ListOnlyEnabled, TypeOK, RxFlushCancel, envVars, ctrlVars, timeVars, rxVars, staVars, indVars
  <2>6. FramesCounted'
    BY <1>1, <1>7 DEF FramesCounted, RxFlushCancel, envVars, ctrlVars, timeVars, rxVars, staVars, indVars
  <2> QED BY <2>1, <2>2, <2>3, <2>4, <2>5, <2>6 DEF RxInv
<1>8. CASE RxFlushEnd
  <2>1. TypeOK'
    BY <1>1, <1>8 DEF TypeOK, RxFlushEnd, envVars, ctrlVars, timeVars, rxVars, staVars, indVars
  <2>2. ListInWindow'
    BY <1>1, <1>2, <1>8 DEF ListInWindow, Ahead, WinSize, RxFlushEnd, envVars, ctrlVars, timeVars, rxVars, staVars, indVars
  <2>3. NothingLost'
    BY <1>1, <1>2, <1>8 DEF NothingLost, RxFlushEnd, envVars, ctrlVars, timeVars, rxVars, staVars, indVars
  <2>4. TimerCovers'
    BY <1>1, <1>8 DEF TimerCovers, ListOnlyEnabled, RxFlushEnd, envVars, ctrlVars, timeVars, rxVars, staVars, indVars
  <2>5. ListOnlyEnabled'
    BY <1>1, <1>2, <1>8 DEF ListOnlyEnabled, TypeOK, RxFlushEnd, envVars, ctrlVars, timeVars, rxVars, staVars, indVars
  <2>6. FramesCounted'
    BY <1>1, <1>8 DEF FramesCounted, RxFlushEnd, envVars, ctrlVars, timeVars, rxVars, staVars, indVars
  <2> QED BY <2>1, <2>2, <2>3, <2>4, <2>5, <2>6 DEF RxInv
<1>9. CASE TimerExpires
  <2>1. TypeOK'
    <3>1. timer' \in {"off", "armed", "missed"} /\ wpc' \in {"idle", "run"}
      BY <1>1, <1>9 DEF TypeOK, TimerExpires
    <3>2. work' \in BOOLEAN
      BY <1>1, <1>9 DEF TypeOK, TimerExpires
    <3>3. UNCHANGED <<envVars, ctrlVars, wpc, rxVars, staVars, indVars, fault>>
      BY <1>9 DEF TimerExpires
    <3> QED BY <1>1, <3>1, <3>2, <3>3 DEF TypeOK, envVars, ctrlVars, rxVars, staVars, indVars
  <2>2. ListInWindow'
    BY <1>1, <1>2, <1>9 DEF ListInWindow, Ahead, WinSize, TimerExpires, envVars, ctrlVars, timeVars, rxVars, staVars, indVars
  <2>3. NothingLost'
    BY <1>1, <1>2, <1>9 DEF NothingLost, TimerExpires, envVars, ctrlVars, timeVars, rxVars, staVars, indVars
  <2>4. TimerCovers'
    BY <1>1, <1>2, <1>9 DEF TimerCovers, TypeOK, TimerExpires, envVars, ctrlVars, timeVars, rxVars, staVars, indVars
  <2>5. ListOnlyEnabled'
    BY <1>1, <1>2, <1>9 DEF ListOnlyEnabled, TypeOK, TimerExpires, envVars, ctrlVars, timeVars, rxVars, staVars, indVars
  <2>6. FramesCounted'
    BY <1>1, <1>9 DEF FramesCounted, TimerExpires, envVars, ctrlVars, timeVars, rxVars, staVars, indVars
  <2> QED BY <2>1, <2>2, <2>3, <2>4, <2>5, <2>6 DEF RxInv
<1>10. CASE WorkStart
  <2>1. TypeOK'
    <3>1. timer' \in {"off", "armed", "missed"} /\ wpc' \in {"idle", "run"}
      BY <1>1, <1>10 DEF TypeOK, WorkStart
    <3>2. work' \in BOOLEAN
      BY <1>1, <1>10 DEF TypeOK, WorkStart
    <3>3. UNCHANGED <<envVars, ctrlVars, timer, rxVars, staVars, indVars, fault>>
      BY <1>10 DEF WorkStart
    <3> QED BY <1>1, <3>1, <3>2, <3>3 DEF TypeOK, envVars, ctrlVars, rxVars, staVars, indVars
  <2>2. ListInWindow'
    BY <1>1, <1>2, <1>10 DEF ListInWindow, Ahead, WinSize, WorkStart, envVars, ctrlVars, timeVars, rxVars, staVars, indVars
  <2>3. NothingLost'
    BY <1>1, <1>2, <1>10 DEF NothingLost, WorkStart, envVars, ctrlVars, timeVars, rxVars, staVars, indVars
  <2>4. TimerCovers'
    BY <1>1, <1>2, <1>10 DEF TimerCovers, TypeOK, WorkStart, envVars, ctrlVars, timeVars, rxVars, staVars, indVars
  <2>5. ListOnlyEnabled'
    BY <1>1, <1>2, <1>10 DEF ListOnlyEnabled, TypeOK, WorkStart, envVars, ctrlVars, timeVars, rxVars, staVars, indVars
  <2>6. FramesCounted'
    BY <1>1, <1>10 DEF FramesCounted, WorkStart, envVars, ctrlVars, timeVars, rxVars, staVars, indVars
  <2> QED BY <2>1, <2>2, <2>3, <2>4, <2>5, <2>6 DEF RxInv
<1>11. CASE DeinitTimer
  <2>1. TypeOK'
    BY <1>1, <1>11 DEF TypeOK, DeinitTimer, envVars, ctrlVars, timeVars, rxVars, staVars, indVars
  <2>2. ListInWindow'
    BY <1>1, <1>2, <1>11 DEF ListInWindow, Ahead, WinSize, DeinitTimer, envVars, ctrlVars, timeVars, rxVars, staVars, indVars
  <2>3. NothingLost'
    BY <1>1, <1>2, <1>11 DEF NothingLost, DeinitTimer, envVars, ctrlVars, timeVars, rxVars, staVars, indVars
  <2>4. TimerCovers'
    BY <1>1, <1>2, <1>11 DEF TimerCovers, TypeOK, DeinitTimer, envVars, ctrlVars, timeVars, rxVars, staVars, indVars
  <2>5. ListOnlyEnabled'
    BY <1>1, <1>2, <1>11 DEF ListOnlyEnabled, TypeOK, DeinitTimer, envVars, ctrlVars, timeVars, rxVars, staVars, indVars
  <2>6. FramesCounted'
    BY <1>1, <1>11 DEF FramesCounted, DeinitTimer, envVars, ctrlVars, timeVars, rxVars, staVars, indVars
  <2> QED BY <2>1, <2>2, <2>3, <2>4, <2>5, <2>6 DEF RxInv
<1>12. CASE DeinitCancel
  <2>1. TypeOK'
    BY <1>1, <1>12 DEF TypeOK, DeinitCancel, envVars, ctrlVars, timeVars, rxVars, staVars, indVars
  <2>2. ListInWindow'
    BY <1>1, <1>2, <1>12 DEF ListInWindow, Ahead, WinSize, DeinitCancel, envVars, ctrlVars, timeVars, rxVars, staVars, indVars
  <2>3. NothingLost'
    BY <1>1, <1>2, <1>12 DEF NothingLost, DeinitCancel, envVars, ctrlVars, timeVars, rxVars, staVars, indVars
  <2>4. TimerCovers'
    BY <1>1, <1>2, <1>12 DEF TimerCovers, TypeOK, DeinitCancel, envVars, ctrlVars, timeVars, rxVars, staVars, indVars
  <2>5. ListOnlyEnabled'
    BY <1>1, <1>2, <1>12 DEF ListOnlyEnabled, TypeOK, DeinitCancel, envVars, ctrlVars, timeVars, rxVars, staVars, indVars
  <2>6. FramesCounted'
    BY <1>1, <1>12 DEF FramesCounted, DeinitCancel, envVars, ctrlVars, timeVars, rxVars, staVars, indVars
  <2> QED BY <2>1, <2>2, <2>3, <2>4, <2>5, <2>6 DEF RxInv
<1>13. CASE DeinitDrop
  <2>1. TypeOK'
    <3>1. ToSet(list) \subseteq Numbers /\ <<>> \in Seq(Numbers)
      BY <1>1 DEF TypeOK, ToSet
    <3> QED BY <1>1, <1>13, <3>1 DEF TypeOK, DeinitDrop, envVars, ctrlVars, timeVars, rxVars, staVars, indVars
  <2>2. ListInWindow'
    BY <1>1, <1>2, <1>13 DEF ListInWindow, Ahead, WinSize, DeinitDrop, envVars, ctrlVars, timeVars, rxVars, staVars, indVars
  <2>3. NothingLost'
    BY <1>1, <1>2, <1>13, NoneRepeated DEF NothingLost, DeinitDrop, envVars, ctrlVars, timeVars, rxVars, staVars, indVars
  <2>4. TimerCovers'
    BY <1>1, <1>2, <1>13 DEF TimerCovers, TypeOK, DeinitDrop, envVars, ctrlVars, timeVars, rxVars, staVars, indVars
  <2>5. ListOnlyEnabled'
    BY <1>1, <1>2, <1>13 DEF ListOnlyEnabled, TypeOK, DeinitDrop, envVars, ctrlVars, timeVars, rxVars, staVars, indVars
  <2>6. FramesCounted'
    BY <1>1, <1>13, NoneRepeated DEF FramesCounted, DeinitDrop, envVars, ctrlVars, timeVars, rxVars, staVars, indVars
  <2> QED BY <2>1, <2>2, <2>3, <2>4, <2>5, <2>6 DEF RxInv
<1>14. CASE DeinitFree
  <2>1. TypeOK'
    <3>1. ToSet(list) \subseteq Numbers /\ <<>> \in Seq(Numbers)
      BY <1>1 DEF TypeOK, ToSet
    <3> QED BY <1>1, <1>14, <3>1 DEF TypeOK, DeinitFree, envVars, ctrlVars, timeVars, rxVars, staVars, indVars
  <2>2. ListInWindow'
    BY <1>1, <1>2, <1>14 DEF ListInWindow, Ahead, WinSize, DeinitFree, envVars, ctrlVars, timeVars, rxVars, staVars, indVars
  <2>3. NothingLost'
    BY <1>1, <1>2, <1>14, NoneRepeated DEF NothingLost, DeinitFree, envVars, ctrlVars, timeVars, rxVars, staVars, indVars
  <2>4. TimerCovers'
    BY <1>1, <1>2, <1>14 DEF TimerCovers, TypeOK, DeinitFree, envVars, ctrlVars, timeVars, rxVars, staVars, indVars
  <2>5. ListOnlyEnabled'
    BY <1>1, <1>2, <1>14 DEF ListOnlyEnabled, TypeOK, DeinitFree, envVars, ctrlVars, timeVars, rxVars, staVars, indVars
  <2>6. FramesCounted'
    BY <1>1, <1>14, NoneRepeated DEF FramesCounted, DeinitFree, envVars, ctrlVars, timeVars, rxVars, staVars, indVars
  <2> QED BY <2>1, <2>2, <2>3, <2>4, <2>5, <2>6 DEF RxInv
<1>15. CASE UseAfterFree
  <2>1. TypeOK'
    BY <1>1, <1>15 DEF TypeOK, UseAfterFree, envVars, ctrlVars, timeVars, rxVars, staVars, indVars
  <2>2. ListInWindow'
    BY <1>1, <1>2, <1>15 DEF ListInWindow, Ahead, WinSize, UseAfterFree, envVars, ctrlVars, timeVars, rxVars, staVars, indVars
  <2>3. NothingLost'
    BY <1>1, <1>2, <1>15 DEF NothingLost, UseAfterFree, envVars, ctrlVars, timeVars, rxVars, staVars, indVars
  <2>4. TimerCovers'
    BY <1>1, <1>2, <1>15 DEF TimerCovers, TypeOK, UseAfterFree, envVars, ctrlVars, timeVars, rxVars, staVars, indVars
  <2>5. ListOnlyEnabled'
    BY <1>1, <1>2, <1>15 DEF ListOnlyEnabled, TypeOK, UseAfterFree, envVars, ctrlVars, timeVars, rxVars, staVars, indVars
  <2>6. FramesCounted'
    BY <1>1, <1>15 DEF FramesCounted, UseAfterFree, envVars, ctrlVars, timeVars, rxVars, staVars, indVars
  <2> QED BY <2>1, <2>2, <2>3, <2>4, <2>5, <2>6 DEF RxInv
<1>16. CASE BusStop
  <2>1. TypeOK'
    BY <1>1, <1>16 DEF TypeOK, BusStop, envVars, ctrlVars, timeVars, rxVars, staVars, indVars
  <2>2. ListInWindow'
    BY <1>1, <1>2, <1>16 DEF ListInWindow, Ahead, WinSize, BusStop, envVars, ctrlVars, timeVars, rxVars, staVars, indVars
  <2>3. NothingLost'
    BY <1>1, <1>2, <1>16 DEF NothingLost, BusStop, envVars, ctrlVars, timeVars, rxVars, staVars, indVars
  <2>4. TimerCovers'
    BY <1>1, <1>2, <1>16 DEF TimerCovers, TypeOK, BusStop, envVars, ctrlVars, timeVars, rxVars, staVars, indVars
  <2>5. ListOnlyEnabled'
    BY <1>1, <1>2, <1>16 DEF ListOnlyEnabled, TypeOK, BusStop, envVars, ctrlVars, timeVars, rxVars, staVars, indVars
  <2>6. FramesCounted'
    BY <1>1, <1>16 DEF FramesCounted, BusStop, envVars, ctrlVars, timeVars, rxVars, staVars, indVars
  <2> QED BY <2>1, <2>2, <2>3, <2>4, <2>5, <2>6 DEF RxInv
<1>17. CASE BusStart
  <2>1. TypeOK'
    BY <1>1, <1>17 DEF TypeOK, BusStart, envVars, ctrlVars, timeVars, rxVars, staVars, indVars
  <2>2. ListInWindow'
    BY <1>1, <1>2, <1>17 DEF ListInWindow, Ahead, WinSize, BusStart, envVars, ctrlVars, timeVars, rxVars, staVars, indVars
  <2>3. NothingLost'
    BY <1>1, <1>2, <1>17 DEF NothingLost, BusStart, envVars, ctrlVars, timeVars, rxVars, staVars, indVars
  <2>4. TimerCovers'
    BY <1>1, <1>2, <1>17 DEF TimerCovers, TypeOK, BusStart, envVars, ctrlVars, timeVars, rxVars, staVars, indVars
  <2>5. ListOnlyEnabled'
    BY <1>1, <1>2, <1>17 DEF ListOnlyEnabled, TypeOK, BusStart, envVars, ctrlVars, timeVars, rxVars, staVars, indVars
  <2>6. FramesCounted'
    BY <1>1, <1>17 DEF FramesCounted, BusStart, envVars, ctrlVars, timeVars, rxVars, staVars, indVars
  <2> QED BY <2>1, <2>2, <2>3, <2>4, <2>5, <2>6 DEF RxInv
<1>18. ASSUME NEW n \in air, RxBypass(n) PROVE RxInv'
  <2>1. TypeOK'
    BY <1>1, <1>18 DEF TypeOK, RxBypass, Receive, envVars, ctrlVars, timeVars, rxVars, staVars, indVars
  <2>2. ListInWindow'
    BY <1>1, <1>2, <1>18 DEF ListInWindow, Ahead, WinSize, RxBypass, Receive, envVars, ctrlVars, timeVars, rxVars, staVars, indVars
  <2>3. NothingLost'
    <3>1. PICK I : I = IF rpc' = "idle" THEN {} ELSE {hand'}
      OBVIOUS
    <3>2. /\ rpc = "idle" /\ list' = list /\ dropped' = dropped /\ got' = got \cup {n}
          /\ dups \subseteq dups' /\ (n \in got => n \in dups')
          /\ (I = {} /\ up' = up \cup {n}) \/ (I = {n} /\ up' = up)
      BY <1>1, <1>18, <3>1 DEF FramesCounted, RxBypass, Receive, envVars, ctrlVars, timeVars, rxVars, staVars, indVars
    <3>3. /\ got = ToSet(list) \cup up \cup dropped
          /\ ToSet(list) \cap (up \cup dropped) \subseteq dups /\ up \cap dropped \subseteq dups
      BY <1>1, <3>2 DEF NothingLost
    <3>4. /\ got' = ToSet(list) \cup I \cup up' \cup dropped
          /\ ToSet(list) \cap (up' \cup dropped \cup I) \subseteq dups'
          /\ I \cap (up' \cup dropped) \subseteq dups' /\ up' \cap dropped \subseteq dups'
      BY <3>2, <3>3
    <3> QED BY <3>1, <3>2, <3>4 DEF NothingLost
  <2>4. TimerCovers'
    BY <1>1, <1>2, <1>18 DEF TimerCovers, TypeOK, RxBypass, Receive, envVars, ctrlVars, timeVars, rxVars, staVars, indVars
  <2>5. ListOnlyEnabled'
    BY <1>1, <1>2, <1>18 DEF ListOnlyEnabled, TypeOK, RxBypass, Receive, envVars, ctrlVars, timeVars, rxVars, staVars, indVars
  <2>6. FramesCounted'
    BY <1>1, <1>18 DEF FramesCounted, RxBypass, Receive, envVars, ctrlVars, timeVars, rxVars, staVars, indVars
  <2> QED BY <2>1, <2>2, <2>3, <2>4, <2>5, <2>6 DEF RxInv
<1>19. ASSUME NEW n \in air, RxLookup(n) PROVE RxInv'
  <2>1. TypeOK'
    <3>1. ind_sn' \in 0 .. SnMod - 1 \cup {NoSn} /\ out' \in Seq(Numbers)
      BY <1>1, <1>19 DEF TypeOK, RxLookup
    <3>2. n \in Numbers
      BY <1>1 DEF TypeOK
    <3>3. air' \subseteq air /\ got' = got \cup {n} /\ dups' \subseteq dups \cup {n}
      BY <1>19 DEF RxLookup, Receive
    <3> QED BY <1>1, <1>19, <3>1, <3>2, <3>3 DEF TypeOK, RxLookup, Receive, envVars, ctrlVars, timeVars, rxVars, staVars, indVars
  <2>2. ListInWindow'
    BY <1>1, <1>2, <1>19 DEF ListInWindow, Ahead, WinSize, RxLookup, Receive, envVars, ctrlVars, timeVars, rxVars, staVars, indVars
  <2>3. NothingLost'
    <3>1. PICK I : I = IF rpc' = "idle" THEN {} ELSE {hand'}
      OBVIOUS
    <3>2. /\ rpc = "idle" /\ list' = list /\ dropped' = dropped /\ got' = got \cup {n}
          /\ dups \subseteq dups' /\ (n \in got => n \in dups')
          /\ (I = {} /\ up' = up \cup {n}) \/ (I = {n} /\ up' = up)
      BY <1>1, <1>19, <3>1 DEF FramesCounted, RxLookup, Receive, envVars, ctrlVars, timeVars, rxVars, staVars, indVars
    <3>3. /\ got = ToSet(list) \cup up \cup dropped
          /\ ToSet(list) \cap (up \cup dropped) \subseteq dups /\ up \cap dropped \subseteq dups
      BY <1>1, <3>2 DEF NothingLost
    <3>4. /\ got' = ToSet(list) \cup I \cup up' \cup dropped
          /\ ToSet(list) \cap (up' \cup dropped \cup I) \subseteq dups'
          /\ I \cap (up' \cup dropped) \subseteq dups' /\ up' \cap dropped \subseteq dups'
      BY <3>2, <3>3
    <3> QED BY <3>1, <3>2, <3>4 DEF NothingLost
  <2>4. TimerCovers'
    BY <1>1, <1>19 DEF TimerCovers, ListOnlyEnabled, RxLookup, Receive, envVars, ctrlVars, timeVars, rxVars, staVars, indVars
  <2>5. ListOnlyEnabled'
    BY <1>1, <1>2, <1>19 DEF ListOnlyEnabled, TypeOK, RxLookup, Receive, envVars, ctrlVars, timeVars, rxVars, staVars, indVars
  <2>6. FramesCounted'
    BY <1>1, <1>19 DEF FramesCounted, RxLookup, Receive, envVars, ctrlVars, timeVars, rxVars, staVars, indVars
  <2> QED BY <2>1, <2>2, <2>3, <2>4, <2>5, <2>6 DEF RxInv
<1>20. ASSUME NEW n \in air, RxFlushLookup(n) PROVE RxInv'
  <2>1. TypeOK'
    BY <1>1, <1>20 DEF TypeOK, RxFlushLookup, Receive, envVars, ctrlVars, timeVars, rxVars, staVars, indVars
  <2>2. ListInWindow'
    BY <1>1, <1>2, <1>20 DEF ListInWindow, Ahead, WinSize, RxFlushLookup, Receive, envVars, ctrlVars, timeVars, rxVars, staVars, indVars
  <2>3. NothingLost'
    <3>1. PICK I : I = IF rpc' = "idle" THEN {} ELSE {hand'}
      OBVIOUS
    <3>2. /\ rpc = "idle" /\ list' = list /\ dropped' = dropped /\ got' = got \cup {n}
          /\ dups \subseteq dups' /\ (n \in got => n \in dups')
          /\ (I = {} /\ up' = up \cup {n}) \/ (I = {n} /\ up' = up)
      BY <1>1, <1>20, <3>1 DEF FramesCounted, RxFlushLookup, Receive, envVars, ctrlVars, timeVars, rxVars, staVars, indVars
    <3>3. /\ got = ToSet(list) \cup up \cup dropped
          /\ ToSet(list) \cap (up \cup dropped) \subseteq dups /\ up \cap dropped \subseteq dups
      BY <1>1, <3>2 DEF NothingLost
    <3>4. /\ got' = ToSet(list) \cup I \cup up' \cup dropped
          /\ ToSet(list) \cap (up' \cup dropped \cup I) \subseteq dups'
          /\ I \cap (up' \cup dropped) \subseteq dups' /\ up' \cap dropped \subseteq dups'
      BY <3>2, <3>3
    <3> QED BY <3>1, <3>2, <3>4 DEF NothingLost
  <2>4. TimerCovers'
    BY <1>1, <1>2, <1>20 DEF TimerCovers, TypeOK, RxFlushLookup, Receive, envVars, ctrlVars, timeVars, rxVars, staVars, indVars
  <2>5. ListOnlyEnabled'
    BY <1>1, <1>2, <1>20 DEF ListOnlyEnabled, TypeOK, RxFlushLookup, Receive, envVars, ctrlVars, timeVars, rxVars, staVars, indVars
  <2>6. FramesCounted'
    BY <1>1, <1>20 DEF FramesCounted, RxFlushLookup, Receive, envVars, ctrlVars, timeVars, rxVars, staVars, indVars
  <2> QED BY <2>1, <2>2, <2>3, <2>4, <2>5, <2>6 DEF RxInv
<1>21. CASE RxEnqueue
  BY <1>1, <1>21, EnqueueKeeps
<1>22. CASE WorkRun
  BY <1>1, <1>22, WorkRunKeeps
<1> QED
  BY <1>3, <1>4, <1>5, <1>6, <1>7, <1>8, <1>9, <1>10, <1>11, <1>12, <1>13, <1>14, <1>15, <1>16, <1>17, <1>18, <1>19, <1>20, <1>21, <1>22
  DEF Next, RxStep, WorkStep, DeinitStep

(* The invariant of the reordering, for any window, lead, number of frames *)
(* and of sequence numbers, whatever the station, the timer and the bus do *)
(* meanwhile.                                                              *)
THEOREM SpecRxInv == Spec => []RxInv
<1>1. Init => RxInv
  <2> SUFFICES ASSUME Init PROVE RxInv
    OBVIOUS
  <2>1. First \in Nat /\ MaxFrames \in Nat \ {0}
    BY SnAssumption
  <2>2. First \in Numbers /\ First \in First .. First + MaxFrames
    BY <2>1 DEF Numbers
  <2>3. TypeOK
    <3>1. <<>> \in Seq(Numbers) /\ NoSn \in 0 .. SnMod - 1 \cup {NoSn}
      OBVIOUS
    <3> QED BY <2>2, <3>1 DEF Init, TypeOK
  <2> QED BY <2>1, <2>3, NoneRepeated
          DEF Init, RxInv, ListInWindow, NothingLost, TimerCovers, ListOnlyEnabled, FramesCounted
<1>2. RxInv /\ [Next]_vars => RxInv'
  <2>1. RxInv /\ Next => RxInv'
    BY NextKeeps
  <2>2. RxInv /\ UNCHANGED vars => RxInv'
    BY DEF RxInv, vars, envVars, ctrlVars, timeVars, rxVars, staVars, indVars, TypeOK, ListInWindow,
           Ahead, WinSize, NothingLost, TimerCovers, ListOnlyEnabled, FramesCounted
  <2> QED BY <2>1, <2>2
<1> QED BY <1>1, <1>2, PTL DEF Spec

(* The list is in order and in the window, and every frame received is on  *)
(* it, in hand, handed up or dropped on purpose (ListSound).               *)
THEOREM SpecListSound == MCSpec => []ListSound
<1>1. RxInv => ListSound
  BY DEF RxInv, ListSound
<1> QED BY <1>1, SpecRxInv, PTL DEF MCSpec

(* While frames wait the timer is armed or its work item on the way,       *)
(* unless it expired while the bus was down (TimerCovers).                 *)
THEOREM SpecTimerCovers == MCSpec => []TimerCovers
<1>1. RxInv => TimerCovers
  BY DEF RxInv
<1> QED BY <1>1, SpecRxInv, PTL DEF MCSpec

-----------------------------------------------------------------------------
(* Order: what sequence numbers stand for.                                 *)

(* Numbers closer than half of the sequence space are as far apart as      *)
(* their                                                                   *)
(* sequence numbers.                                                       *)
LEMMA OffNumbers ==
    ASSUME Half # 0, NEW m \in Int, NEW x \in Int, -Half <= x - m, x - m < Half
    PROVE  Off(Sn(m), Sn(x)) = x - m
<1>1. SnMod \in Nat \ {0} /\ SnMod = 2 * Half /\ Half \in Nat
  BY Space
<1>2. PICK p \in Int : m = SnMod * p + Sn(m)
  <2>1. m = SnMod * (m \div SnMod) + (m % SnMod) /\ m \div SnMod \in Int
    BY <1>1
  <2> QED BY <2>1 DEF Sn
<1>3. PICK q \in Int : x = SnMod * q + Sn(x)
  <2>1. x = SnMod * (x \div SnMod) + (x % SnMod) /\ x \div SnMod \in Int
    BY <1>1
  <2> QED BY <2>1 DEF Sn
<1>4. PICK a \in SeqNos, y \in SeqNos : a = Sn(m) /\ y = Sn(x)
  BY SnType
<1>5. PICK e \in Int : e = q - p
  BY <1>2, <1>3
<1>6. a \in Int /\ a >= 0 /\ a < SnMod /\ y \in Int /\ y >= 0 /\ y < SnMod
  BY <1>1 DEF SeqNos
<1>7. SnMod * e = SnMod * q - SnMod * p
  BY <1>1, <1>5
<1>8. PICK r \in Int, z \in Int : r = x - m /\ z = SnMod * e
  <2>1. x - m \in Int /\ SnMod * e \in Int
    BY <1>1
  <2> QED BY <2>1
<1>9. y - a = r - z
  <2>1. PICK u \in Int, v \in Int : u = SnMod * p /\ v = SnMod * q
    <3>1. SnMod * p \in Int /\ SnMod * q \in Int
      BY <1>1
    <3> QED BY <3>1
  <2> QED BY <1>2, <1>3, <1>4, <1>6, <1>7, <1>8, <2>1
<1>10. z = 0 \/ z = SnMod \/ z = -SnMod
  <2>1. z < 2 * SnMod /\ z > -2 * SnMod
    BY <1>1, <1>6, <1>8, <1>9
  <2>2. CASE e >= 2
    <3>1. SnMod * e >= SnMod * 2
      BY <1>1, <2>2
    <3> QED BY <1>1, <1>8, <2>1, <3>1
  <2>3. CASE e <= -2
    <3>1. SnMod * e <= SnMod * (-2)
      BY <1>1, <2>3
    <3> QED BY <1>1, <1>8, <2>1, <3>1
  <2>4. CASE e = 1 \/ e = 0 \/ e = -1
    BY <1>1, <1>8, <2>4
  <2> QED BY <2>2, <2>3, <2>4
<1>11. y - a = r \/ y - a = r + SnMod \/ y - a = r - SnMod
  BY <1>1, <1>6, <1>8, <1>9, <1>10
<1>12. Off(a, y) = r
  BY <1>8, <1>11, OffOnly
<1> QED BY <1>4, <1>8, <1>12

(* Numbers at the same offset are the same.                                *)
LEMMA OffInjective ==
    ASSUME Half # 0, NEW a \in SeqNos, NEW x \in SeqNos, NEW y \in SeqNos, Off(a, x) = Off(a, y)
    PROVE  x = y
<1>1. Half \in Nat /\ Off(a, x) \in Int /\ Off(a, y) \in Int
  BY Space, OffIs
<1>2. Off(a, y) - Off(a, x) < Half /\ Off(a, x) - Off(a, y) < Half
  BY <1>1
<1> QED BY <1>2, Compare

(* Where the loop is after k frames of a list that is in order.            *)
LoopPast(f, ind, l, k) ==
    /\ \A i \in 1..k : Off(ind, Sn(l[i])) # Off(ind, f[k].ind)
    /\ f[k].gap => \E i \in 1..k : Off(ind, Sn(l[i])) > Off(ind, f[k].ind)
    /\ \/ f[k].ind = ind
       \/ \E i \in 1..k : Off(ind, f[k].ind) = Off(ind, Sn(l[i])) + 1

(* The loop stops at the first frame that is missing.                      *)
LEMMA LoopPasses ==
    ASSUME Half > 1, NEW ind \in SeqNos, NEW l \in Seq(Int), NEW lo \in Int, NEW top \in Int,
           -1 <= top, top + 1 < Half, top + 1 - lo < Half, Between(ind, l, lo, top), Sorted(ind, l)
    PROVE  \A k \in 0..Len(l) : LoopPast(Loop(ind, l), ind, l, k)
<1>h. Half \in Nat /\ Half # 0 /\ Len(l) \in Nat
  BY Space
<1>0. PICK f : f = Loop(ind, l)
  OBVIOUS
<1>w. \A k \in 0..Len(l) : LoopAt(f, ind, l, top, k)
  BY <1>0, LoopWindow
<1> DEFINE F(i) == Off(ind, Sn(l[i]))
<1>f. \A i \in 1..Len(l) : F(i) \in Int
  BY <1>h, OffListed
<1>s. \A i, j \in 1..Len(l) : i < j => F(i) < F(j)
  BY DEF Sorted
<1> DEFINE T == {k \in Nat : LoopPast(f, ind, l, k)}
<1>1. 0 \in T
  <2>1. f[0] = Start(ind)
    BY <1>0, <1>h, LoopSteps
  <2>2. f[0].ind = ind /\ ~f[0].gap
    BY <2>1 DEF Start
  <2> QED BY <2>2 DEF LoopPast
<1>2. ASSUME NEW k \in 0..(Len(l) - 1), k \in T PROVE k + 1 \in T
  <2>1. f[k + 1] = Visit(f[k], Sn(l[k + 1]))
    BY <1>0, <1>h, LoopSteps
  <2>a. k \in 0..Len(l) /\ k \in Nat
    BY <1>h
  <2>b. LoopAt(f, ind, l, top, k)
    BY <1>w, <2>a
  <2>2. PICK v \in SeqNos : v = f[k].ind
    BY <2>b DEF LoopAt
  <2>3. PICK c \in 0..(top + 1) : c = Off(ind, v)
    BY <2>b, <2>2 DEF LoopAt
  <2>4. k + 1 \in 1..Len(l) /\ l[k + 1] \in Int
    BY <1>h
  <2>5. PICK x \in SeqNos : x = Sn(l[k + 1])
    BY <1>h, <2>4, SnType
  <2>6. PICK p \in lo..top : p = Off(ind, x) /\ p = F(k + 1)
    <3>1. Off(ind, x) \in Int
      BY <1>h, OffIs
    <3>2. lo <= Off(ind, x) /\ Off(ind, x) <= top
      BY <2>4, <2>5 DEF Between
    <3> QED BY <2>5, <3>1, <3>2
  <2>7. /\ SnLess(v, x) <=> p > c
        /\ x = v <=> p = c
        /\ x = v => Off(ind, NextSn(v)) = c + 1
    <3> HIDE DEF T, F
    <3>1. Off(ind, v) \in 0..(top + 1) /\ Off(ind, x) \in lo..top
      BY <2>3, <2>6
    <3>2. /\ SnLess(v, x) <=> Off(ind, x) > Off(ind, v)
          /\ x = v <=> Off(ind, x) = Off(ind, v)
          /\ x = v => Off(ind, NextSn(v)) = Off(ind, v) + 1
      BY <3>1, VisitStep
    <3> QED BY <2>3, <2>6, <3>2
  <2>8. /\ \A i \in 1..k : F(i) # c
        /\ f[k].gap => \E i \in 1..k : F(i) > c
        /\ v = ind \/ \E i \in 1..k : c = F(i) + 1
        /\ ~f[k].gap => \A i \in 1..k : F(i) < c
    BY <1>2, <2>b, <2>2, <2>3 DEF LoopPast, LoopAt
  <2>9. SUFFICES LoopPast(f, ind, l, k + 1)
    BY <2>a
  <2>10. \A i \in 1..(k + 1) : i \in 1..k \/ i = k + 1
    BY <2>a
  <2>11. \A i \in 1..k : i \in 1..(k + 1) /\ i \in 1..Len(l) /\ i < k + 1
    BY <1>h, <2>a
  <2>12. k + 1 \in 1..(k + 1)
    BY <2>a
  <2> HIDE DEF T
  <2>13. CASE f[k].gap
    <3>1. f[k + 1].ind = v /\ f[k + 1].gap
      BY <2>1, <2>2, <2>13 DEF Visit
    <3>2. PICK g \in 1..k : F(g) > c
      BY <2>8, <2>13
    <3>3. F(g) < p /\ F(g) \in Int
      BY <1>f, <1>s, <2>4, <2>6, <2>11
    <3>4. F(k + 1) # c
      BY <2>6, <3>2, <3>3
    <3>5. \A i \in 1..(k + 1) : F(i) # c
      BY <2>8, <2>10, <3>4
    <3>6. \E i \in 1..(k + 1) : F(i) > c
      BY <2>11, <3>2
    <3>7. v = ind \/ \E i \in 1..(k + 1) : c = F(i) + 1
      BY <2>8, <2>11
    <3> QED BY <2>3, <3>1, <3>5, <3>6, <3>7 DEF LoopPast
  <2>14. CASE ~f[k].gap /\ p > c
    <3>1. f[k + 1].ind = v /\ f[k + 1].gap
      BY <2>1, <2>2, <2>5, <2>7, <2>14 DEF Visit
    <3>4. F(k + 1) # c /\ F(k + 1) > c
      BY <2>6, <2>14
    <3>5. \A i \in 1..(k + 1) : F(i) # c
      BY <2>8, <2>10, <3>4
    <3>6. \E i \in 1..(k + 1) : F(i) > c
      BY <2>12, <3>4
    <3>7. v = ind \/ \E i \in 1..(k + 1) : c = F(i) + 1
      BY <2>8, <2>11
    <3> QED BY <2>3, <3>1, <3>5, <3>6, <3>7 DEF LoopPast
  <2>15. CASE ~f[k].gap /\ p = c
    <3>1. f[k + 1].ind = NextSn(v) /\ ~f[k + 1].gap
      <4>1. ~(p > c) /\ x = v
        BY <2>7, <2>15
      <4> QED BY <2>1, <2>2, <2>5, <2>7, <2>15, <4>1 DEF Visit
    <3>2. Off(ind, f[k + 1].ind) = c + 1
      BY <2>7, <2>15, <3>1
    <3>3. \A i \in 1..k : F(i) \in Int /\ F(i) < c
      BY <1>f, <2>8, <2>11, <2>15
    <3>4. \A i \in 1..k : F(i) # c + 1
      BY <3>3
    <3>5. F(k + 1) = c /\ c # c + 1
      BY <2>6, <2>15
    <3>6. \A i \in 1..(k + 1) : F(i) # c + 1
      BY <2>10, <3>4, <3>5
    <3>7. \E i \in 1..(k + 1) : c + 1 = F(i) + 1
      BY <2>12, <3>5
    <3> QED BY <3>1, <3>2, <3>6, <3>7 DEF LoopPast
  <2>16. CASE ~f[k].gap /\ p < c
    <3>1. f[k + 1].ind = v /\ ~f[k + 1].gap
      <4>1. ~(p > c) /\ x # v
        BY <2>7, <2>16
      <4> QED BY <2>1, <2>2, <2>5, <2>7, <2>16, <4>1 DEF Visit
    <3>4. F(k + 1) # c
      BY <2>6, <2>16
    <3>5. \A i \in 1..(k + 1) : F(i) # c
      BY <2>8, <2>10, <3>4
    <3>7. v = ind \/ \E i \in 1..(k + 1) : c = F(i) + 1
      BY <2>8, <2>11
    <3> QED BY <2>3, <3>1, <3>5, <3>7 DEF LoopPast
  <2>17. p > c \/ p = c \/ p < c
    OBVIOUS
  <2> QED BY <2>13, <2>14, <2>15, <2>16, <2>17
<1>3. \A k \in 0..Len(l) : k \in T
  <2> HIDE DEF T
  <2> QED BY <1>1, <1>2, <1>h, UpTo
<1> QED BY <1>0, <1>3

(* All numbers are in half of the sequence space.                          *)
HalfSpace == MaxFrames <= Half
(* The numbers of frames, and the one after them.                          *)
Ends == First .. First + MaxFrames

(* A list of frames is in the order in which they were sent.               *)
Ascending(l) == \A i, j \in 1..Len(l) : i < j => l[i] < l[j]

(* What the loop does to a list of frames, by their numbers.               *)
Passed(m, l, n, k) ==
    /\ \A i \in 1..k : l[i] < n
    /\ \A i \in 1..Len(l) : i > k => l[i] > n
    /\ m <= n /\ (n = m \/ \E i \in 1..k : n = l[i] + 1)
    /\ Ascending(l)

(* reord_rxframes_process and reord_rxframes_ind, by the numbers of the    *)
(* frames.                                                                 *)
LEMMA PassedNumbers ==
    ASSUME Half > 1, HalfSpace, NEW m \in Ends, NEW l \in Seq(Numbers), NEW w \in Nat,
           Fits(Sn(m), l, w)
    PROVE  \E n \in Ends : /\ Process(Sn(m), l).ind = Sn(n)
                           /\ Passed(m, l, n, Ready(Sn(n), l))
<1>1. /\ Half \in Nat /\ Half # 0 /\ First \in Nat /\ MaxFrames \in Nat \ {0} /\ MaxFrames <= Half
      /\ Ends \subseteq Int /\ Numbers \subseteq Ends /\ Len(l) \in Nat
  BY Space, SnAssumption DEF Ends, Numbers, HalfSpace
<1>2. \A x \in Numbers : -Half <= x - m /\ x - m < Half /\ x \in Int
  BY <1>1 DEF Ends, Numbers
<1>3. PICK a \in SeqNos : a = Sn(m)
  BY <1>1, SnType
<1>4. l \in Seq(Int)
  BY <1>1, SeqOfInts
<1>5. \A i \in 1..Len(l) : l[i] \in Numbers /\ Off(a, Sn(l[i])) = l[i] - m
  <2>1. SUFFICES ASSUME NEW i \in 1..Len(l) PROVE l[i] \in Numbers /\ Off(a, Sn(l[i])) = l[i] - m
    OBVIOUS
  <2>2. PICK x \in Numbers : x = l[i]
    OBVIOUS
  <2>3. -Half <= x - m /\ x - m < Half /\ x \in Int /\ m \in Int
    BY <1>1, <1>2
  <2>4. Off(Sn(m), Sn(x)) = x - m
    BY <1>1, <2>3, OffNumbers
  <2> QED BY <1>3, <2>2, <2>4
<1>6. PICK lo \in Int, top \in Int :
        /\ -1 <= top /\ top <= w - 1 /\ top + 1 < Half /\ top + 1 - lo < Half
        /\ Between(a, l, lo, top) /\ Sorted(a, l)
  BY <1>3 DEF Fits
<1>7. LoopAt(Loop(a, l), a, l, top, Len(l))
  BY <1>1, <1>4, <1>6, LoopWindow
<1>8. LoopPast(Loop(a, l), a, l, Len(l))
  BY <1>1, <1>4, <1>6, LoopPasses
<1>9. PICK v \in SeqNos : v = Process(a, l).ind
  BY <1>7 DEF LoopAt, Process
<1>10. PICK c \in 0..(top + 1) : c = Off(a, v)
  BY <1>7, <1>9 DEF LoopAt, Process
<1>11. PICK n \in Int : n = m + c
  BY <1>1
<1>12. v = Sn(n)
  <2>1. m \in Int /\ -Half <= n - m /\ n - m < Half /\ n - m = c
    BY <1>1, <1>6, <1>11
  <2>2. Off(a, Sn(n)) = c
    BY <1>1, <1>3, <2>1, OffNumbers
  <2>3. Sn(n) \in SeqNos
    BY <1>1, SnType
  <2> QED BY <1>1, <1>10, <2>2, <2>3, OffInjective
<1>13. /\ \A i \in 1..Len(l) : l[i] # n
       /\ n = m \/ \E i \in 1..Len(l) : n = l[i] + 1
  <2>1. /\ \A i \in 1..Len(l) : Off(a, Sn(l[i])) # c
        /\ v = a \/ \E i \in 1..Len(l) : c = Off(a, Sn(l[i])) + 1
    BY <1>8, <1>9, <1>10 DEF LoopPast, Process
  <2>2. v = a => c = 0
    BY <1>1, <1>10, OffSame
  <2>3. ASSUME NEW i \in 1..Len(l)
        PROVE  l[i] # n /\ (c = Off(a, Sn(l[i])) + 1 => n = l[i] + 1)
    <3>1. PICK x \in Numbers : x = l[i] /\ Off(a, Sn(l[i])) = x - m /\ x \in Int
      BY <1>2, <1>5
    <3>2. x - m # c
      BY <2>1, <3>1
    <3> QED BY <1>1, <1>11, <3>1, <3>2
  <2> QED BY <1>1, <1>11, <2>1, <2>2, <2>3
<1>14. n \in Ends
  <2>1. CASE n = m
    BY <2>1
  <2>2. CASE \E i \in 1..Len(l) : n = l[i] + 1
    <3>1. PICK x \in Numbers : n = x + 1
      BY <1>5, <2>2
    <3> QED BY <1>1, <3>1 DEF Ends, Numbers
  <2> QED BY <1>13, <2>1, <2>2
<1>15. PICK k \in 0..Len(l) : /\ k = Ready(Sn(n), l)
                              /\ \A i \in 1..k : ~SnLess(Sn(n), Sn(l[i]))
                              /\ k < Len(l) => SnLess(Sn(n), Sn(l[k + 1]))
  BY <1>1, ReadyIs
<1>16. \A i, j \in 1..Len(l) : i < j => l[i] < l[j]
  <2>1. ASSUME NEW i \in 1..Len(l), NEW j \in 1..Len(l), i < j PROVE l[i] < l[j]
    <3>1. Off(a, Sn(l[i])) < Off(a, Sn(l[j]))
      BY <1>6, <2>1 DEF Sorted
    <3>2. PICK x \in Int, y \in Int : /\ x = l[i] /\ Off(a, Sn(l[i])) = x - m
                                      /\ y = l[j] /\ Off(a, Sn(l[j])) = y - m
      BY <1>2, <1>5
    <3>3. m \in Int /\ x - m < y - m
      BY <1>1, <3>1, <3>2
    <3> QED BY <3>2, <3>3
  <2> QED BY <2>1
<1>17. \A i \in 1..Len(l) : l[i] \in Int /\ (SnLess(Sn(n), Sn(l[i])) <=> n < l[i])
  <2>1. SUFFICES ASSUME NEW i \in 1..Len(l)
                 PROVE  l[i] \in Int /\ (SnLess(Sn(n), Sn(l[i])) <=> n < l[i])
    OBVIOUS
  <2>2. PICK x \in Numbers : x = l[i]
    BY <1>5
  <2>3. -Half < n - x /\ n - x <= Half /\ x \in Int /\ -Half <= x - n /\ x - n < Half
    BY <1>1, <1>14, <1>2 DEF Ends, Numbers
  <2>4. Off(Sn(n), Sn(x)) = x - n
    BY <1>1, <2>3, OffNumbers
  <2>5. Off(a, Sn(x)) = x - m /\ Off(a, Sn(n)) = c /\ Off(a, Sn(x)) <= top /\ lo <= Off(a, Sn(x))
    BY <1>5, <1>6, <1>10, <1>12, <2>2 DEF Between
  <2>6. x - n > -Half
    BY <1>1, <1>6, <1>11, <2>5
  <2>7. PICK y \in SeqNos : y = Sn(x)
    BY <1>1, <2>3, SnType
  <2>8. SnLess(v, y) <=> Off(v, y) > 0
    BY <1>1, <1>12, <2>4, <2>6, <2>7, LessOff
  <2> QED BY <1>12, <2>2, <2>3, <2>4, <2>7, <2>8
<1>18. \A i \in 1..k : l[i] < n
  <2>1. SUFFICES ASSUME NEW i \in 1..k PROVE l[i] < n
    OBVIOUS
  <2>2. i \in 1..Len(l)
    BY <1>1
  <2>3. l[i] \in Int /\ ~(n < l[i]) /\ l[i] # n
    BY <1>13, <1>15, <1>17, <2>2
  <2> QED BY <2>3
<1>19. \A i \in 1..Len(l) : i > k => l[i] > n
  <2>1. SUFFICES ASSUME NEW i \in 1..Len(l), i > k PROVE l[i] > n
    OBVIOUS
  <2>2. PICK j \in 1..Len(l) : j = k + 1 /\ j <= i
    BY <1>1, <2>1
  <2>3. k < Len(l)
    BY <1>1, <2>1
  <2>4. n < l[j] /\ l[j] \in Int /\ l[i] \in Int
    BY <1>15, <1>17, <2>2, <2>3
  <2>5. l[j] <= l[i]
    BY <1>16, <2>2, <2>4
  <2> QED BY <2>4, <2>5
<1>20. n = m \/ \E i \in 1..k : n = l[i] + 1
  <2>1. SUFFICES ASSUME NEW i \in 1..Len(l), n = l[i] + 1 PROVE i \in 1..k
    BY <1>13
  <2>2. ~(i > k)
    BY <1>17, <1>19, <2>1
  <2> QED BY <1>1, <2>2
<1>21. m <= n
  BY <1>1, <1>11
<1> QED BY <1>3, <1>9, <1>12, <1>14, <1>15, <1>16, <1>18, <1>19, <1>20, <1>21 DEF Passed, Ascending

(* Sequence numbers of frames, and the half of the space they are in.      *)
LEMMA SnNext ==
    ASSUME Half > 1, NEW n \in Int
    PROVE  NextSn(Sn(n)) = Sn(n + 1)
<1>1. Half \in Nat /\ Half # 0
  BY Space
<1>2. PICK a \in SeqNos : a = Sn(n)
  BY <1>1, SnType
<1>3. NextSn(a) \in SeqNos /\ Off(a, NextSn(a)) = 1
  BY NextOff
<1>4. PICK m \in Int : m = n + 1
  OBVIOUS
<1>5. -Half <= m - n /\ m - n < Half /\ m - n = 1
  BY <1>1, <1>4
<1>6. Off(a, Sn(m)) = 1
  BY <1>1, <1>2, <1>5, OffNumbers
<1>7. Sn(m) \in SeqNos
  BY <1>1, SnType
<1> QED BY <1>1, <1>2, <1>3, <1>4, <1>6, <1>7, OffInjective

(* A sequence number moved by less than a half is that of the frame so far *)
(* off.                                                                    *)
LEMMA SnBack ==
    ASSUME Half > 1, NEW n \in Int, NEW w \in Nat, w < Half
    PROVE  Sn(Sn(n) - w) = Sn(n - w) /\ Sn(Sn(n) + w) = Sn(n + w)
<1>1. Half \in Nat /\ Half # 0
  BY Space
<1>2. PICK a \in SeqNos : a = Sn(n)
  BY <1>1, SnType
<1>3. /\ Sn(a + w) \in SeqNos /\ Off(a, Sn(a + w)) = w
      /\ Sn(a - w) \in SeqNos /\ Off(a, Sn(a - w)) = -w
  BY BackOff
<1>4. PICK m \in Int, q \in Int : m = n - w /\ q = n + w
  <2>1. n - w \in Int /\ n + w \in Int
    OBVIOUS
  <2> QED BY <2>1
<1>5. -Half <= m - n /\ m - n < Half /\ m - n = -w /\ -Half <= q - n /\ q - n < Half /\ q - n = w
  BY <1>1, <1>4
<1>6. Off(a, Sn(m)) = -w /\ Off(a, Sn(q)) = w
  BY <1>1, <1>2, <1>5, OffNumbers
<1>7. Sn(m) \in SeqNos /\ Sn(q) \in SeqNos
  BY <1>1, SnType
<1>8. Sn(a - w) = Sn(m)
  BY <1>1, <1>3, <1>6, <1>7, OffInjective
<1>9. Sn(a + w) = Sn(q)
  BY <1>1, <1>3, <1>6, <1>7, OffInjective
<1> QED BY <1>2, <1>4, <1>8, <1>9

(* No two numbers are more than a half apart.                              *)
LEMMA EndsClose ==
    ASSUME HalfSpace, Half > 1
    PROVE  /\ Half \in Nat /\ Half # 0 /\ Ends \subseteq Int /\ Numbers \subseteq Ends
           /\ \A n \in Ends, h \in Numbers : /\ -Half <= h - n /\ h - n < Half
                                             /\ Off(Sn(n), Sn(h)) = h - n /\ h + 1 \in Ends
<1>1. /\ Half \in Nat /\ Half # 0 /\ First \in Nat /\ MaxFrames \in Nat \ {0} /\ MaxFrames <= Half
      /\ Ends \subseteq Int /\ Numbers \subseteq Ends
  BY Space, SnAssumption DEF Ends, Numbers, HalfSpace
<1>2. ASSUME NEW n \in Ends, NEW h \in Numbers
      PROVE  -Half <= h - n /\ h - n < Half /\ Off(Sn(n), Sn(h)) = h - n /\ h + 1 \in Ends
  <2>1. n \in Int /\ h \in Int /\ -Half <= h - n /\ h - n < Half /\ h + 1 \in Ends
    BY <1>1 DEF Ends, Numbers
  <2> QED BY <1>1, <2>1, OffNumbers
<1> QED BY <1>1, <1>2

(* reord_need_check by numbers: what it accepts is not below ind_sn, which *)
(* it never moves back, nor past the frame, but for the one it waits for.  *)
LEMMA MovedNumber ==
    ASSUME HalfSpace, Half > 1, NEW w \in Nat \ {0}, w < Half, NEW n \in Ends, NEW h \in Numbers,
           ~SnLess(Sn(h), Sn(n))
    PROVE  /\ n <= h
           /\ \E m \in Ends : /\ Checked(Sn(n), Sn(h), w) = Sn(m) /\ n <= m
                              /\ m <= h \/ m = h + 1
<1>1. Half \in Nat /\ Half # 0 /\ n \in Int /\ h \in Int /\ h \in Ends /\ n \in Ends
  BY EndsClose
<1>2. h - n < Half /\ Off(Sn(n), Sn(h)) = h - n /\ h + 1 \in Ends
  BY EndsClose
<1>3. PICK a \in SeqNos, x \in SeqNos : a = Sn(n) /\ x = Sn(h)
  BY <1>1, SnType
<1>4. n <= h
  <2>1. ~(Off(a, x) < 0)
    BY <1>1, <1>3, LessOff
  <2> QED BY <1>1, <1>2, <1>3, <2>1
<1>5. PICK u \in Nat : u = w - 1 /\ u < Half
  BY <1>1
<1>6. Sn(Sn(h) - u) = Sn(h - u)
  BY <1>1, <1>5, SnBack
<1>7. CASE x = a
  <2>1. h = n
    BY <1>1, <1>2, <1>3, <1>7, OffSame
  <2>2. Checked(Sn(n), Sn(h), w) = Sn(h + 1)
    BY <1>1, <1>3, <1>7, <2>1, SnNext DEF Checked
  <2>3. n <= h + 1
    BY <1>1, <2>1
  <2> QED BY <1>2, <1>4, <2>2, <2>3
<1>8. CASE x # a /\ SnLess(Sn(a + w - 1), x)
  <2>1. PICK y \in SeqNos : y = Sn(a + w - 1) /\ Off(a, y) = u
    <3>1. Sn(a + u) \in SeqNos /\ Off(a, Sn(a + u)) = u
      BY <1>5, BackOff
    <3>2. a + u = a + w - 1
      BY <1>1, <1>5, Space DEF SeqNos
    <3> QED BY <3>1, <3>2
  <2>2. u < h - n
    <3>1. Off(a, x) - Off(a, y) < Half /\ Off(a, y) - Off(a, x) < Half
      BY <1>1, <1>2, <1>3, <1>4, <1>5, <2>1
    <3>2. SnLess(y, x) <=> Off(a, y) < Off(a, x)
      BY <1>1, <3>1, Compare
    <3> QED BY <1>2, <1>3, <1>8, <2>1, <3>2
  <2>3. Checked(Sn(n), Sn(h), w) = Sn(h - u)
    BY <1>3, <1>5, <1>6, <1>8 DEF Checked
  <2>4. h - u \in Ends /\ n <= h - u /\ h - u <= h
    BY <1>1, <1>5, <2>2, SnAssumption DEF Ends
  <2> QED BY <1>4, <2>3, <2>4
<1>9. CASE x # a /\ ~SnLess(Sn(a + w - 1), x)
  <2>1. Checked(Sn(n), Sn(h), w) = Sn(n)
    BY <1>3, <1>9 DEF Checked
  <2> QED BY <1>1, <1>4, <2>1
<1> QED BY <1>7, <1>8, <1>9

(* Two sequences, one after the other.                                     *)
LEMMA ConcatIs ==
    ASSUME NEW o \in Seq(Int), NEW h \in Seq(Int)
    PROVE  /\ Len(o) \in Nat /\ DOMAIN o = 1..Len(o) /\ DOMAIN (o \o h) = 1..(Len(o) + Len(h))
           /\ \A i \in 1..(Len(o) + Len(h)) :
                (o \o h)[i] = IF i <= Len(o) THEN o[i] ELSE h[i - Len(o)]
  OBVIOUS

(* What was appended to a sequence.                                        *)
LEMMA AppendedTail ==
    ASSUME NEW S, NEW o \in Seq(S), NEW h \in Seq(S)
    PROVE  SubSeq(o \o h, Len(o) + 1, Len(o \o h)) = h
<1>1. PICK t : t = o \o h
  OBVIOUS
<1>2. /\ t \in Seq(S) /\ Len(t) = Len(o) + Len(h) /\ Len(o) \in Nat /\ Len(h) \in Nat
      /\ \A i \in 1..Len(h) : t[Len(o) + i] = h[i]
  BY <1>1
<1>3. PICK s : s = SubSeq(t, Len(o) + 1, Len(t))
  OBVIOUS
<1>4. s \in Seq(S) /\ Len(s) = Len(h)
  BY <1>2, <1>3
<1>5. ASSUME NEW i \in 1..Len(h) PROVE s[i] = h[i]
  <2>1. (Len(o) + 1) + i - 1 = Len(o) + i /\ Len(o) + i \in 1..Len(t) /\ i \in 1..Len(s)
    BY <1>2, <1>4
  <2>2. s[i] = t[Len(o) + i]
    BY <1>2, <1>3, <2>1
  <2> QED BY <1>2, <2>2
<1>6. s = h
  BY <1>4, <1>5
<1> QED BY <1>1, <1>3, <1>6

(* What leaves a list that is in order is in order, and below what stays.  *)
LEMMA SplitBelow ==
    ASSUME NEW l \in Seq(Int), NEW k, NEW h \in Seq(Int), NEW r \in Seq(Int), Splits(l, k, h, r),
           Ascending(l)
    PROVE  /\ h \in Seq(ToSet(l)) /\ Ascending(h) /\ ToSet(r) = ToSet(l) \ ToSet(h)
           /\ \A x \in ToSet(h), y \in ToSet(r) : x < y
<1>1. k \in 0..Len(l) /\ Len(l) \in Nat /\ Len(h) = k /\ Len(r) = Len(l) - k
  BY DEF Splits
<1>2. ASSUME NEW i \in 1..k PROVE h[i] = l[i] /\ i \in 1..Len(l) /\ l[i] \in ToSet(l)
  <2>1. h[i] = l[i] /\ i \in 1..Len(l)
    BY <1>1 DEF Splits
  <2> QED BY <2>1 DEF ToSet
<1>3. ToSet(l) = ToSet(h) \cup ToSet(r)
  <2>1. PICK S : S = Int
    OBVIOUS
  <2>2. l \in Seq(S) /\ h \in Seq(S) /\ r \in Seq(S)
    BY <2>1
  <2>3. /\ ToSet(l) = ToSet(h) \cup ToSet(r)
        /\ ToSet(h) \cap ToSet(r) \subseteq Repeated(l) /\ Repeated(r) \subseteq Repeated(l)
    BY <2>2, SplitSet
  <2> QED BY <2>3
<1>4. Ascending(h)
  BY <1>1, <1>2 DEF Ascending
<1>5. h \in Seq(ToSet(l))
  <2>1. h = [i \in 1..k |-> h[i]]
    BY <1>1
  <2>2. \A i \in 1..k : h[i] \in ToSet(l)
    BY <1>2
  <2>3. PICK T : T = ToSet(l)
    OBVIOUS
  <2>4. h \in [1..k -> T] /\ k \in Nat
    BY <1>1, <2>1, <2>2, <2>3
  <2>5. h \in Seq(T)
    BY <2>4
  <2> QED BY <2>3, <2>5
<1>7. ASSUME NEW x \in ToSet(h), NEW y \in ToSet(r) PROVE x < y
  <2>1. PICK i \in 1..k : x = h[i]
    BY <1>1 DEF ToSet
  <2>2. PICK j \in 1..Len(r) : y = r[j]
    BY <1>1 DEF ToSet
  <2>3. PICK p \in 1..Len(l) : p = k + j
    BY <1>1
  <2>4. i < p /\ i \in 1..Len(l)
    BY <1>1, <2>3
  <2>5. x = l[i] /\ y = l[p]
    BY <1>2, <2>1, <2>2, <2>3 DEF Splits
  <2> QED BY <2>4, <2>5 DEF Ascending
<1>8. ToSet(h) \cap ToSet(r) = {}
  <2>1. \A x \in ToSet(h) : x \in Int
    BY DEF ToSet
  <2> QED BY <1>7, <2>1
<1> QED BY <1>3, <1>4, <1>5, <1>7, <1>8

(* Taking the head of an ordered list is a release of the abstract buffer. *)
LEMMA ReleaseStep ==
    ASSUME NEW l \in Seq(Int), NEW k, NEW h \in Seq(Int), NEW r \in Seq(Int), Splits(l, k, h, r),
           Ascending(l), out \in Seq(Int), dpc = "idle", dpc' = "idle", out' = out \o h, list' = r
    PROVE  Ordered!Release(ToSet(l))
<1>1. SubSeq(out \o h, Len(out) + 1, Len(out \o h)) = h
  BY AppendedTail
<1>2. /\ h \in Seq(ToSet(l)) /\ Ascending(h) /\ ToSet(r) = ToSet(l) \ ToSet(h)
      /\ \A x \in ToSet(h), y \in ToSet(r) : x < y
  BY SplitBelow
<1>3. Ordered!Increasing(h)
  <2>1. DOMAIN h = 1..Len(h)
    OBVIOUS
  <2> QED BY <1>2, <2>1 DEF Ordered!Increasing, Ascending
<1>4. Ordered!Elements(h) = ToSet(h)
  BY DEF Ordered!Elements, ToSet
<1>5. Ordered!Below(ToSet(h), ToSet(r))
  BY <1>2 DEF Ordered!Below
<1> QED BY <1>1, <1>2, <1>3, <1>4, <1>5 DEF Ordered!Release

(* So is Indicate; and ind_sn stands for a number afterwards, that of the  *)
(* frame after one that went up or the old one.                            *)
LEMMA IndicateNumbers ==
    ASSUME HalfSpace, Half > 1, NEW m \in Ends, NEW l \in Seq(Numbers), NEW w \in Nat,
           Fits(Sn(m), l, w), Indicate(Sn(m), l), out \in Seq(Numbers), dpc = "idle", dpc' = "idle"
    PROVE  /\ Ordered!Release(ToSet(l)) /\ Ascending(l)
           /\ \E n \in Ends :
                /\ ind_sn' = Sn(n) /\ m <= n /\ (n = m \/ n - 1 \in up')
                /\ (\A i \in DOMAIN out : out[i] < n) => \A i \in DOMAIN out' : out'[i] < n
                /\ \A x \in ToSet(l) : x < n => x \in up'
<1>1. /\ Half \in Nat /\ Half # 0 /\ Ends \subseteq Int /\ Numbers \subseteq Int
      /\ l \in Seq(Int) /\ out \in Seq(Int) /\ Len(l) \in Nat
  BY EndsClose, SeqOfInts
<1>2. PICK n \in Ends : Process(Sn(m), l).ind = Sn(n) /\ Passed(m, l, n, Ready(Sn(n), l))
  BY PassedNumbers
<1>3. PICK k \in 0..Len(l) : k = Ready(Sn(n), l)
  BY <1>1, ReadyIs
<1>4. PICK h, r : h = SubSeq(l, 1, k) /\ r = SubSeq(l, k + 1, Len(l))
  OBVIOUS
<1>5. ind_sn' = Sn(n) /\ list' = r /\ out' = out \o h /\ up' = up \cup ToSet(h)
  BY <1>2, <1>3, <1>4 DEF Indicate
<1>6. h \in Seq(Int) /\ Len(h) = k /\ \A i \in 1..k : h[i] = l[i]
  BY <1>1, <1>4
<1>7. r \in Seq(Int) /\ Len(r) = Len(l) - k
  BY <1>1, <1>4
<1>8. ASSUME NEW i \in 1..Len(r) PROVE r[i] = l[k + i]
  <2>1. k + i \in 1..Len(l) /\ (k + 1) + i - 1 = k + i
    BY <1>1, <1>7
  <2>2. l \in Seq(Int) /\ r = SubSeq(l, k + 1, Len(l)) /\ k + 1 \in Nat /\ i \in 1..(Len(l) - k)
    BY <1>1, <1>4, <1>7
  <2> QED BY <2>1, <2>2, TailIs
<1>9. Splits(l, k, h, r)
  BY <1>6, <1>7, <1>8 DEF Splits
<1>10. Ascending(l)
  BY <1>2 DEF Passed
<1>11. Ordered!Release(ToSet(l))
  BY <1>1, <1>5, <1>6, <1>7, <1>9, <1>10, ReleaseStep
<1>12. /\ \A i \in 1..k : l[i] < n
       /\ \A i \in 1..Len(l) : i > k => l[i] > n
       /\ m <= n /\ (n = m \/ \E i \in 1..k : n = l[i] + 1)
  BY <1>2, <1>3 DEF Passed
<1>13. \A i \in 1..k : l[i] \in up' /\ l[i] \in Int
  <2>1. SUFFICES ASSUME NEW i \in 1..k PROVE l[i] \in up' /\ l[i] \in Int
    OBVIOUS
  <2>2. i \in 1..Len(h) /\ h[i] = l[i] /\ i \in 1..Len(l)
    BY <1>1, <1>6
  <2>3. DOMAIN h = 1..Len(h) /\ ToSet(h) = {h[j] : j \in DOMAIN h}
    BY <1>6 DEF ToSet
  <2>4. h[i] \in ToSet(h)
    BY <2>2, <2>3
  <2>5. l[i] \in Int
    BY <1>1, <2>2
  <2>6. l[i] \in up'
    BY <1>5, <2>2, <2>4
  <2> QED BY <2>5, <2>6
<1>14. n = m \/ n - 1 \in up'
  <2>1. ASSUME NEW i \in 1..k, n = l[i] + 1 PROVE n - 1 \in up'
    <3>1. n - 1 = l[i]
      BY <1>13, <2>1
    <3> QED BY <1>13, <3>1
  <2> QED BY <1>12, <2>1
<1>15. ASSUME \A i \in DOMAIN out : out[i] < n, NEW i \in DOMAIN out' PROVE out'[i] < n
  <2>1. /\ Len(out) \in Nat /\ DOMAIN out = 1..Len(out) /\ DOMAIN out' = 1..(Len(out) + k)
        /\ out'[i] = IF i <= Len(out) THEN out[i] ELSE h[i - Len(out)]
    <3>1. PICK o \in Seq(Int) : o = out
      BY <1>1
    <3>5. h \in Seq(Int) /\ Len(h) = k
      BY <1>6
    <3>2. Len(o) \in Nat /\ DOMAIN o = 1..Len(o) /\ DOMAIN (o \o h) = 1..(Len(o) + k)
      BY <3>5, ConcatIs
    <3>3. i \in 1..(Len(o) + k)
      BY <1>5, <3>1, <3>2
    <3>4. (o \o h)[i] = IF i <= Len(o) THEN o[i] ELSE h[i - Len(o)]
      BY <3>3, <3>5, ConcatIs
    <3> QED BY <1>5, <3>1, <3>2, <3>4
  <2>2. CASE i <= Len(out)
    BY <1>15, <2>1, <2>2
  <2>3. CASE i > Len(out)
    <3>1. PICK j \in 1..k : j = i - Len(out)
      BY <2>1, <2>3
    <3>2. out'[i] = h[j] /\ h[j] = l[j] /\ l[j] < n
      BY <1>6, <1>12, <2>1, <2>3, <3>1
    <3> QED BY <3>2
  <2> QED BY <2>1, <2>2, <2>3
<1>16. ASSUME NEW x \in ToSet(l), x < n PROVE x \in up'
  <2>1. PICK i \in 1..Len(l) : x = l[i]
    BY DEF ToSet
  <2>2. l[i] \in Int /\ n \in Int
    BY <1>1
  <2>3. ~(i > k)
    BY <1>12, <1>16, <2>1, <2>2
  <2>4. i \in 1..k
    BY <1>1, <2>3
  <2> QED BY <1>13, <2>1, <2>4
<1>17. (\A i \in DOMAIN out : out[i] < n) => \A i \in DOMAIN out' : out'[i] < n
  BY <1>15
<1> QED BY <1>5, <1>10, <1>11, <1>12, <1>14, <1>16, <1>17

(* A frame put on the list was not on it, if the list is in order          *)
(* afterwards.                                                             *)
LEMMA NotListed ==
    ASSUME NEW l \in Seq(Int), NEW n \in Int, Ascending(Enqueue(l, n))
    PROVE  n \notin ToSet(l)
<1>1. PICK m \in Seq(Int) : m = Enqueue(l, n)
  BY EnqueueIs
<1>2. PICK i \in 1..(Len(l) + 1) : With(m, l, n, i)
  BY <1>1, EnqueueIs
<1>3. SUFFICES ASSUME NEW j \in 1..Len(l), l[j] = n PROVE FALSE
  BY DEF ToSet
<1>4. Len(l) \in Nat /\ Len(m) = Len(l) + 1 /\ m[i] = n /\ i \in 1..Len(m)
  BY <1>2 DEF With
<1>5. Ascending(m)
  BY <1>1
<1>6. CASE j < i
  <2>1. j \in 1..Len(m) /\ m[j] = n
    BY <1>2, <1>3, <1>4, <1>6 DEF With
  <2>2. m[j] < m[i]
    BY <1>4, <1>5, <1>6, <2>1 DEF Ascending
  <2> QED BY <1>4, <2>1, <2>2
<1>7. CASE j >= i
  <2>1. PICK p \in 1..Len(m) : p = j + 1
    BY <1>4
  <2>2. ~(p < i) /\ p # i /\ p - 1 = j /\ i < p /\ p \in 1..(Len(l) + 1)
    BY <1>4, <1>7, <2>1
  <2>3. m[p] = n
    BY <1>2, <1>3, <2>2 DEF With
  <2>4. m[i] < m[p]
    BY <1>4, <1>5, <2>2 DEF Ascending
  <2> QED BY <1>4, <2>3, <2>4
<1> QED BY <1>4, <1>6, <1>7

(* The number that ind_sn stands for, or is about to.                      *)
Stands(n) ==
    /\ Sn(n) = IF ind_sn = NoSn THEN Sn(hand) ELSE ind_sn
    /\ \A i \in DOMAIN out : out[i] < n
    /\ n - 1 \in up \/ \E m \in got : n <= m

(* There is such a number while the TID is enabled.                        *)
LEMMA StandsFor ==
    ASSUME HalfSpace, Half > 1, RxInv, IndNumber, enable, dpc = "idle", rpc # "idle" \/ ind_sn # NoSn
    PROVE  \E n \in Ends : Stands(n)
<1>1. CASE ind_sn # NoSn
  BY <1>1 DEF IndNumber, Stands, Ends
<1>2. CASE ind_sn = NoSn
  <2>1. out = <<>>
    BY <1>2 DEF IndNumber
  <2>2. hand \in got
    BY <1>2 DEF RxInv, NothingLost
  <2>3. hand \in Ends /\ hand \in Int
    BY EndsClose DEF RxInv, TypeOK
  <2>4. hand <= hand
    BY <2>3
  <2> QED BY <1>2, <2>1, <2>2, <2>3, <2>4 DEF Stands
<1> QED BY <1>1, <1>2

(* The numbers of the list are above the one of ind_sn.                    *)
LEMMA ListAscends ==
    ASSUME HalfSpace, Half > 1, NEW n \in Ends, NEW l \in Seq(Numbers), NEW w,
           InWindow(Sn(n), l, w)
    PROVE  Ascending(l) /\ \A i \in 1..Len(l) : n < l[i]
<1>1. ASSUME NEW i \in 1..Len(l) PROVE l[i] \in Int /\ n \in Int /\ Off(Sn(n), Sn(l[i])) = l[i] - n
  <2>1. PICK x \in Numbers : x = l[i]
    OBVIOUS
  <2> QED BY <2>1, EndsClose
<1>2. ASSUME NEW i \in 1..Len(l) PROVE n < l[i]
  <2>1. 1 <= Off(Sn(n), Sn(l[i]))
    BY DEF InWindow, Between
  <2> QED BY <1>1, <2>1
<1>3. ASSUME NEW i \in 1..Len(l), NEW j \in 1..Len(l), i < j PROVE l[i] < l[j]
  <2>1. Off(Sn(n), Sn(l[i])) < Off(Sn(n), Sn(l[j]))
    BY <1>3 DEF InWindow, Sorted
  <2>2. PICK x \in Int, y \in Int : /\ x = l[i] /\ y = l[j] /\ n \in Int
                                    /\ x - n < y - n
    BY <1>1, <2>1
  <2> QED BY <2>2
<1> QED BY <1>2, <1>3 DEF Ascending

(* A step that the abstract buffer may take.                               *)
OrderedStep == Ordered!Next \/ UNCHANGED Ordered!vars

(* Putting a frame on the list takes it in, and releases some, in the      *)
(* abstract buffer.                                                        *)
LEMMA EnqueueNumbers ==
    ASSUME HalfSpace, RxInv, IndNumber, RxEnqueue, setup' = setup, dpc = "idle"
    PROVE  IndNumber' /\ OrderedStep
<1>1. /\ TypeOK /\ NothingLost /\ ListOnlyEnabled
      /\ setup \in Setups /\ list \in Seq(Numbers) /\ hand \in Numbers /\ out \in Seq(Numbers)
  BY DEF RxInv, TypeOK
<1>2. /\ Half \in Nat /\ Half > 1 /\ Half # 0 /\ WinSize \in Nat \ {0} /\ WinSize < Half
      /\ SeqNos \subseteq Int /\ Numbers \subseteq Int /\ list \in Seq(Int) /\ hand \in Int
  BY <1>1, SetupIs
<1>3. /\ rpc = "process" /\ enable /\ dpc' = dpc /\ enable' = enable /\ got' = got
  BY DEF RxEnqueue, envVars, staVars
<1>4. PICK n0 \in Ends : Stands(n0)
  BY <1>2, <1>3, StandsFor
<1>5. PICK a \in SeqNos : a = Sn(n0)
  BY <1>2, EndsClose, SnType
<1>6. a = IF ind_sn = NoSn THEN Sn(hand) ELSE ind_sn
  BY <1>4, <1>5 DEF Stands
<1>7. ~SnLess(Sn(hand), a)
  BY <1>6 DEF RxEnqueue, JudgedLate
<1>8. InWindow(a, list, WinSize)
  <2>1. CASE ind_sn = NoSn
    <3>1. list = <<>>
      BY <1>1, <2>1 DEF ListOnlyEnabled
    <3> QED BY <3>1, EmptyWindow
  <2>2. CASE ind_sn # NoSn
    BY <1>3, <1>6, <2>2, WindowOf
  <2> QED BY <2>1, <2>2
<1>9. PICK b \in SeqNos : /\ b = Checked(a, Sn(hand), WinSize)
                          /\ IsDuplicate(list, hand) => b = a
                          /\ ~IsDuplicate(list, hand) => Fits(b, Enqueue(list, hand), WinSize)
  BY <1>2, <1>7, <1>8, AcceptedFits
<1>10. b = NeedCheck(a, Sn(hand))
  BY <1>9 DEF NeedCheck, WindowEnd, Checked
<1>11. NoSn \notin SeqNos
  BY DEF NoSn, SeqNos
<1>12. CASE IsDuplicate(list, hand)
  <2>1. ind_sn' = a /\ UNCHANGED <<list, out, up>>
    BY <1>6, <1>9, <1>10, <1>12 DEF RxEnqueue
  <2>2. IndNumber'
    <3>1. /\ ind_sn' = Sn(n0) /\ \A i \in DOMAIN out' : out'[i] < n0
          /\ n0 - 1 \in up' \/ \E m \in got' : n0 <= m
      BY <1>3, <1>4, <1>5, <2>1 DEF Stands
    <3>2. ind_sn' # NoSn
      BY <1>11, <2>1
    <3> QED BY <3>1, <3>2 DEF IndNumber, Ends
  <2>3. UNCHANGED Ordered!vars
    BY <1>3, <2>1 DEF Ordered!vars
  <2> QED BY <2>2, <2>3 DEF OrderedStep
<1>13. CASE ~IsDuplicate(list, hand)
  <2>1. PICK l \in Seq(Numbers) : l = Enqueue(list, hand) /\ ToSet(l) = ToSet(list) \cup {hand}
    BY <1>1, EnqueueIs, EnqueueSet
  <2>2. Indicate(b, l)
    BY <1>6, <1>10, <1>13, <2>1 DEF RxEnqueue
  <2>3. n0 <= hand
    BY <1>1, <1>2, <1>5, <1>7, MovedNumber
  <2>4. PICK m \in Ends : b = Sn(m) /\ n0 <= m /\ (m <= hand \/ m = hand + 1)
    BY <1>1, <1>2, <1>5, <1>7, <1>9, MovedNumber
  <2>5. Fits(b, l, WinSize)
    BY <1>9, <1>13, <2>1
  <2>6. /\ Ordered!Release(ToSet(l)) /\ Ascending(l)
        /\ \E n \in Ends :
             /\ ind_sn' = Sn(n) /\ m <= n /\ (n = m \/ n - 1 \in up')
             /\ (\A i \in DOMAIN out : out[i] < n) => \A i \in DOMAIN out' : out'[i] < n
             /\ \A x \in ToSet(l) : x < n => x \in up'
    BY <1>1, <1>2, <1>3, <2>2, <2>4, <2>5, IndicateNumbers
  <2>7. PICK n \in Ends :
             /\ ind_sn' = Sn(n) /\ m <= n /\ (n = m \/ n - 1 \in up')
             /\ (\A i \in DOMAIN out : out[i] < n) => \A i \in DOMAIN out' : out'[i] < n
             /\ \A x \in ToSet(l) : x < n => x \in up'
    BY <2>6
  <2>8. n \in Int /\ m \in Int /\ n0 \in Int /\ n0 <= n
    BY <1>2, <2>4, <2>7, EndsClose
  <2>9. \A i \in DOMAIN out : out[i] \in Int /\ out[i] < n0
    <3>1. out \in Seq(Int)
      BY <1>1, <1>2, SeqOfInts
    <3>2. \A i \in DOMAIN out : out[i] \in Int
      BY <3>1
    <3> QED BY <1>4, <3>2 DEF Stands
  <2>10. IndNumber'
    <3>1. \A i \in DOMAIN out' : out'[i] < n
      <4>1. \A i \in DOMAIN out : out[i] < n
        BY <2>8, <2>9
      <4> QED BY <2>7, <4>1
    <3>2. n - 1 \in up' \/ \E x \in got' : n <= x
      <4>1. CASE n = m /\ m <= hand
        <5>1. hand \in got'
          BY <1>1, <1>3 DEF NothingLost
        <5> QED BY <4>1, <5>1
      <4>2. CASE n = m /\ m = hand + 1
        <5>1. n - 1 = hand /\ hand < n
          BY <1>2, <4>2
        <5>2. hand \in up'
          BY <2>1, <2>7, <5>1
        <5> QED BY <5>1, <5>2
      <4>3. CASE n - 1 \in up'
        BY <4>3
      <4> QED BY <2>4, <2>7, <4>1, <4>2, <4>3
    <3>3. ind_sn' # NoSn
      BY <1>2, <1>11, <2>7, <2>8, SnType
    <3> QED BY <2>7, <3>1, <3>2, <3>3 DEF IndNumber, Ends
  <2>11. Ordered!Accept(hand)
    <3>1. hand \notin ToSet(list)
      BY <1>2, <2>1, <2>6, NotListed
    <3>2. Ordered!Below(Ordered!Elements(out), {hand})
      <4>1. \A x \in Ordered!Elements(out) : x < hand
        <5>1. \A i \in DOMAIN out : out[i] < hand
          BY <1>2, <2>3, <2>8, <2>9
        <5> QED BY <5>1 DEF Ordered!Elements
      <4> QED BY <4>1 DEF Ordered!Below
    <3> QED BY <2>1, <2>6, <3>1, <3>2 DEF Ordered!Accept
  <2>12. Ordered!Next
    BY <1>1, <2>11 DEF Ordered!Next, Numbers
  <2> QED BY <2>10, <2>12 DEF OrderedStep
<1> QED BY <1>12, <1>13

(* Giving up a gap releases frames.                                        *)
LEMMA WorkNumbers ==
    ASSUME HalfSpace, RxInv, IndNumber, WorkRun, setup' = setup, dpc = "idle"
    PROVE  IndNumber' /\ OrderedStep
<1>1. /\ TypeOK /\ NothingLost /\ ListOnlyEnabled
      /\ setup \in Setups /\ list \in Seq(Numbers) /\ out \in Seq(Numbers)
  BY DEF RxInv, TypeOK
<1>2. /\ Half \in Nat /\ Half > 1 /\ Half # 0 /\ WinSize \in Nat \ {0} /\ WinSize < Half
      /\ SeqNos \subseteq Int /\ Numbers \subseteq Int /\ list \in Seq(Int)
  BY <1>1, SetupIs
<1>3. dpc' = dpc /\ enable' = enable /\ got' = got
  BY DEF WorkRun, envVars, staVars
<1>4. NoSn \notin SeqNos
  BY DEF NoSn, SeqNos
<1>5. CASE list = <<>>
  <2>1. UNCHANGED <<ind_sn, list, out, up>>
    BY <1>5 DEF WorkRun
  <2> QED BY <1>3, <2>1 DEF IndNumber, OrderedStep, Ordered!vars
<1>6. CASE list # <<>>
  <2>1. enable /\ ind_sn # NoSn
    BY <1>1, <1>6 DEF ListOnlyEnabled
  <2>2. PICK n0 \in Ends : Stands(n0)
    BY <1>2, <2>1, StandsFor
  <2>3. ind_sn = Sn(n0) /\ ind_sn \in SeqNos
    BY <1>1, <2>1, <2>2 DEF Stands, TypeOK, SeqNos
  <2>4. InWindow(ind_sn, list, WinSize)
    BY <2>1, WindowOf
  <2>5. PICK m \in Numbers : m = Head(list) /\ m = list[1] /\ 1 \in 1..Len(list)
    BY <1>1, <1>6
  <2>6. m \in Ends /\ m \in Int /\ n0 \in Int
    BY <1>2, EndsClose
  <2>7. n0 < m
    BY <1>1, <1>2, <2>3, <2>4, <2>5, ListAscends
  <2>8. Fits(Sn(m), list, WinSize)
    BY <1>2, <1>6, <2>3, <2>4, <2>5, GivenUpFits
  <2>9. Indicate(Sn(m), list)
    BY <1>6, <2>5 DEF WorkRun
  <2>10. /\ Ordered!Release(ToSet(list))
         /\ \E n \in Ends :
              /\ ind_sn' = Sn(n) /\ m <= n /\ (n = m \/ n - 1 \in up')
              /\ (\A i \in DOMAIN out : out[i] < n) => \A i \in DOMAIN out' : out'[i] < n
              /\ \A x \in ToSet(list) : x < n => x \in up'
    BY <1>1, <1>2, <1>3, <2>6, <2>8, <2>9, IndicateNumbers
  <2>11. PICK n \in Ends :
              /\ ind_sn' = Sn(n) /\ m <= n /\ (n = m \/ n - 1 \in up')
              /\ (\A i \in DOMAIN out : out[i] < n) => \A i \in DOMAIN out' : out'[i] < n
    BY <2>10
  <2>12. n \in Int
    BY <1>2, EndsClose
  <2>13. \A i \in DOMAIN out : out[i] \in Int /\ out[i] < n0
    <3>1. out \in Seq(Int)
      BY <1>1, <1>2, SeqOfInts
    <3>2. \A i \in DOMAIN out : out[i] \in Int
      BY <3>1
    <3> QED BY <2>2, <3>2 DEF Stands
  <2>14. IndNumber'
    <3>1. \A i \in DOMAIN out' : out'[i] < n
      <4>1. \A i \in DOMAIN out : out[i] < n
        BY <2>6, <2>7, <2>11, <2>12, <2>13
      <4> QED BY <2>11, <4>1
    <3>2. n - 1 \in up' \/ \E x \in got' : n <= x
      <4>1. CASE n = m
        <5>1. m \in got'
          BY <1>1, <1>3, <2>5 DEF NothingLost, ToSet
        <5> QED BY <2>6, <4>1, <5>1
      <4> QED BY <2>11, <4>1
    <3>3. ind_sn' # NoSn
      BY <1>2, <1>4, <2>11, <2>12, SnType
    <3> QED BY <2>11, <3>1, <3>2, <3>3 DEF IndNumber, Ends
  <2>15. Ordered!Next
    BY <2>10 DEF Ordered!Next
  <2> QED BY <2>14, <2>15 DEF OrderedStep
<1> QED BY <1>5, <1>6

(* A flush releases all.                                                   *)
LEMMA FlushReleases ==
    ASSUME HalfSpace, RxInv, IndNumber, RxFlush, dpc = "idle"
    PROVE  OrderedStep
<1>1. /\ ListOnlyEnabled /\ setup \in Setups /\ list \in Seq(Numbers) /\ out \in Seq(Numbers)
  BY DEF RxInv, TypeOK
<1>2. /\ Half > 1 /\ Numbers \subseteq Int /\ list \in Seq(Int) /\ out \in Seq(Int)
  BY <1>1, SetupIs, SeqOfInts
<1>3. dpc' = dpc /\ out' = out \o list /\ list' = <<>> /\ rpc = "found"
  BY DEF RxFlush, staVars
<1>4. Ascending(list)
  <2>1. CASE list = <<>>
    BY <2>1 DEF Ascending
  <2>2. CASE list # <<>>
    <3>1. enable /\ ind_sn # NoSn
      BY <1>1, <2>2 DEF ListOnlyEnabled
    <3>2. PICK n \in Ends : Stands(n)
      BY <1>2, <3>1, StandsFor
    <3>3. InWindow(Sn(n), list, WinSize)
      BY <3>1, <3>2, WindowOf DEF Stands
    <3> QED BY <1>1, <1>2, <3>3, ListAscends
  <2> QED BY <2>1, <2>2
<1>5. Splits(list, Len(list), list, <<>>) /\ <<>> \in Seq(Int)
  BY <1>2 DEF Splits
<1>6. Ordered!Release(ToSet(list))
  BY <1>2, <1>3, <1>4, <1>5, ReleaseStep
<1> QED BY <1>6 DEF OrderedStep, Ordered!Next

(* Every step keeps the number of ind_sn and is one of the abstract        *)
(* buffer.                                                                 *)
LEMMA NextNumbers ==
    ASSUME HalfSpace, RxInv, IndNumber, Next
    PROVE  IndNumber' /\ OrderedStep
<1>1. ListOnlyEnabled /\ setup' = setup /\ setup \in Setups /\ TypeOK
  BY DEF RxInv, TypeOK, Next
<1>2. CASE Send
  <2>1. IndNumber'
    BY <1>2 DEF IndNumber, Send, envVars, ctrlVars, timeVars, rxVars, staVars, indVars
  <2>2. UNCHANGED Ordered!vars
    BY <1>2 DEF Ordered!vars, Send, envVars, ctrlVars, timeVars, rxVars, staVars, indVars
  <2> QED BY <2>1, <2>2 DEF OrderedStep
<1>3. CASE RxDisabled
  <2>1. IndNumber'
    BY <1>3 DEF IndNumber, RxDisabled, envVars, ctrlVars, timeVars, rxVars, staVars, indVars
  <2>2. UNCHANGED Ordered!vars
    BY <1>3 DEF Ordered!vars, RxDisabled, envVars, ctrlVars, timeVars, rxVars, staVars, indVars
  <2> QED BY <2>1, <2>2 DEF OrderedStep
<1>4. CASE RxFlushCancel
  <2>1. IndNumber'
    BY <1>4 DEF IndNumber, RxFlushCancel, envVars, ctrlVars, timeVars, rxVars, staVars, indVars
  <2>2. UNCHANGED Ordered!vars
    BY <1>4 DEF Ordered!vars, RxFlushCancel, envVars, ctrlVars, timeVars, rxVars, staVars, indVars
  <2> QED BY <2>1, <2>2 DEF OrderedStep
<1>5. CASE RxFlushEnd
  <2>1. IndNumber'
    BY <1>5 DEF IndNumber, RxFlushEnd, envVars, ctrlVars, timeVars, rxVars, staVars, indVars
  <2>2. UNCHANGED Ordered!vars
    BY <1>5 DEF Ordered!vars, RxFlushEnd, envVars, ctrlVars, timeVars, rxVars, staVars, indVars
  <2> QED BY <2>1, <2>2 DEF OrderedStep
<1>6. CASE TimerExpires
  <2>1. IndNumber'
    BY <1>6 DEF IndNumber, TimerExpires, envVars, ctrlVars, timeVars, rxVars, staVars, indVars
  <2>2. UNCHANGED Ordered!vars
    BY <1>6 DEF Ordered!vars, TimerExpires, envVars, ctrlVars, timeVars, rxVars, staVars, indVars
  <2> QED BY <2>1, <2>2 DEF OrderedStep
<1>7. CASE WorkStart
  <2>1. IndNumber'
    BY <1>7 DEF IndNumber, WorkStart, envVars, ctrlVars, timeVars, rxVars, staVars, indVars
  <2>2. UNCHANGED Ordered!vars
    BY <1>7 DEF Ordered!vars, WorkStart, envVars, ctrlVars, timeVars, rxVars, staVars, indVars
  <2> QED BY <2>1, <2>2 DEF OrderedStep
<1>8. CASE DeinitCancel
  <2>1. IndNumber'
    BY <1>8 DEF IndNumber, DeinitCancel, envVars, ctrlVars, timeVars, rxVars, staVars, indVars
  <2>2. UNCHANGED Ordered!vars
    BY <1>8 DEF Ordered!vars, DeinitCancel, envVars, ctrlVars, timeVars, rxVars, staVars, indVars
  <2> QED BY <2>1, <2>2 DEF OrderedStep
<1>9. CASE DeinitDrop
  <2>1. IndNumber'
    BY <1>9 DEF IndNumber, DeinitDrop, envVars, ctrlVars, timeVars, rxVars, staVars, indVars
  <2>2. UNCHANGED Ordered!vars
    BY <1>9 DEF Ordered!vars, DeinitDrop, envVars, ctrlVars, timeVars, rxVars, staVars, indVars
  <2> QED BY <2>1, <2>2 DEF OrderedStep
<1>10. CASE UseAfterFree
  <2>1. IndNumber'
    BY <1>10 DEF IndNumber, UseAfterFree, envVars, ctrlVars, timeVars, rxVars, staVars, indVars
  <2>2. UNCHANGED Ordered!vars
    BY <1>10 DEF Ordered!vars, UseAfterFree, envVars, ctrlVars, timeVars, rxVars, staVars, indVars
  <2> QED BY <2>1, <2>2 DEF OrderedStep
<1>11. CASE BusStop
  <2>1. IndNumber'
    BY <1>11 DEF IndNumber, BusStop, envVars, ctrlVars, timeVars, rxVars, staVars, indVars
  <2>2. UNCHANGED Ordered!vars
    BY <1>11 DEF Ordered!vars, BusStop, envVars, ctrlVars, timeVars, rxVars, staVars, indVars
  <2> QED BY <2>1, <2>2 DEF OrderedStep
<1>12. CASE BusStart
  <2>1. IndNumber'
    BY <1>12 DEF IndNumber, BusStart, envVars, ctrlVars, timeVars, rxVars, staVars, indVars
  <2>2. UNCHANGED Ordered!vars
    BY <1>12 DEF Ordered!vars, BusStart, envVars, ctrlVars, timeVars, rxVars, staVars, indVars
  <2> QED BY <2>1, <2>2 DEF OrderedStep
<1>13. ASSUME NEW n \in air, RxBypass(n) PROVE IndNumber' /\ OrderedStep
  <2>1. /\ UNCHANGED <<enable, dpc, ind_sn, out, list>>
        /\ up \subseteq up' /\ got \subseteq got'
    BY <1>13 DEF RxBypass, Receive, envVars, ctrlVars, timeVars, rxVars, staVars, indVars
  <2>2. IndNumber'
    BY <2>1 DEF IndNumber
  <2> QED BY <2>1, <2>2 DEF OrderedStep, Ordered!vars
<1>14. ASSUME NEW n \in air, RxFlushLookup(n) PROVE IndNumber' /\ OrderedStep
  <2>1. /\ UNCHANGED <<enable, dpc, ind_sn, out, list>>
        /\ up \subseteq up' /\ got \subseteq got'
    BY <1>14 DEF RxFlushLookup, Receive, envVars, ctrlVars, timeVars, rxVars, staVars, indVars
  <2>2. IndNumber'
    BY <2>1 DEF IndNumber
  <2> QED BY <2>1, <2>2 DEF OrderedStep, Ordered!vars
<1>15. ASSUME NEW n \in air, RxLookup(n) PROVE IndNumber' /\ OrderedStep
  <2>1. /\ UNCHANGED <<dpc, list, up>> /\ got \subseteq got'
        /\ ind_sn' = IF enable THEN ind_sn ELSE NoSn
        /\ out' = IF enable THEN out ELSE <<>>
    BY <1>15 DEF RxLookup, Receive, envVars, ctrlVars, timeVars, rxVars, staVars, indVars
  <2>2. IndNumber'
    <3>1. CASE enable
      BY <2>1, <3>1 DEF IndNumber
    <3>2. CASE ~enable
      BY <2>1, <3>2 DEF IndNumber
    <3> QED BY <3>1, <3>2
  <2>3. OrderedStep
    <3>1. CASE enable \/ dpc # "idle"
      BY <2>1, <3>1 DEF OrderedStep, Ordered!vars
    <3>2. CASE ~enable /\ dpc = "idle"
      <4>1. list = <<>> /\ ToSet(<<>>) = {}
        BY <1>1, <3>2, NoneRepeated DEF ListOnlyEnabled
      <4>2. Ordered!Restart
        BY <2>1, <3>2, <4>1 DEF Ordered!Restart
      <4> QED BY <4>2 DEF OrderedStep, Ordered!Next
    <3> QED BY <3>1, <3>2
  <2> QED BY <2>2, <2>3
<1>16. CASE RxLate
  <2>1. UNCHANGED <<dpc, list, out, enable, got>> /\ up \subseteq up'
    BY <1>16 DEF RxLate, envVars, ctrlVars, timeVars, rxVars, staVars, indVars
  <2>2. ind_sn # NoSn
    <3>1. PICK x \in SeqNos : x = Sn(hand)
      BY <1>1, SetupIs, SnType DEF TypeOK
    <3>2. ~SnLess(x, x)
      BY <1>1, SetupIs, LessOff, OffSame
    <3> QED BY <1>16, <3>1, <3>2 DEF RxLate, JudgedLate
  <2>3. ind_sn' = ind_sn
    BY <1>16, <2>2 DEF RxLate
  <2> QED BY <2>1, <2>3 DEF IndNumber, OrderedStep, Ordered!vars
<1>17. CASE RxFlush
  <2>1. dpc' = dpc /\ enable' = FALSE
    BY <1>17 DEF RxFlush, staVars
  <2>2. OrderedStep
    <3>1. CASE dpc = "idle"
      BY <1>17, <3>1, FlushReleases
    <3>2. CASE dpc # "idle"
      BY <2>1, <3>2 DEF OrderedStep, Ordered!vars
    <3> QED BY <3>1, <3>2
  <2> QED BY <2>1, <2>2 DEF IndNumber
<1>18. CASE RxEnqueue
  <2>1. dpc' = dpc
    BY <1>18 DEF RxEnqueue, staVars
  <2>2. CASE dpc = "idle"
    BY <1>1, <1>18, <2>2, EnqueueNumbers
  <2>3. CASE dpc # "idle"
    BY <2>1, <2>3 DEF IndNumber, OrderedStep, Ordered!vars
  <2> QED BY <2>2, <2>3
<1>19. CASE WorkRun
  <2>1. dpc' = dpc
    BY <1>19 DEF WorkRun, staVars
  <2>2. CASE dpc = "idle"
    BY <1>1, <1>19, <2>2, WorkNumbers
  <2>3. CASE dpc # "idle"
    BY <2>1, <2>3 DEF IndNumber, OrderedStep, Ordered!vars
  <2> QED BY <2>2, <2>3
<1>20. CASE DeinitTimer
  <2>1. dpc' # "idle"
    BY <1>20 DEF DeinitTimer
  <2>2. Ordered!Restart
    BY <2>1 DEF Ordered!Restart
  <2> QED BY <2>1, <2>2 DEF IndNumber, OrderedStep, Ordered!Next
<1>21. CASE DeinitFree
  <2>1. dpc # "idle" /\ enable' = FALSE /\ out' = <<>> /\ list' = <<>>
    BY <1>21 DEF DeinitFree
  <2>2. UNCHANGED Ordered!vars
    BY <2>1, NoneRepeated DEF Ordered!vars
  <2> QED BY <2>1, <2>2 DEF IndNumber, OrderedStep
<1> QED
  BY <1>2, <1>3, <1>4, <1>5, <1>6, <1>7, <1>8, <1>9, <1>10, <1>11, <1>12, <1>13, <1>14, <1>15, <1>16, <1>17, <1>18, <1>19, <1>20, <1>21
  DEF Next, RxStep, WorkStep, DeinitStep

(* Max of the numbers received.                                            *)
LEMMA TopIs ==
    ASSUME RxInv
    PROVE  Top \in Int /\ \A x \in got : x <= Top
<1>1. First \in Int /\ sent \in Int /\ got \subseteq First .. sent - 1 /\ First <= sent
  BY SnAssumption DEF RxInv, FramesCounted, TypeOK
<1>2. PICK S : S = got \cup {First - 1}
  OBVIOUS
<1>3. S \subseteq (First - 1) .. (sent - 1) /\ First - 1 \in S
  BY <1>1, <1>2
<1> DEFINE T == {d \in Nat : \E x \in S : d = sent - 1 - x}
<1>4. T \in SUBSET Nat /\ T # {}
  <2>1. sent - 1 - (First - 1) \in Nat
    BY <1>1
  <2> QED BY <1>3, <2>1
<1>5. PICK d \in T : \A e \in T : d <= e
  <2> HIDE DEF T
  <2> QED BY <1>4, Least
<1>6. PICK x \in S : d = sent - 1 - x
  OBVIOUS
<1>7. \A y \in S : x >= y
  <2>1. SUFFICES ASSUME NEW y \in S PROVE x >= y
    OBVIOUS
  <2>2. x \in Int /\ y \in Int /\ y <= sent - 1
    BY <1>3
  <2>3. sent - 1 - y \in T
    BY <1>1, <2>2
  <2>4. d <= sent - 1 - y
    BY <1>5, <2>3
  <2> QED BY <1>1, <1>6, <2>2, <2>4
<1>8. Max(S) \in S /\ \A y \in S : Max(S) >= y
  BY <1>7 DEF Max
<1>9. \A y \in S : y <= Max(S)
  BY <1>3, <1>8
<1>10. Max(S) \in Int
  <2>1. PICK z \in S : z = Max(S)
    BY <1>8
  <2>2. z \in Int
    BY <1>1, <1>3
  <2> QED BY <2>1, <2>2
<1> QED BY <1>2, <1>9, <1>10 DEF Top

(* A frame behind ind_sn is behind a frame that was received, and one with *)
(* the number of a frame on the list is that frame.                        *)
LEMMA LateStep ==
    ASSUME HalfSpace, RxInv, IndNumber
    PROVE  PassedOrTwice
<1>1. /\ NothingLost /\ setup \in Setups /\ list \in Seq(Numbers) /\ hand \in Numbers
  BY DEF RxInv, TypeOK
<1>2. Half > 1 /\ Half # 0 /\ Numbers \subseteq Int /\ hand \in Int /\ Half \in Nat /\ list \in Seq(Int)
  BY <1>1, SetupIs, SeqOfInts
<1>3. ASSUME RxLate, dpc = "idle" PROVE hand < Top \/ hand \in up \cup dropped
  <2>1. enable /\ rpc # "idle"
    BY <1>3 DEF RxLate
  <2>2. PICK n \in Ends : Stands(n)
    BY <1>2, <1>3, <2>1, StandsFor
  <2>3. SnLess(Sn(hand), Sn(n))
    BY <1>3, <2>2 DEF RxLate, JudgedLate, Stands
  <2>4. hand < n /\ n \in Int
    <3>1. PICK a \in SeqNos, x \in SeqNos : a = Sn(n) /\ x = Sn(hand)
      BY <1>2, EndsClose, SnType
    <3>2. Off(a, x) < 0
      BY <1>2, <2>3, <3>1, LessOff
    <3>3. Off(Sn(n), Sn(hand)) = hand - n /\ n \in Int
      BY <1>1, <1>2, EndsClose
    <3> QED BY <1>2, <3>1, <3>2, <3>3
  <2>5. up \subseteq got /\ got \subseteq Numbers
    BY <1>1 DEF NothingLost, RxInv, TypeOK
  <2>6. Top \in Int
    BY TopIs
  <2>7. CASE n - 1 \in up
    <3>1. n - 1 <= Top
      BY <2>5, <2>7, TopIs
    <3> QED BY <1>2, <2>4, <2>6, <2>7, <3>1
  <2>8. CASE \E m \in got : n <= m
    <3>1. PICK m \in got : n <= m /\ m <= Top /\ m \in Int
      BY <1>2, <2>5, <2>8, TopIs
    <3> QED BY <1>2, <2>4, <2>6, <3>1
  <2> QED BY <2>2, <2>7, <2>8 DEF Stands
<1>4. ASSUME RxEnqueue, dropped' # dropped PROVE hand \in dups
  <2>1. IsDuplicate(list, hand) /\ rpc # "idle"
    BY <1>4 DEF RxEnqueue
  <2>2. PICK l \in Seq(Int), y \in Int : l = list /\ y = hand
    BY <1>2
  <2>10. IsDuplicate(l, y)
    BY <2>1, <2>2
  <2>3. PICK i \in 1..Len(list) : Sn(list[i]) = Sn(hand)
    BY <2>2, <2>10, DuplicateAt
  <2>4. Sn(list[i]) = Sn(hand)
    BY <2>3
  <2>5. PICK x \in Numbers : x = list[i]
    BY <1>1, <2>3
  <2>6. Off(Sn(hand), Sn(x)) = x - hand /\ x \in Int
    BY <1>1, <1>2, EndsClose
  <2>7. Off(Sn(hand), Sn(hand)) = 0
    BY <1>2, SnType, OffSame
  <2>8. x = hand
    BY <1>2, <2>4, <2>5, <2>6, <2>7
  <2>9. hand \in ToSet(list)
    <3>1. DOMAIN list = 1..Len(list) /\ ToSet(list) = {list[j] : j \in DOMAIN list}
      BY <1>2 DEF ToSet
    <3>2. list[i] \in ToSet(list)
      BY <2>3, <3>1
    <3>3. list[i] = hand
      BY <2>5, <2>8
    <3> QED BY <3>2, <3>3
  <2> QED BY <1>1, <2>1, <2>9 DEF NothingLost
<1> QED BY <1>3, <1>4 DEF PassedOrTwice

(* The reordering implements OrderedRelease (ReleasesInOrder), when the    *)
(* frames of a behaviour span at most half of the sequence space.          *)
THEOREM SpecReleasesInOrder ==
    ASSUME 2 * MaxFrames <= SnMod
    PROVE  MCSpec => ReleasesInOrder
<1>1. HalfSpace
  BY SnAssumption DEF HalfSpace, Half
<1>2. Init => IndNumber /\ Ordered!Init
  <2> SUFFICES ASSUME Init PROVE IndNumber /\ Ordered!Init
    OBVIOUS
  <2>1. ToSet(<<>>) = {}
    BY DEF ToSet
  <2> QED BY <2>1 DEF Init, IndNumber, Ordered!Init
<1>3. RxInv /\ IndNumber /\ [Next]_vars => IndNumber' /\ [Ordered!Next]_(Ordered!vars)
  <2>1. RxInv /\ IndNumber /\ Next => IndNumber' /\ [Ordered!Next]_(Ordered!vars)
    BY <1>1, NextNumbers DEF OrderedStep
  <2>2. IndNumber /\ UNCHANGED vars => IndNumber' /\ UNCHANGED Ordered!vars
    BY DEF vars, envVars, ctrlVars, timeVars, rxVars, staVars, indVars, IndNumber, Ordered!vars
  <2> QED BY <2>1, <2>2
<1> QED BY <1>2, <1>3, SpecRxInv, PTL DEF MCSpec, Spec, ReleasesInOrder, Ordered!Spec

(* Then a frame taken for a late one was passed or went up before, and one *)
(* dropped as a duplicate was received twice (LateWasPassed).              *)
THEOREM SpecLateWasPassed ==
    ASSUME 2 * MaxFrames <= SnMod
    PROVE  MCSpec => LateWasPassed
<1>1. HalfSpace
  BY SnAssumption DEF HalfSpace, Half
<1>2. Init => IndNumber
  BY DEF Init, IndNumber
<1>3. RxInv /\ IndNumber /\ [Next]_vars => IndNumber'
  <2>1. RxInv /\ IndNumber /\ Next => IndNumber'
    BY <1>1, NextNumbers
  <2>2. IndNumber /\ UNCHANGED vars => IndNumber'
    BY DEF vars, envVars, ctrlVars, timeVars, rxVars, staVars, indVars, IndNumber
  <2> QED BY <2>1, <2>2
<1>4. RxInv /\ IndNumber => PassedOrTwice
  BY <1>1, LateStep
<1> QED BY <1>2, <1>3, <1>4, SpecRxInv, PTL DEF MCSpec, Spec, LateWasPassed

-----------------------------------------------------------------------------
(* What a buffer that implements OrderedRelease promises: frames leave it  *)
(* in the order in which they were sent.                                   *)

(* The abstract buffer.                                                    *)
BufferHeld == IF dpc = "idle" THEN ToSet(list) ELSE {}
BufferOut == IF dpc = "idle" THEN out ELSE <<>>

(* What is held is ahead of everything that left: without it a release     *)
(* could put a frame behind a later one.                                   *)
OrderInv ==
    /\ BufferHeld \subseteq Int /\ BufferOut \in Seq(Int)
    /\ Ordered!InOrder /\ Ordered!HeldAhead

(* A sequence of frames appended in order behind lower ones is in order.   *)
LEMMA AppendIncreasing ==
    ASSUME NEW s \in Seq(Int), NEW t \in Seq(Int),
           Ordered!Increasing(s), Ordered!Increasing(t), Ordered!Below(Ordered!Elements(s), Ordered!Elements(t))
    PROVE  Ordered!Increasing(s \o t)
<1> SUFFICES ASSUME NEW i \in DOMAIN (s \o t), NEW j \in DOMAIN (s \o t), i < j
             PROVE  (s \o t)[i] < (s \o t)[j]
    BY DEF Ordered!Increasing
<1>1. CASE j <= Len(s)
    BY <1>1 DEF Ordered!Increasing
<1>2. CASE i <= Len(s) /\ j > Len(s)
  <2>1. (s \o t)[i] = s[i] /\ i \in DOMAIN s
      BY <1>2
  <2>2. (s \o t)[j] = t[j - Len(s)] /\ j - Len(s) \in DOMAIN t
      BY <1>2
  <2> QED BY <2>1, <2>2 DEF Ordered!Below, Ordered!Elements
<1>3. CASE i > Len(s)
  <2>1. (s \o t)[i] = t[i - Len(s)] /\ i - Len(s) \in DOMAIN t
      BY <1>3
  <2>2. (s \o t)[j] = t[j - Len(s)] /\ j - Len(s) \in DOMAIN t
      BY <1>3
  <2>3. i - Len(s) < j - Len(s)
      BY <1>3
  <2> QED BY <2>1, <2>2, <2>3 DEF Ordered!Increasing
<1> QED BY <1>1, <1>2, <1>3

(* The frames of a concatenation are the frames of its parts.              *)
LEMMA AppendElements ==
    ASSUME NEW s \in Seq(Int), NEW t \in Seq(Int), NEW x \in Ordered!Elements(s \o t)
    PROVE  x \in Ordered!Elements(s) \cup Ordered!Elements(t)
<1>1. PICK i \in DOMAIN (s \o t) : x = (s \o t)[i]
    BY DEF Ordered!Elements
<1>2. CASE i <= Len(s)
    BY <1>1, <1>2 DEF Ordered!Elements
<1>3. CASE i > Len(s)
  <2>1. x = t[i - Len(s)] /\ i - Len(s) \in DOMAIN t
      BY <1>1, <1>3
  <2> QED BY <2>1 DEF Ordered!Elements
<1> QED BY <1>2, <1>3

(* A release from a pool that is ahead of everything that left keeps all   *)
(* of the invariant.                                                       *)
LEMMA ReleaseKeeps ==
    ASSUME OrderInv, NEW pool, pool \subseteq Int, Ordered!Below(Ordered!Elements(BufferOut), pool),
           Ordered!Release(pool)
    PROVE  OrderInv'
<1>1. PICK o, p, h : o = BufferOut /\ p = BufferOut' /\ h = BufferHeld'
    OBVIOUS
<1>2. PICK new : new = SubSeq(p, Len(o) + 1, Len(p))
    OBVIOUS
<1>3. /\ p = o \o new /\ Ordered!Increasing(new) /\ new \in Seq(pool)
      /\ h = pool \ Ordered!Elements(new) /\ Ordered!Below(Ordered!Elements(new), h)
    BY <1>1, <1>2 DEF Ordered!Release, BufferOut, BufferHeld
<1>4. o \in Seq(Int) /\ Ordered!Increasing(o) /\ Ordered!Below(Ordered!Elements(o), pool)
    BY <1>1 DEF OrderInv, Ordered!InOrder, BufferOut
<1>5. new \in Seq(Int) /\ Ordered!Elements(new) \subseteq pool
  <2>1. Len(new) \in Nat /\ DOMAIN new = 1 .. Len(new)
      BY <1>3
  <2>2. \A i \in DOMAIN new : new[i] \in pool
      BY <1>3
  <2>3. new = [i \in 1 .. Len(new) |-> new[i]]
      BY <1>3, <2>1
  <2>4. \A i \in 1 .. Len(new) : new[i] \in Int
      BY <2>1, <2>2
  <2> QED BY <2>1, <2>2, <2>3, <2>4 DEF Ordered!Elements
<1>6. h \subseteq Int /\ p \in Seq(Int)
  <2>1. h \subseteq Int
      BY <1>3
  <2>2. p \in Seq(Int)
      BY <1>3, <1>4, <1>5
  <2> QED BY <2>1, <2>2
<1>7. Ordered!Below(Ordered!Elements(o), Ordered!Elements(new))
    BY <1>4, <1>5 DEF Ordered!Below
<1>8. Ordered!Increasing(p)
    BY <1>3, <1>4, <1>5, <1>7, AppendIncreasing
<1>9. Ordered!Below(Ordered!Elements(p), h)
  <2> SUFFICES ASSUME NEW a \in Ordered!Elements(p), NEW b \in h
               PROVE  a < b
      BY DEF Ordered!Below
  <2>1. a \in Ordered!Elements(o) \cup Ordered!Elements(new)
      BY <1>3, <1>4, <1>5, AppendElements
  <2> QED BY <1>3, <1>4, <2>1 DEF Ordered!Below
<1>10. Ordered!InOrder'
    BY <1>1, <1>8 DEF Ordered!InOrder, Ordered!Increasing, BufferOut
<1>11. Ordered!HeldAhead'
    BY <1>1, <1>9 DEF Ordered!HeldAhead, Ordered!Below, Ordered!Elements, BufferOut, BufferHeld
<1> QED BY <1>1, <1>6, <1>10, <1>11 DEF OrderInv

(* Frames leave the abstract buffer in order, and whatever is held can     *)
(* still do so.                                                            *)
LEMMA BufferInOrder == Ordered!Spec => [](Ordered!InOrder /\ Ordered!HeldAhead)
<1>1. Ordered!Init => OrderInv
  <2> SUFFICES ASSUME Ordered!Init PROVE OrderInv
      OBVIOUS
  <2>1. BufferHeld = {} /\ BufferOut = <<>>
      BY DEF Ordered!Init, BufferHeld, BufferOut
  <2>2. Ordered!InOrder
      BY <2>1 DEF Ordered!InOrder, Ordered!Increasing, BufferOut
  <2>3. Ordered!HeldAhead
      BY <2>1 DEF Ordered!HeldAhead, Ordered!Below, BufferHeld
  <2> QED BY <2>1, <2>2, <2>3 DEF OrderInv
<1>2. OrderInv /\ [Ordered!Next]_(Ordered!vars) => OrderInv'
  <2> SUFFICES ASSUME OrderInv, [Ordered!Next]_(Ordered!vars) PROVE OrderInv'
      OBVIOUS
  <2>1. BufferHeld \subseteq Int /\ Ordered!Below(Ordered!Elements(BufferOut), BufferHeld)
      BY DEF OrderInv, Ordered!HeldAhead, BufferHeld, BufferOut
  <2>2. ASSUME NEW n \in First .. First + MaxFrames - 1, Ordered!Accept(n) PROVE OrderInv'
    <3>1. PICK pool : pool = BufferHeld \cup {n}
        OBVIOUS
    <3>2. Ordered!Below(Ordered!Elements(BufferOut), {n}) /\ Ordered!Release(pool)
        BY <2>2, <3>1 DEF Ordered!Accept, BufferHeld, BufferOut
    <3>3. pool \subseteq Int /\ Ordered!Below(Ordered!Elements(BufferOut), pool)
        BY <2>1, <3>1, <3>2, SnAssumption DEF Ordered!Below
    <3> QED BY <3>2, <3>3, ReleaseKeeps
  <2>3. ASSUME Ordered!Release(BufferHeld) PROVE OrderInv'
    <3>1. PICK pool : pool = BufferHeld
        OBVIOUS
    <3> QED BY <2>1, <2>3, <3>1, ReleaseKeeps
  <2>4. CASE Ordered!Restart
    <3>1. BufferHeld' = {} /\ BufferOut' = <<>>
        BY <2>4 DEF Ordered!Restart, BufferHeld, BufferOut
    <3>2. Ordered!InOrder'
        BY <3>1 DEF Ordered!InOrder, Ordered!Increasing, BufferOut
    <3>3. Ordered!HeldAhead'
        BY <3>1 DEF Ordered!HeldAhead, Ordered!Below, BufferHeld
    <3> QED BY <3>1, <3>2, <3>3 DEF OrderInv
  <2>5. CASE UNCHANGED Ordered!vars
    <3>1. BufferHeld' = BufferHeld /\ BufferOut' = BufferOut
        BY <2>5 DEF Ordered!vars, BufferHeld, BufferOut
    <3>2. Ordered!InOrder'
        BY <3>1 DEF OrderInv, Ordered!InOrder, Ordered!Increasing, BufferOut
    <3>3. Ordered!HeldAhead'
        BY <2>1, <3>1 DEF Ordered!HeldAhead, Ordered!Below, Ordered!Elements, BufferHeld, BufferOut
    <3> QED BY <3>1, <3>2, <3>3 DEF OrderInv
  <2> QED BY <2>2, <2>3, <2>4, <2>5 DEF Ordered!Next, BufferHeld
<1>3. OrderInv => Ordered!InOrder /\ Ordered!HeldAhead
    BY DEF OrderInv
<1> QED BY <1>1, <1>2, <1>3, PTL DEF Ordered!Spec

(* So the frames of a session go up in the order in which they were sent,  *)
(* and those on the list are ahead of all that went up.                    *)
THEOREM SpecInOrder ==
    ASSUME 2 * MaxFrames <= SnMod
    PROVE  MCSpec => [](Ordered!InOrder /\ Ordered!HeldAhead)
BY BufferInOrder, SpecReleasesInOrder, PTL DEF ReleasesInOrder
=============================================================================
