------------------------------- MODULE RateIdx -------------------------------
(***************************************************************************)
(* The index under which the rate of a received frame is counted.  It is   *)
(* computed from the receive vector by rwnx_rx_statistic (rwnx_rx.c),      *)
(* turned back into a rate when the rx_rate file is read (idx_to_rate_cfg  *)
(* and print_rate_from_cfg of rwnx_debugfs.c), and computed once more from *)
(* the rate word of the firmware by print_rate, whose index the user gives *)
(* back.  Three pieces of arithmetic over the same layout.                 *)
(*                                                                         *)
(* A rate is its format, spatial streams, MCS, bandwidth (for HE MU the    *)
(* size of the resource unit), guard interval and preamble.  The legacy    *)
(* rate codes 4 to 7 of the receive vector, which have no rate, are        *)
(* assumed not to come: rwnx_rx_statistic would count them below zero.     *)
(***************************************************************************)
EXTENDS Integers, FiniteSets

(* hal_desc.h:22-27 *)
N_CCK == 8
N_OFDM == 8
N_HT == 8 * 2 * 2 * 4
N_VHT == 10 * 4 * 2 * 8
N_HE_SU == 12 * 4 * 3 * 8
N_HE_MU == 12 * 6 * 3 * 8

BaseHT == N_CCK + N_OFDM
BaseVHT == BaseHT + N_HT
BaseHE == BaseVHT + N_VHT
BaseMU == BaseHE + N_HE_SU

VARIABLES
  modes,    \* ht_on, vht_on, he_on: how many of them, in this order
  rate,     \* the rate of the frame received
  idx,      \* rate_idx, or -1 before it is computed
  shown,    \* the rate printed for it
  again     \* the index print_rate gives for what is shown
vars == <<modes, rate, idx, shown, again>>

Rate(fmt, nss, mcs, bw, gi, pre) ==
  [fmt |-> fmt, nss |-> nss, mcs |-> mcs, bw |-> bw, gi |-> gi, pre |-> pre]

(* The rates a receive vector can name.                                    *)
Rates ==
  {Rate("leg", 0, mcs, 0, 0, pre) : mcs \in 0..3, pre \in 0..1} \cup
  {Rate("leg", 0, mcs, 0, 0, 0) : mcs \in 4..11} \cup
  {Rate("ht", nss, mcs, bw, gi, 0) : nss \in 0..3, mcs \in 0..7, bw \in 0..1, gi \in 0..1} \cup
  {Rate("vht", nss, mcs, bw, gi, 0) : nss \in 0..7, mcs \in 0..9, bw \in 0..3, gi \in 0..1} \cup
  {Rate("he_su", nss, mcs, bw, gi, 0) : nss \in 0..7, mcs \in 0..11, bw \in 0..3, gi \in 0..2} \cup
  {Rate("he_mu", nss, mcs, bw, gi, 0) : nss \in 0..7, mcs \in 0..11, bw \in 0..5, gi \in 0..2}

(* A station sends only what the interface has enabled.                    *)
Needs(r) == CASE r.fmt = "leg" -> 0 [] r.fmt = "ht" -> 1 [] r.fmt = "vht" -> 2
              [] OTHER -> 3

(* rwnx_rc_stat_work: the size of the table.                               *)
Size == BaseHT + (IF modes > 0 THEN N_HT ELSE 0) + (IF modes > 1 THEN N_VHT ELSE 0)
        + (IF modes > 2 THEN N_HE_SU + N_HE_MU ELSE 0)

(* rwnx_rx_statistic.  HT names the streams in the upper bits of its MCS.  *)
RateIdx(r) ==
  CASE r.fmt = "leg" -> IF r.mcs < 4 THEN r.mcs * 2 + r.pre ELSE N_CCK + r.mcs - 4
    [] r.fmt = "ht" -> LET mcs == r.nss * 8 + r.mcs IN
         BaseHT + (mcs \div 8) * 32 + (mcs % 8) * 4 + r.bw * 2 + r.gi
    [] r.fmt = "vht" -> BaseVHT + r.nss * 80 + r.mcs * 8 + r.bw * 2 + r.gi
    [] r.fmt = "he_su" -> BaseHE + r.nss * 144 + r.mcs * 12 + r.bw * 3 + r.gi
    [] r.fmt = "he_mu" -> BaseMU + r.nss * 216 + r.mcs * 18 + r.bw * 3 + r.gi

(* The rate word: seven bits of MCS index, of which the formats give three *)
(* or four to the MCS and the rest to the streams; two bits of bandwidth,  *)
(* two of guard interval and preamble.  ru_size is kept beside it.         *)
Word(fmt, mcsIndex, bw, gi, ru) ==
  [fmt |-> fmt, mcsIndex |-> mcsIndex % 128, bw |-> bw % 4, gi |-> gi % 4, ru |-> ru]
HtMcs(nss, mcs) == (nss % 4) * 8 + (mcs % 8)
VhtMcs(nss, mcs) == (nss % 8) * 16 + (mcs % 16)

(* Mutant: one divisor of the HE SU branch is that of VHT.                 *)
HeSuCfgAsVht(i) ==
  Word("he_su", VhtMcs(i \div 144, (i % 144) \div 12), ((i % 144) % 8) \div 3, i % 3, 0)

(* idx_to_rate_cfg, the HE SU branch.                                      *)
HeSuCfg(i) ==
  Word("he_su", VhtMcs(i \div 144, (i % 144) \div 12), ((i % 144) % 12) \div 3, i % 3, 0)

idx_to_rate_cfg(x) ==
  IF x < N_CCK THEN Word("leg", x \div 2, 0, (x % 2) * 2, 0)
  ELSE IF x < BaseHT THEN Word("leg", x - N_CCK + 4, 0, 0, 0)
  ELSE IF x < BaseVHT THEN LET i == x - BaseHT IN
    Word("ht", HtMcs(i \div 32, (i % 32) \div 4), ((i % 32) % 4) \div 2, i % 2, 0)
  ELSE IF x < BaseHE THEN LET i == x - BaseVHT IN
    Word("vht", VhtMcs(i \div 80, (i % 80) \div 8), ((i % 80) % 8) \div 2, i % 2, 0)
  ELSE IF x < BaseMU THEN HeSuCfg(x - BaseHE)
  ELSE LET i == x - BaseMU IN
    Word("he_mu", VhtMcs(i \div 216, (i % 216) \div 18), 0, i % 3, ((i % 216) % 18) \div 3)

(* print_rate_from_cfg: the fields of the word.                            *)
Printed(w) ==
  LET vht == w.fmt \in {"vht", "he_su", "he_mu"} IN
  Rate(w.fmt,
       IF w.fmt = "leg" THEN 0 ELSE IF vht THEN w.mcsIndex \div 16 ELSE (w.mcsIndex \div 8) % 4,
       IF w.fmt = "leg" THEN w.mcsIndex ELSE IF vht THEN w.mcsIndex % 16 ELSE w.mcsIndex % 8,
       IF w.fmt = "he_mu" THEN w.ru ELSE w.bw,
       IF w.fmt = "leg" THEN 0 ELSE w.gi,
       IF w.fmt = "leg" THEN w.gi \div 2 ELSE 0)

(* print_rate: the index it prints in front of the rate.                   *)
PrintedIdx(r) ==
  CASE r.fmt = "leg" -> IF r.mcs < 4 THEN r.mcs * 2 + r.pre ELSE N_CCK + (r.mcs - 4)
    [] r.fmt = "ht" -> BaseHT + r.nss * 32 + r.mcs * 4 + r.bw * 2 + r.gi
    [] r.fmt = "vht" -> BaseVHT + r.nss * 80 + r.mcs * 8 + r.bw * 2 + r.gi
    [] r.fmt = "he_su" -> BaseHE + r.nss * 144 + r.mcs * 12 + r.bw * 3 + r.gi
    [] r.fmt = "he_mu" -> BaseMU + r.nss * 216 + r.mcs * 18 + r.bw * 3 + r.gi

-----------------------------------------------------------------------------
Init ==
  /\ modes \in 0..3 /\ rate \in {r \in Rates : Needs(r) <= modes}
  /\ idx = -1 /\ shown = rate /\ again = -1

Count == idx = -1 /\ idx' = RateIdx(rate) /\ UNCHANGED <<modes, rate, shown, again>>

(* The file is read: every cell that is not zero is printed.               *)
Show ==
  /\ idx >= 0 /\ again = -1
  /\ shown' = Printed(idx_to_rate_cfg(idx)) /\ again' = PrintedIdx(shown')
  /\ UNCHANGED <<modes, rate, idx>>

Next == Count \/ Show
Spec == Init /\ [][Next]_vars

-----------------------------------------------------------------------------
(* A frame is counted inside the table, is shown as the rate it came with, *)
(* and the index printed with that rate is the one it was counted under.   *)
RateAgrees ==
  idx >= 0 => idx < Size /\ shown = rate /\ again \in {-1, idx}
=============================================================================
