---------------------------- MODULE PriDetector ----------------------------
(***************************************************************************)
(* The DFS pattern detector of rwnx_radar.c: what decides that the pulses  *)
(* the firmware reports are a radar.  One pattern detector (one chain)     *)
(* holds, for each radar type of the regulatory domain, a list of PRI      *)
(* detectors, one per frequency; a PRI detector keeps the pulses of its    *)
(* window, newest first, and the candidate sequences found in them.        *)
(*                                                                         *)
(* Time stamps are kept in units coarser than a microsecond and the tables *)
(* of radar types (rwnx_radar.c 100-230) are the constant Domains.  The    *)
(* list of sequences of a detector is a set here: the code asks of it only *)
(* whether a member qualifies and what the largest count is.               *)
(***************************************************************************)
EXTENDS Integers, FiniteSets, FiniteSetsExt, Sequences, SequencesExt

CONSTANTS
  Domains,       \* region -> sequence of radar types
  Freqs,         \* the frequencies pulses are reported at
  Widths,        \* the pulse widths reported
  Deltas,        \* intervals between pulses (u16 pri, never 0 here)
  Jumps,         \* time that passes when the interval counter overflowed
  LongDuration, LongBurstMin, LongMaxBurst,   \* LONG_RADAR_*, lines 736-738
  WeatherScan,   \* 19000000 / 360 in line 552
  MaxTime        \* bound: time stamp at which no more pulses arrive

VARIABLES
  region,        \* dpd->region, "unset" or a member of DOMAIN Domains
  dets,          \* radar type -> its PRI detectors, in list order
  now,           \* dpd->last_pulse_ts
  last           \* ghost: what the last pulse led to

vars == <<region, dets, now, last>>

Types == IF region = "unset" THEN <<>> ELSE Domains[region]
Quiet == [alarm |-> FALSE]

(* What rwnx_radar.c 658-663 and 747-752 compute from a radar type.        *)
Window(rs) == IF rs.type = "long" THEN LongDuration
              ELSE rs.pri_max * rs.ppb * rs.num_pri
MaxCount(rs) == IF rs.type = "long" THEN LongMaxBurst ELSE rs.ppb * 2

-----------------------------------------------------------------------------
(***************************** The pulse queue *****************************)

(* Newest pulse first; pulses older than the window leave, and the oldest  *)
(* one when the queue is full.                                             *)
InWindow(q, newest, size) ==
  IF Len(q) < 2 \/ newest <= size THEN q
  ELSE SelectSeq(q, LAMBDA t : t >= newest - size)

Bounded(q, max) == IF Len(q) >= max THEN Front(q) ELSE q

Enqueue(pde, rs, ts) ==
  [pde EXCEPT !.pulses = Bounded(InWindow(<<ts>> \o @, ts, Window(rs)), MaxCount(rs)),
              !.last_ts = ts,
              !.hist = @ \cup {ts}]

(* pri_detector_reset: the pulses and the sequences go back to the pools.  *)
Reset(pde, ts) ==
  [pde EXCEPT !.pulses = <<>>, !.seqs = {}, !.last_ts = ts, !.hist = {}]

(* pri_detector_init *)
NewDetector(freq) ==
  [freq |-> freq, pulses |-> <<>>, seqs |-> {}, last_ts |-> 0, hist |-> {}]

-----------------------------------------------------------------------------
(******************************* Short radars ******************************)

(* The multiple of fraction that val is within tolerance of, 0 if none.    *)
pde_get_multipleNarrow(val, fraction, tolerance) ==
  IF fraction > 0 /\ val % fraction = 0 THEN val \div fraction ELSE 0

pde_get_multiple(val, fraction, tolerance) ==
  LET factor == val \div fraction
      remainder == val % fraction
      delta == IF val < fraction THEN fraction - val ELSE val - fraction
  IN CASE fraction = 0 -> 0
       [] delta <= tolerance -> 1
       [] remainder <= tolerance -> factor
       [] fraction - remainder <= tolerance -> factor + 1
       [] OTHER -> 0

PPB_THRESH(ppb) == (ppb * 50 + 50) \div 100

Threshold(rs, pri) ==
  IF rs.type = "weather" THEN PPB_THRESH(WeatherScan \div pri) ELSE rs.ppb_thresh

(* The sequence that the pulse ts and the i-th pulse of the queue start:   *)
(* every older pulse of its duration at a multiple of their distance       *)
(* belongs to it, and what lies between members is a false pulse.          *)
SequenceFrom(q, i, ts, rs) ==
  LET pri == ts - q[i]
      dur == pri * (rs.ppb - 1) + 2 * rs.tolerance
      older == {j \in (i + 1)..Len(q) : q[j] >= ts - dur}
      member == {j \in older : pde_get_multiple(ts - q[j], pri, rs.tolerance) > 0}
      first == IF member = {} THEN i ELSE Max(member)
  IN [pri |-> pri, dur |-> dur, count |-> 2 + Cardinality(member),
      count_falses |-> (i - 1) + Cardinality({j \in older \ member : j < first}),
      first_ts |-> q[first], last_ts |-> ts, deadline_ts |-> q[first] + dur,
      ppb_thresh |-> Threshold(rs, pri)]

pde_short_create_sequences(pde, rs, ts, min_count) ==
  {s \in {SequenceFrom(pde.pulses, i, ts, rs) :
            i \in {j \in 1..Len(pde.pulses) :
                     ts - pde.pulses[j] \in rs.pri_min..rs.pri_max}} :
     s.count > min_count}

(* Sequences past their deadline go; the others count ts as a member or as *)
(* a false pulse.                                                          *)
Follows(s, rs, ts) == pde_get_multiple(ts - s.last_ts, s.pri, rs.tolerance) > 0

pde_short_add_to_existing_seqs(pde, rs, ts) ==
  {IF Follows(s, rs, ts) THEN [s EXCEPT !.last_ts = ts, !.count = @ + 1]
   ELSE [s EXCEPT !.count_falses = @ + 1] :
     s \in {t \in pde.seqs : ts <= t.deadline_ts}}

max_updated_seq(pde, rs, ts) ==
  Max({0} \cup {s.count + 1 : s \in {t \in pde.seqs :
                                 ts <= t.deadline_ts /\ Follows(t, rs, ts)}})

Qualifies(s, rs) ==
  /\ s.count >= s.ppb_thresh
  /\ s.count * rs.num_pri > s.count_falses

(* pde_short_add_pulse.  Each outcome is a detector and whether it raises   *)
(* the alarm.  A sequence that cannot be allocated resets the detector; the *)
(* pool is assumed to have room for a pulse (pulse_queue_enqueue reports a  *)
(* failure, 410-430, which its callers ignore).                            *)
Silent(pde) == [pde |-> pde, alarm |-> FALSE]

ShortAddPulse(pde, rs, ts) ==
  LET created == pde_short_create_sequences(pde, rs, ts, max_updated_seq(pde, rs, ts))
      next == [pde EXCEPT !.seqs = pde_short_add_to_existing_seqs(pde, rs, ts) \cup created]
      Kept(d) == {Silent(Enqueue(d, rs, ts))}
  IN IF pde.pulses = <<>> THEN Kept(pde)
     ELSE IF ts - pde.last_ts < rs.tolerance THEN {Silent(pde)}
     ELSE (IF created # {} THEN {Silent(Reset(pde, ts))} ELSE {}) \cup
          (IF \E s \in next.seqs : Qualifies(s, rs) THEN {[pde |-> next, alarm |-> TRUE]}
           ELSE Kept(next))

-----------------------------------------------------------------------------
(******************************** Long radars ******************************)

(* The one sequence of a long detector counts bursts; count_falses counts  *)
(* the pulses of the current burst and dur holds the gap before it.        *)
FirstBurst(ts) ==
  [pri |-> 0, dur |-> 0, count |-> 1, count_falses |-> 1,
   first_ts |-> ts, last_ts |-> ts, deadline_ts |-> ts + LongDuration]

(* The queue and the sequence once the bursts out of the window are gone:  *)
(* lines 825-839.                                                          *)
TrimKeepsCount(q, s, ts) ==
  LET kept == SelectSeq(q, LAMBDA t : t >= ts - LongDuration)
  IN IF ts <= s.deadline_ts THEN [q |-> q, s |-> s]
     ELSE [q |-> kept,
           s |-> IF kept = <<>> THEN s
                 ELSE [s EXCEPT !.first_ts = Last(kept),
                                !.deadline_ts = Last(kept) + LongDuration]]

Trim(q, s, ts) ==
  LET kept == SelectSeq(q, LAMBDA t : t >= ts - LongDuration)
      counted == [s EXCEPT !.count = @ - (Len(q) - Len(kept))]
  IN IF ts <= s.deadline_ts THEN [q |-> q, s |-> s]
     ELSE [q |-> kept,
           s |-> IF kept = <<>> THEN counted
                 ELSE [counted EXCEPT !.first_ts = Last(kept),
                                      !.deadline_ts = Last(kept) + LongDuration]]

(* pde_long_add_pulse *)
LongAddPulse(pde, rs, ts) ==
  IF pde.seqs = {}
  THEN {Silent(pde),
        Silent(Enqueue([pde EXCEPT !.seqs = {FirstBurst(ts)}], rs, ts))}
  ELSE
    LET old == CHOOSE s \in pde.seqs : TRUE
        delta == ts - old.last_ts
        seen == [old EXCEPT !.last_ts = ts]
        new == Trim(pde.pulses, [seen EXCEPT !.count = @ + 1, !.count_falses = 1], ts)
        With(s) == [pde EXCEPT !.seqs = {s}]
        burst == [With([new.s EXCEPT !.dur = delta]) EXCEPT !.pulses = new.q]
    IN CASE delta < rs.pri_max -> {Silent(With(seen))}
         [] delta = rs.pri_max -> {Silent(With([seen EXCEPT !.count_falses = @ + 1]))}
         [] delta > rs.pri_max /\ old.count > 2 /\ old.dur + delta < LongBurstMin
              -> {Silent(With(seen))}
         [] OTHER ->
              IF new.s.count > rs.ppb_thresh /\ ts - new.s.first_ts > LongDuration \div 2
              THEN {[pde |-> burst, alarm |-> TRUE]}
              ELSE {Silent(Enqueue(burst, rs, ts))}

-----------------------------------------------------------------------------
(**************************** Pattern detector *****************************)

AddPulse(pde, rs, ts) ==
  IF rs.type = "long" THEN LongAddPulse(pde, rs, ts) ELSE ShortAddPulse(pde, rs, ts)

(* pri_detector_get: the place in the list of the detector that takes a    *)
(* pulse at freq, or 0 when a new one is put at its head.                  *)
Busy(pde) == pde.pulses # <<>>
pri_detector_get(list, freq) ==
  LET hit == {i \in 1..Len(list) : Busy(list[i]) /\ list[i].freq \in {freq - 2, freq, freq + 2}}
      cur == {i \in 1..Len(list) : list[i].freq = freq}
  IN IF hit # {} THEN Min(hit) ELSE IF cur # {} THEN Max(cur) ELSE 0

Obtained(list, freq) ==
  IF pri_detector_get(list, freq) = 0 THEN <<NewDetector(freq)>> \o list ELSE list

ResetAll(d, ts) == [i \in DOMAIN d |-> [k \in DOMAIN d[i] |-> Reset(d[i][k], ts)]]

(* dfs_pattern_detector_pri_overflow leaves the long detectors alone.      *)
PriOverflow(d, ts) ==
  [i \in DOMAIN d |-> IF Types[i].type = "long" THEN d[i]
                      ELSE [k \in DOMAIN d[i] |-> Reset(d[i][k], ts)]]

(* The loop over the radar types, from type i on: every outcome.  The      *)
(* first type that raises the alarm ends it and resets every detector.     *)
RECURSIVE OverTypes(_, _, _, _, _)
OverTypes(d, i, freq, width, ts) ==
  IF i > Len(Types) THEN {[dets |-> d, now |-> ts, last |-> Quiet]}
  ELSE IF width \notin Types[i].width_min..Types[i].width_max
  THEN OverTypes(d, i + 1, freq, width, ts)
  ELSE LET list == Obtained(d[i], freq)
           k == pri_detector_get(list, freq)
       IN UNION {
            LET put == [d EXCEPT ![i] = [list EXCEPT ![k] = o.pde]]
            IN IF o.alarm
               THEN {[dets |-> ResetAll(put, ts), now |-> 0,
                      last |-> [alarm |-> TRUE, type |-> i, ts |-> ts,
                                hist |-> list[k].hist \cup {ts}]]}
               ELSE OverTypes(put, i + 1, freq, width, ts) :
            o \in AddPulse(list[k], Types[i], ts)}

(* dfs_pattern_detector_add_pulse, for an interval counted by the hardware *)
(* and for one that overflowed (pri = 0).                                  *)
Pulse ==
  /\ region # "unset"
  /\ \E dt \in Deltas, f \in Freqs, w \in Widths :
       /\ now + dt <= MaxTime
       /\ \E o \in OverTypes(dets, 1, f, w, now + dt) :
            dets' = o.dets /\ now' = o.now /\ last' = o.last
  /\ UNCHANGED region

OverflowPulse ==
  /\ region # "unset"
  /\ \E dt \in Jumps, f \in Freqs, w \in Widths :
       /\ now + dt <= MaxTime
       /\ \E o \in OverTypes(PriOverflow(dets, now + dt), 1, f, w, now + dt) :
            dets' = o.dets /\ now' = o.now /\ last' = o.last
  /\ UNCHANGED region

(* Without a region every pulse is a radar; nothing is kept of it.         *)
UnsetPulse ==
  /\ region = "unset" /\ last # [alarm |-> TRUE, type |-> 0, ts |-> now, hist |-> {now}]
  /\ last' = [alarm |-> TRUE, type |-> 0, ts |-> now, hist |-> {now}]
  /\ UNCHANGED <<region, dets, now>>

(* dfs_pattern_detector_set_domain.  A region without radar types leaves   *)
(* the old detectors in place behind an unset region; another region frees *)
(* them.  The old types are gone from sight when the region is unset, and  *)
(* the lists of the types the new region does not have stay empty.         *)
Empty(r) == [i \in 1..Len(Domains[r]) |-> <<>>]

set_domain ==
  /\ \E r \in (DOMAIN Domains \cup {"none"}) \ {region} :
       IF r = "none" THEN region # "unset" /\ region' = "unset" /\ UNCHANGED dets
       ELSE region' = r /\ dets' = Empty(r)
  /\ last' = Quiet /\ UNCHANGED now

Init == region = "unset" /\ dets = <<>> /\ now = 0 /\ last = Quiet

Next == Pulse \/ OverflowPulse \/ UnsetPulse \/ set_domain

Spec == Init /\ [][Next]_vars

-----------------------------------------------------------------------------
(******************************** Properties *******************************)


(* A train: n pulses of S that end at ts, pri apart.                       *)
Train(ts, pri, n) == {ts - k * pri : k \in 0..(n - 1)}

(* A radar is found (rwnx_radar.c 683-714).  A detector never holds on to   *)
(* a burst: when enough of its pulses since the last reset are exactly one *)
(* interval apart and fewer strangers lie between them than the detector   *)
(* tolerates, the alarm was raised, however the queue was trimmed and      *)
(* whichever sequences were dropped or never created.                      *)
BurstFound ==
  region # "unset" =>
    \A i \in 1..Len(dets) : Types[i].type \notin {"long", "weather"} =>
      \A k \in 1..Len(dets[i]) :
        LET h == dets[i][k].hist
        IN \A ts \in h, pri \in Types[i].pri_min..Types[i].pri_max :
             LET n == Threshold(Types[i], pri)
                 train == Train(ts, pri, n)
             IN train \subseteq h =>
                  Cardinality({t \in h : t > Min(train) /\ t < ts} \ train)
                    >= n * Types[i].num_pri

(* No false alarm (629-648, 816-849).  A short radar is reported only when *)
(* the required number of pulses came since the last reset within one      *)
(* burst, a long one only when enough bursts came within one long-radar    *)
(* window and spread over more than half of it: the count of a sequence is *)
(* never fed by pulses or bursts that have left its window.                *)
AlarmBacked ==
  (last.alarm /\ last.type # 0) =>
    LET rs == Types[last.type]
        Since(d) == {t \in last.hist : t >= last.ts - d}
        Burst(pri) == pri * (rs.ppb - 1) + 2 * rs.tolerance
    IN IF rs.type = "long"
       THEN /\ Cardinality(Since(LongDuration)) > rs.ppb_thresh
            /\ last.ts - Min(Since(LongDuration)) > LongDuration \div 2
       ELSE \E pri \in rs.pri_min..rs.pri_max :
              Cardinality(Since(Burst(pri))) >= Threshold(rs, pri)
=============================================================================
