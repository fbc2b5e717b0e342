------------------------------- MODULE MCData -------------------------------
(* Three computations of the driver for TLC, one in each behaviour: the    *)
(* user configuration, the search for the pulse pattern of a radar, and    *)
(* the index of a receive rate.                                            *)
EXTENDS MCUserConfig

CONSTANTS
    Freqs, Widths, Deltas, Jumps, LongDuration, LongBurstMin, LongMaxBurst,
    WeatherScan, MaxTime        \* of PriDetector

VARIABLES
    which,                                  \* the part that runs
    region, dets, now, last,                \* of PriDetector
    modes, rate, idx, shown, again          \* of RateIdx

(* Small radar types: one of each waveform, on a coarse time scale.        *)
Short == [type |-> "short", width_min |-> 0, width_max |-> 0, pri_min |-> 3,
          pri_max |-> 4, num_pri |-> 1, ppb |-> 5, ppb_thresh |-> 3, tolerance |-> 1]
Interleaved == [Short EXCEPT !.type = "interleaved", !.pri_max = 5, !.num_pri = 2,
                             !.ppb = 6, !.ppb_thresh = 3]
Weather == [Short EXCEPT !.type = "weather", !.pri_min = 2]
Long == [type |-> "long", width_min |-> 1, width_max |-> 1, pri_min |-> 1,
         pri_max |-> 2, num_pri |-> 1, ppb |-> 4, ppb_thresh |-> 2, tolerance |-> 1]
MCDomains == [etsi |-> <<Short>>, jp |-> <<Interleaved>>, fcc |-> <<Weather>>, kcc |-> <<Long>>]

Pri == INSTANCE PriDetector WITH Domains <- MCDomains
Rates == INSTANCE RateIdx

priVars == <<region, dets, now, last>>
rateVars == <<modes, rate, idx, shown, again>>
allVars == <<which, configVars, priVars, rateVars>>

(* The parts that do not run stay in one of their initial states.          *)
MCInit ==
    /\ which \in {"config", "radar", "rate"}
    /\ ConfigInit /\ Pri!Init /\ Rates!Init
    /\ (which # "config" => product = CHOOSE p \in Products : TRUE)
    /\ (which # "rate" => modes = 0 /\ rate.mcs = 0 /\ rate.pre = 0)

MCNext ==
    /\ \/ /\ which = "config" /\ ConfigNext
          /\ UNCHANGED <<priVars, rateVars>>
       \/ /\ which = "radar" /\ Pri!Next
          /\ UNCHANGED <<configVars, rateVars>>
       \/ /\ which = "rate" /\ Rates!Next
          /\ UNCHANGED <<configVars, priVars>>
    /\ UNCHANGED which

MCSpec == MCInit /\ [][MCNext]_allVars

(* What the lines of the file say reaches the firmware, in the cell of its *)
(* name and with its sign, and the power reported is the largest one set.  *)
ConfigApplied == which = "config" => ConfigReachesFw /\ PowerReported

(* Radar detection: pulses at one interval raise the alarm, and an alarm   *)
(* has the pulses it takes.                                                *)
RadarFound == which = "radar" => Pri!BurstFound /\ Pri!AlarmBacked

(* A received rate is counted inside the table and shown as itself.        *)
RateShown == which = "rate" => Rates!RateAgrees
=============================================================================
