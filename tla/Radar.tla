------------------------------- MODULE Radar -------------------------------
(***************************************************************************)
(* Radar detection around the channel availability check (CAC) of an       *)
(* access point: rwnx_radar.c 1258-1649 and its callers in rwnx_main.c and *)
(* rwnx_msg_rx.c.  The pattern detector itself is PriDetector.tla; here a  *)
(* pulse may or may not complete a pattern.                                *)
(*                                                                         *)
(* Four threads touch the state: cfg80211 operations ("cfg", one at a      *)
(* time), the detection work ("det"), the delayed CAC work ("cac") and the *)
(* receive thread, whose handlers are one step each.  A step is the code   *)
(* between two waits for a confirmation.  The timer of the CAC is assumed  *)
(* longer than a command.  Only the primary chain (RIU) is modelled; the   *)
(* other one never reports (line 1428).                                    *)
(***************************************************************************)
EXTENDS Integers, FiniteSets

CONSTANTS
  Ctx,        \* channel contexts, 0 .. NX_CHAN_CTXT_CNT - 1
  PulseMax,   \* RWNX_RADAR_PULSE_MAX
  MaxOps,     \* bound on the cfg80211 operations and connections
  Overlap     \* whether an operation may begin before cac_work has ended

Devs == {"ap", "sta"}
NotSet == 255                       \* RWNX_CH_NOT_SET

RadarAssumption ==
  /\ IsFiniteSet(Ctx) /\ Ctx \subseteq Nat /\ NotSet \notin Ctx
  /\ PulseMax \in Nat \ {0} /\ MaxOps \in Nat /\ Overlap \in BOOLEAN


VARIABLES
  chIndex,    \* vif->ch_index
  count,      \* chanctx_table[c].count
  chan,       \* chanctx_table[c].chan_def.chan: "none", "plain" or "dfs"
  cur,        \* rwnx_hw->cur_chanctx
  enabled,    \* dpd->enabled is RWNX_RADAR_DETECT_REPORT
  status,     \* radar->status
  staNum,     \* radar->sta_num
  cacVif,     \* radar->cac_vif is set (to the access point)
  cacDue,     \* the delayed work cac_work is queued
  ring,       \* radar->pulses[RIU].count
  detDue,     \* detection_work is queued
  cfg,        \* where the cfg80211 operation is: pc, and what it works on
  det, wrk,   \* where the detection work and the CAC work are
  cac, beacon, cleared,  \* cfg80211: CAC started, AP on, DFS channel usable
  alarm,      \* ghost: a radar was reported in this CAC
  ops

ctxVars == <<chIndex, count, chan>>
detVars == <<ring, detDue>>
cfgVars == <<cac, beacon, cleared>>
vars == <<chIndex, count, chan, cur, enabled, status, staNum, cacVif, cacDue, ring,
          detDue, cfg, det, wrk, cac, beacon, cleared, alarm, ops>>

(* A thread that waits is at a command; one that died is at "oops".        *)
Idle == [pc |-> "idle", c |-> NotSet, ch |-> "none", after |-> "idle"]
At(p) == [Idle EXCEPT !.pc = p]
After == {"idle", "apstop", "closeap", "closesta"}
CfgAt ==
  [pc : After \cup {"cancel", "oops"}, c : {NotSet}, ch : {"none"}, after : After]
    \cup [pc : {"cac", "ap"}, c : Ctx, ch : {"plain", "dfs"}, after : {"idle"}]

TypeOK ==
  /\ chIndex \in [Devs -> Ctx \cup {NotSet}] /\ cur \in Ctx \cup {NotSet}
  /\ count \in [Ctx -> Nat] /\ chan \in [Ctx -> {"none", "plain", "dfs"}]
  /\ cfg \in CfgAt /\ det \in {"idle", "found", "cancel", "oops"}
  /\ wrk \in {"idle", "stop", "oops"}
  /\ staNum \in {0, 1} /\ ring \in 0..PulseMax /\ ops \in 0..MaxOps
  /\ status \in {"idle", "cac_busy", "cac_done", "inservice_busy", "inservice_done"}

-----------------------------------------------------------------------------
(***************************** Channel contexts ****************************)

rwnx_chanctx_valid(c) == c \in Ctx /\ chan[c] # "none"

rwnx_chanctx_link(v, c, ch) ==
  /\ chIndex' = [chIndex EXCEPT ![v] = c]
  /\ count' = [count EXCEPT ![c] = @ + 1]
  /\ chan' = [chan EXCEPT ![c] = IF @ = "none" THEN ch ELSE @]

(* The last link frees the context and, on the current channel, turns the  *)
(* detection off.                                                          *)
Unlinked(v) ==
  LET c == chIndex[v]
      left == IF count[c] = 0 THEN 0 ELSE count[c] - 1
  IN IF c = NotSet THEN [chIndex |-> chIndex, count |-> count, chan |-> chan, on |-> enabled]
     ELSE [chIndex |-> [chIndex EXCEPT ![v] = NotSet],
           count |-> [count EXCEPT ![c] = left],
           chan |-> IF left = 0 THEN [chan EXCEPT ![c] = "none"] ELSE chan,
           on |-> enabled /\ ~(left = 0 /\ c = cur)]

rwnx_chanctx_unlinkAnyway(v) ==
  LET u == Unlinked(v)
  IN /\ chIndex' = u.chIndex /\ count' = u.count /\ enabled' = u.on
     /\ chan' = IF chIndex[v] = NotSet THEN chan ELSE [chan EXCEPT ![chIndex[v]] = "none"]

rwnx_chanctx_unlink(v) ==
  LET u == Unlinked(v)
  IN chIndex' = u.chIndex /\ count' = u.count /\ chan' = u.chan /\ enabled' = u.on

(* rwnx_radar_detection_enable_on_cur_channel, when the current context    *)
(* will be c and holds ch                                                  *)
OnCurChannel(c, ch) == IF ch = "none" THEN enabled ELSE ch = "dfs"

-----------------------------------------------------------------------------
(************************ Channel availability check ***********************)

(* rwnx_cfg80211_start_radar_detection: the work is queued and the         *)
(* firmware asked for a context; the link follows its confirmation.        *)
StartCac ==
  /\ cfg = Idle /\ ~cac /\ ~beacon /\ ops < MaxOps
  /\ Overlap \/ wrk = "idle"
  /\ cacVif' = TRUE /\ cacDue' = TRUE
  /\ status' = "cac_busy"
  /\ \E c \in Ctx :
       /\ chan[c] \in {"none", "dfs"}
       /\ cfg' = [pc |-> "cac", c |-> c, ch |-> "dfs", after |-> "idle"]
  /\ ops' = ops + 1 /\ alarm' = FALSE
  /\ UNCHANGED <<det, wrk, ctxVars, cur, enabled, staNum, detVars, cfgVars>>

CacLinkedDeaf ==
  /\ cfg.pc = "cac"
  /\ rwnx_chanctx_link("ap", cfg.c, "dfs")
  /\ cac' = TRUE /\ cfg' = Idle
  /\ UNCHANGED <<det, wrk, enabled, cur, status, staNum, cacVif, cacDue, detVars, beacon, cleared, alarm, ops>>

CacLinked ==
  /\ cfg.pc = "cac"
  /\ LET c == cfg.c
     IN /\ rwnx_chanctx_link("ap", c, "dfs")
        /\ enabled' = (enabled \/ cur = c)
  /\ cac' = TRUE /\ cfg' = Idle
  /\ UNCHANGED <<det, wrk, cur, status, staNum, cacVif, cacDue, detVars, beacon, cleared, alarm, ops>>

(* rwnx_radar_cac_work: user space learns the end of the CAC before the    *)
(* firmware is told and the context released.                              *)
CacWork ==
  /\ cacDue /\ wrk = "idle" /\ cfg.pc # "cac"
  /\ cacDue' = FALSE
  /\ IF cacVif
     THEN /\ cac' = FALSE /\ cleared' = (cleared \/ cac)
          /\ status' = "cac_done" /\ wrk' = "stop"
     ELSE UNCHANGED <<cac, cleared, status, wrk>>
  /\ UNCHANGED <<cfg, det, ctxVars, cur, enabled, staNum, cacVif, detVars, beacon, alarm, ops>>

(* Lines 1484-1486 and 1616-1628: the end of the work and of a             *)
(* cancellation read radar->cac_vif again; the thread dies if another one  *)
(* has cleared it.                                                         *)
Released(Goes, Dies) ==
  IF cacVif
  THEN rwnx_chanctx_unlink("ap") /\ cacVif' = FALSE /\ Goes
  ELSE Dies /\ UNCHANGED <<ctxVars, enabled, cacVif>>

CacWorkEnds ==
  /\ wrk = "stop" /\ Released(wrk' = "idle", wrk' = "oops")
  /\ UNCHANGED <<cur, status, staNum, cacDue, detVars, cfg, det, cfgVars, alarm, ops>>

CancelCacForgets(Waits, Goes) ==
  /\ cacVif' = FALSE /\ cacDue' = FALSE /\ Goes
  /\ UNCHANGED <<status, ctxVars, enabled>>

(* rwnx_radar_cancel_cac, called by a thread that Waits or Goes on.  It    *)
(* waits only when the work was still queued; a work that runs is not      *)
(* waited for.                                                             *)
CancelCac(Waits, Goes) ==
  /\ IF cacVif /\ cacDue
     THEN cacDue' = FALSE /\ status' = "cac_done" /\ Waits /\ UNCHANGED cacVif
     ELSE cacVif' = FALSE /\ Goes /\ UNCHANGED <<cacDue, status>>
  /\ UNCHANGED <<ctxVars, enabled>>

CfgCancelCac(after) ==
  CancelCac(cfg' = [At("cancel") EXCEPT !.after = after], cfg' = At(after))

(* ndo_stop of either interface and stop_ap begin with the cancellation.   *)
StopAp ==
  /\ cfg = Idle /\ beacon /\ staNum = 0
  /\ CfgCancelCac("apstop")
  /\ UNCHANGED <<det, wrk, cur, staNum, detVars, cfgVars, alarm, ops>>

CloseVif(v) ==
  /\ cfg = Idle /\ ops < MaxOps /\ ops' = ops + 1
  /\ v = "ap" => ~beacon
  /\ CfgCancelCac(IF v = "ap" THEN "closeap" ELSE "closesta")
  /\ UNCHANGED <<det, wrk, cur, staNum, detVars, cfgVars, alarm>>

CfgCancelled ==
  /\ cfg.pc = "cancel"
  /\ Released(cfg' = At(cfg.after), cfg' = At("oops")) /\ cac' = (cac /\ ~cacVif)
  /\ UNCHANGED <<det, wrk, cur, status, staNum, cacDue, detVars, beacon, cleared, alarm, ops>>

(* What follows the cancellation, once the firmware has stopped the access *)
(* point or removed the interface: stop_ap 4417-4420, close 1673.  An      *)
(* interface that goes down ends cfg80211's CAC as well.                   *)
Stopped ==
  /\ cfg.pc \in {"apstop", "closeap", "closesta"}
  /\ rwnx_chanctx_unlink(IF cfg.pc = "closesta" THEN "sta" ELSE "ap")
  /\ beacon' = (beacon /\ cfg.pc # "apstop")
  /\ cfg' = Idle
  /\ UNCHANGED <<det, wrk, cur, status, staNum, cacVif, cacDue, detVars, cac, cleared, alarm, ops>>

-----------------------------------------------------------------------------
(************************ Access point and stations ************************)

(* start_ap 4200-4257: on a DFS channel only after a CAC.                  *)
StartAp ==
  /\ cfg = Idle /\ ~cac /\ ~beacon /\ ops < MaxOps
  /\ Overlap \/ wrk = "idle"
  /\ \E c \in Ctx, ch \in (IF cleared THEN {"plain", "dfs"} ELSE {"plain"}) :
       /\ chan[c] \in {"none", ch}
       /\ cfg' = [pc |-> "ap", c |-> c, ch |-> ch, after |-> "idle"]
  /\ ops' = ops + 1
  /\ UNCHANGED <<det, wrk, ctxVars, cur, enabled, status, staNum, cacVif, cacDue, detVars, cfgVars, alarm>>

ApStarted ==
  /\ cfg.pc = "ap"
  /\ LET c == cfg.c
     IN /\ rwnx_chanctx_link("ap", c, cfg.ch)
        /\ enabled' = IF cur = c THEN OnCurChannel(c, chan'[c]) ELSE enabled
  /\ beacon' = TRUE /\ cfg' = Idle
  /\ UNCHANGED <<det, wrk, cur, status, staNum, cacVif, cacDue, detVars, cac, cleared, alarm, ops>>

(* rwnx_send_me_sta_add and rwnx_send_me_sta_del *)
StaAdd ==
  /\ beacon /\ cfg = Idle /\ staNum = 0
  /\ staNum' = 1 /\ status' = "inservice_busy"
  /\ UNCHANGED <<ctxVars, cur, enabled, cacVif, cacDue, detVars, cfg, det, wrk, cfgVars, alarm, ops>>

StaDel ==
  /\ staNum = 1 /\ cfg = Idle
  /\ staNum' = 0
  /\ status' = IF status = "inservice_busy" THEN "inservice_done" ELSE status
  /\ UNCHANGED <<ctxVars, cur, enabled, cacVif, cacDue, detVars, cfg, det, wrk, cfgVars, alarm, ops>>

-----------------------------------------------------------------------------
(*************************** Messages and detection ************************)

(* The station's connection (SM_CONNECT_IND, 955-1010) and its end.        *)
ConnectInd ==
  /\ chIndex["sta"] = NotSet /\ ops < MaxOps /\ ops' = ops + 1
  /\ \E c \in Ctx, ch \in {"plain", "dfs"} :
       /\ chan[c] \in {"none", ch}
       /\ cfg.pc = "cac" /\ cfg.c = c => ch = "dfs"
       /\ cfg.pc = "ap" /\ cfg.c = c => ch = cfg.ch
       /\ rwnx_chanctx_link("sta", c, ch)
       /\ enabled' = (enabled \/ ch = "dfs")
  /\ UNCHANGED <<cur, status, staNum, cacVif, cacDue, detVars, cfg, det, wrk, cfgVars, alarm>>

DisconnectInd ==
  /\ chIndex["sta"] # NotSet
  /\ rwnx_chanctx_unlink("sta")
  /\ UNCHANGED <<cur, status, staNum, cacVif, cacDue, detVars, cfg, det, wrk, cfgVars, alarm, ops>>

(* MM_CHANNEL_SWITCH_IND: the firmware moves to one of its contexts, which *)
(* exists before the driver has seen the confirmation.                     *)
FwCtx == ({chIndex[v] : v \in Devs} \cap Ctx) \cup
         {c \in Ctx : cfg.pc \in {"cac", "ap"} /\ cfg.c = c}

ChannelSwitchInd ==
  /\ \E c \in FwCtx \ {cur} :
       cur' = c /\ enabled' = OnCurChannel(c, chan[c])
  /\ UNCHANGED <<ctxVars, status, staNum, cacVif, cacDue, detVars, cfg, det, wrk, cfgVars, alarm, ops>>

(* rwnx_radar_detect_ind: the ring keeps the newest pulses.                *)
DetectInd ==
  /\ enabled /\ ring < PulseMax
  /\ ring' = ring + 1 /\ detDue' = TRUE
  /\ UNCHANGED <<ctxVars, cur, enabled, status, staNum, cacVif, cacDue, cfg, det, wrk, cfgVars, alarm, ops>>

(* rwnx_radar_process_pulse: take the ring, feed the detector.             *)
Take ==
  /\ detDue /\ det = "idle"
  /\ detDue' = FALSE /\ ring' = 0
  /\ \/ det' = "idle"                              \* no pattern
     \/ ring > 0 /\ status \in {"cac_busy", "inservice_busy"} /\ det' = "found"
  /\ UNCHANGED <<cfg, wrk, ctxVars, cur, enabled, status, staNum, cacVif, cacDue, cfgVars, alarm, ops>>

(* A pattern: the CAC is cancelled, the radar reported on the current      *)
(* channel and the detection turned off (1428-1442, 1275-1298).            *)
Reported ==
  alarm' = TRUE /\ cleared' = FALSE /\ enabled' = FALSE /\ ring' = 0 /\ det' = "idle"

Found ==
  /\ det = "found"
  /\ IF ~(enabled /\ rwnx_chanctx_valid(cur))
     THEN /\ enabled' = FALSE /\ ring' = (IF enabled THEN 0 ELSE ring) /\ det' = "idle"
          /\ UNCHANGED <<cacVif, cacDue, status, alarm, cleared>>
     ELSE IF cacVif /\ cacDue
     THEN CancelCac(det' = "cancel", det' = "idle") /\ UNCHANGED <<enabled, ring, alarm, cleared>>
     ELSE Reported /\ cacVif' = FALSE /\ UNCHANGED <<cacDue, status>>
  /\ UNCHANGED <<cfg, wrk, ctxVars, cur, staNum, detDue, cac, beacon, ops>>

DetCancelled ==
  /\ det = "cancel"
  /\ IF cacVif
     THEN /\ Reported /\ cac' = FALSE /\ cacVif' = FALSE
          /\ LET u == Unlinked("ap")
             IN chIndex' = u.chIndex /\ count' = u.count /\ chan' = u.chan
     ELSE /\ det' = "oops"
          /\ UNCHANGED <<ctxVars, enabled, cacVif, ring, cac, cleared, alarm>>
  /\ UNCHANGED <<cfg, wrk, cur, status, staNum, cacDue, detDue, beacon, ops>>

Init ==
  /\ chIndex = [v \in Devs |-> NotSet]
  /\ count = [c \in Ctx |-> 0] /\ chan = [c \in Ctx |-> "none"]
  /\ cur = NotSet /\ enabled = FALSE /\ status = "idle" /\ staNum = 0
  /\ cacVif = FALSE /\ cacDue = FALSE /\ ring = 0 /\ detDue = FALSE
  /\ cfg = Idle /\ det = "idle" /\ wrk = "idle"
  /\ cac = FALSE /\ beacon = FALSE /\ cleared = FALSE
  /\ alarm = FALSE /\ ops = 0

Next ==
  \/ StartCac \/ CacLinked \/ CacWork \/ CacWorkEnds
  \/ StopAp \/ (\E v \in Devs : CloseVif(v)) \/ CfgCancelled \/ Stopped
  \/ StartAp \/ ApStarted \/ StaAdd \/ StaDel
  \/ ConnectInd \/ DisconnectInd \/ ChannelSwitchInd
  \/ DetectInd \/ Take \/ Found \/ DetCancelled

(* Every command is answered, the timer of the CAC expires and the work    *)
(* queue runs what is queued.                                              *)
Fairness ==
  WF_vars(CacLinked \/ ApStarted \/ CfgCancelled \/ Stopped) /\
  WF_vars(CacWork \/ CacWorkEnds) /\
  WF_vars(Take \/ Found \/ DetCancelled)

Spec == Init /\ [][Next]_vars
FairSpec == Spec /\ Fairness

-----------------------------------------------------------------------------
(******************************** Properties *******************************)

(* Two threads that end the same CAC clear cac_vif under one another; the  *)
(* properties speak of the behaviours in which no thread died of it.       *)
Oops == "oops" \in {cfg.pc, det, wrk}

(* No context is freed under an interface (rwnx_main.c 961-1023): in every *)
(* order of the works, the operations and the indications a context an     *)
(* interface is linked to holds a channel, and its count covers every      *)
(* interface linked to it.                                                 *)
LinkedValid ==
  \A v \in Devs : chIndex[v] # NotSet =>
    /\ chan[chIndex[v]] # "none"
    /\ count[chIndex[v]] >= Cardinality({w \in Devs : chIndex[w] = chIndex[v]})

(* The CAC listens (5339-5353, 1631-1649).  While cfg80211 believes that a *)
(* channel availability check runs and the firmware is on its channel, the *)
(* detection reports, unless a radar has already been reported: whether    *)
(* the channel switch came before or after the confirmation, and whatever  *)
(* other interfaces do to the context meanwhile.                           *)
CacListens ==
  (cac /\ cacDue /\ cur # NotSet /\ cur = chIndex["ap"] /\ ~alarm /\ ~Oops) =>
    enabled /\ status = "cac_busy"

(* A context an interface uses is valid, and a running check listens.      *)
ChannelListens == LinkedValid /\ CacListens

(* What makes both inductive: no check runs beside a beacon, and from its  *)
(* start to its end the channel of the check stays a DFS channel and the   *)
(* status stays that of the check.                                         *)
CheckOrBeacon ==
  /\ cfg.pc = "cac" => ~cac /\ ~beacon
  /\ cfg.pc = "ap" => ~cac
  /\ ~(cac /\ beacon) /\ (staNum = 1 => beacon)
  /\ "apstop" \in {cfg.pc, cfg.after} => staNum = 0
CheckedChannel ==
  /\ cfg.pc = "cac" => chan[cfg.c] # "plain"
  /\ cac /\ cacDue /\ chIndex["ap"] # NotSet => chan[chIndex["ap"]] = "dfs"
  /\ cacDue /\ (cac \/ cfg.pc = "cac") => status = "cac_busy"
RadarInv == TypeOK /\ ChannelListens /\ CheckOrBeacon /\ CheckedChannel

(* A check ends (1461-1487, 1604-1629): after start_radar_detection        *)
(* succeeded, cfg80211 hears that the CAC finished or was aborted, or that  *)
(* a radar was found meanwhile.                                            *)
CacEnds == cac ~> (~cac \/ alarm \/ Oops)

(* WARN(1, "CAC finished but no vif set"), rwnx_radar.c 1469: the work     *)
(* never finds cac_vif cleared.                                            *)
WorkHasVif == [][wrk = "idle" /\ CacWork => cacVif]_vars
=============================================================================
