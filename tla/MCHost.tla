------------------------------- MODULE MCHost -------------------------------
(* What the driver keeps for cfg80211, for TLC, one part in each behaviour: *)
(* the interfaces, a station's connection, the stations of an access point, *)
(* the channel contexts with radar detection, and the debugfs directories   *)
(* of the stations.                                                         *)
EXTENDS Iface, TLC

CONSTANTS
    wlan, p2p,                              \* of Iface
    Cfm, Kinds, ConnOps,                    \* of Conn
    Mac, StaIdx, StaOps, MaxInd,            \* of ApSta
    Ctx, PulseMax, RadarOps, Overlap,       \* of Radar
    RcSta, RcSlots, RcOps                   \* of RcStat

(* A station interface and the P2P device.                                 *)
MCType0 == wlan :> "STATION" @@ p2p :> "P2P_DEVICE"

VARIABLES
    which,                                  \* the part that runs
    conn, c_up, inTable, c_ap, isRoam, extAuth, carrier, kconn, owed, wants, c_pc,
    c_cmd, c_reply, rxWait, c_crashed, c_inds, fw, fwRoam, c_ops,
    ap, sta, sta_list, txq, adding_sta, op, lost, queued, work, crashed, msgs, fwSta,
    fwPs, s_ops,
    chIndex, r_count, chan, cur, enabled, status, staNum, cacVif, cacDue, ring,
    detDue, cfg, det, wrk, cac, beacon, cleared, alarm, r_ops,
    present, rcRing, wr, rd, rcQueued, rcRunning, dir, rcTable, rcPhase, broken, rc_ops

Sm == INSTANCE Conn WITH
        MaxOps <- ConnOps, up <- c_up, ap <- c_ap, pc <- c_pc, cmd <- c_cmd,
        reply <- c_reply, crashed <- c_crashed, inds <- c_inds, ops <- c_ops
Apm == INSTANCE ApSta WITH Idx <- StaIdx, NONE <- None, MaxOps <- StaOps, ops <- s_ops
Dfs == INSTANCE Radar WITH MaxOps <- RadarOps, count <- r_count, ops <- r_ops
Rc == INSTANCE RcStat WITH
        Sta <- RcSta, Slots <- RcSlots, MaxOps <- RcOps, ring <- rcRing,
        queued <- rcQueued, running <- rcRunning, table <- rcTable, phase <- rcPhase, ops <- rc_ops
ASSUME HostAssumption ==
    /\ Sm!ConnAssumption /\ Apm!ApStaAssumption /\ Dfs!RadarAssumption
    /\ Rc!RcStatAssumption

smVars == <<conn, c_up, inTable, c_ap, isRoam, extAuth, carrier, kconn, owed, wants,
            c_pc, c_cmd, c_reply, rxWait, c_crashed, c_inds, fw, fwRoam, c_ops>>
apmVars == <<ap, sta, sta_list, txq, adding_sta, op, lost, queued, work, crashed,
             msgs, fwSta, fwPs, s_ops>>
dfsVars == <<chIndex, r_count, chan, cur, enabled, status, staNum, cacVif, cacDue,
             ring, detDue, cfg, det, wrk, cac, beacon, cleared, alarm, r_ops>>
rcVars == <<present, rcRing, wr, rd, rcQueued, rcRunning, dir, rcTable, rcPhase, broken,
            rc_ops>>
allVars == <<which, vars, smVars, apmVars, dfsVars, rcVars>>
InSm(act) == which = "sm" /\ act
InApm(act) == which = "apm" /\ act
InDfs(act) == which = "dfs" /\ act

(* The parts that do not run stay in one initial state.                    *)
MCInit ==
    /\ which \in {"iface", "sm", "apm", "dfs", "rc"}
    /\ Init /\ Sm!Init /\ Apm!Init /\ Dfs!Init /\ Rc!Init
    /\ (which # "iface" => drvIdx = [v \in Vifs |-> 0])

MCNext ==
    /\ \/ which = "iface" /\ Next /\ UNCHANGED <<smVars, apmVars, dfsVars, rcVars>>
       \/ InSm(Sm!Next) /\ UNCHANGED <<vars, apmVars, dfsVars, rcVars>>
       \/ InApm(Apm!Next) /\ UNCHANGED <<vars, smVars, dfsVars, rcVars>>
       \/ InDfs(Dfs!Next) /\ UNCHANGED <<vars, smVars, apmVars, rcVars>>
       \/ which = "rc" /\ Rc!Next /\ UNCHANGED <<vars, smVars, apmVars, dfsVars>>
    /\ UNCHANGED which

MCSpec ==
    /\ MCInit /\ [][MCNext]_allVars
    /\ WF_smVars(InSm(Sm!UserStep)) /\ WF_smVars(InSm(Sm!Rx))
    /\ WF_smVars(InSm(Sm!RxTimeout))
    /\ WF_smVars(InSm(Sm!FwCommand)) /\ WF_smVars(InSm(Sm!FwJoined))
    /\ WF_apmVars(InApm(Apm!OpSteps)) /\ WF_apmVars(InApm(Apm!WorkSteps))
    /\ WF_apmVars(InApm(Apm!Receive)) /\ WF_apmVars(InApm(Apm!FwAnswers))
    /\ WF_apmVars(InApm(\E a \in Apm!Actor : Apm!Timeout(a)))
    /\ WF_dfsVars(InDfs(Dfs!CacLinked \/ Dfs!ApStarted \/ Dfs!CfgCancelled
                        \/ Dfs!Stopped))
    /\ WF_dfsVars(InDfs(Dfs!CacWork \/ Dfs!CacWorkEnds))
    /\ WF_dfsVars(InDfs(Dfs!Take \/ Dfs!Found \/ Dfs!DetCancelled))

(* vif_table, vif_started and the firmware's interfaces are those that are *)
(* up, in every order of the operations and the alive timer.               *)
InterfacesAgree == which = "iface" => TableExact /\ FwAgrees

(* The scan request is held until it is completed, once, and the alive     *)
(* timer runs only while the P2P device is there.                          *)
ScanAndTimerHeld == which = "iface" => ScanHeld /\ TimerHasDevice

(* The handlers of a connection's messages find the interface and the AP   *)
(* they use, and driver, cfg80211 and firmware agree once they have run.   *)
ConnectionAgrees == which = "sm" => Sm!HandlerSafe /\ Sm!ViewsAgree

(* A connection is reported only to a user that still wants it.            *)
ConnectionWanted == [][InSm(Sm!Reported) => wants \/ c_crashed]_smVars

(* The tables of stations of driver and firmware agree, and so does who is *)
(* asleep.                                                                 *)
StationTables == which = "apm" => Apm!StationTables

(* A linked context is valid, and a running check of a channel listens.    *)
ChannelListens == which = "dfs" => Dfs!ChannelListens

(* The debugfs directories follow the stations.                            *)
RcDirs == which = "rc" => Rc!RcDirs

(* An operation that waits, and what ends its wait (AcceptedAnswered of     *)
(* Conn, StopEnds of ApSta and CacEnds of Radar; which never changes).     *)
Waits ==
    \/ InSm(owed = "asked")
    \/ InApm(op.at = "stop_loop")
    \/ InDfs(cac)

Ended ==
    /\ InSm(TRUE) => owed # "asked"
    /\ InApm(TRUE) => op = Apm!Idle
    /\ InDfs(TRUE) => ~cac \/ alarm \/ Dfs!Oops

(* A connect that the firmware accepted gets its result; stop_ap empties   *)
(* the list of stations and ends, also when the firmware is dead and while *)
(* the work item takes stations off the same list; and a check of a        *)
(* channel is finished, aborted or ended by a radar.                       *)
OperationsEnd == Waits ~> Ended
=============================================================================
