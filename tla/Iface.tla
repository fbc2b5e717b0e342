------------------------------- MODULE Iface -------------------------------
(***************************************************************************)
(* The virtual interfaces of the driver (rwnx_main.c): open and close,     *)
(* add, change and delete, the P2P device with its alive timer, scanning   *)
(* and remain-on-channel, against the firmware's messages (rwnx_msg_rx.c). *)
(*                                                                         *)
(* An operation runs in thread "net" (ndo_open, ndo_stop, under RTNL) or   *)
(* "cfg" (cfg80211, under the wiphy mutex).  Since Linux 5.12 most of the  *)
(* cfg80211 operations do not hold RTNL, so the two threads interleave     *)
(* unless Rtnl is TRUE; those that change the set of interfaces always     *)
(* hold both locks.  A step is the                                         *)
(* code between two commands to the firmware: the thread waits for each    *)
(* confirmation while the receive thread handles other messages.  A timer  *)
(* handler (softirq) and a message handler are one step each.              *)
(*                                                                         *)
(* The connection of a station is in Conn.tla; what an AP does is in       *)
(* ApSta.tla.                                                              *)
(***************************************************************************)
EXTENDS Integers, FiniteSets, Sequences

CONSTANTS
    Vifs,           \* wireless devices
    None,           \* NULL
    Type0,          \* Type0[v]: the type v is created with
    Changes,        \* types change_iface may ask for
    Present,        \* interfaces that exist when the driver is loaded
    VirtDevMax,     \* NX_VIRT_DEV_MAX
    AliveCount,     \* P2P_ALIVE_TIME_COUNT
    MaxOps,         \* bound on the operations of a behaviour
    MayDie,         \* whether the firmware may stop answering
    Rtnl            \* whether every operation holds RTNL (before Linux 5.12)

Idx == 0 .. VirtDevMax - 1
Threads == {"net", "cfg"}
Types == {"STATION", "P2P_CLIENT", "P2P_DEVICE", "MONITOR"}

(* Commands, their results, and what the firmware sends.                   *)
Command == [m : {"start", "add", "scancancel", "reset", "scan", "roc", "cancelroc"}]
           \cup [m : {"remove"}, i : Idx] \cup [m : {"add"}, mgmt : BOOLEAN]
Answer == [status : {"ok", "refused", "error"}, idx : Idx]
Message == [m : {"scandone", "rocon", "rocexp"}]
           \cup [m : {"cfm"}, t : Threads, status : {"ok", "refused"}, idx : Idx]

ASSUME IfaceAssumption ==
    /\ IsFiniteSet(Vifs) /\ None \notin Vifs \cup Command \cup Answer
    /\ Type0 \in [Vifs -> Types]
    /\ Changes \subseteq Types \ {"P2P_DEVICE"}
    /\ Present \subseteq Vifs
    /\ VirtDevMax \in Nat \ {0} /\ AliveCount \in Nat \ {0} /\ MaxOps \in Nat
    /\ MayDie \in BOOLEAN /\ Rtnl \in BOOLEAN
    /\ Cardinality(Present) <= VirtDevMax

VARIABLES
    vifs,       \* rwnx_hw->vifs
    drvIdx,     \* vif->drv_vif_index of a listed interface
    type,       \* wdev.iftype
    up,         \* vif->up
    vifIdx,     \* vif->vif_index, the firmware's number
    table,      \* rwnx_hw->vif_table
    started,    \* rwnx_hw->vif_started
    devStarted, \* RWNX_DEV_STARTED of drv_flags
    monitor,    \* rwnx_hw->monitor_vif
    scanReq,    \* rwnx_hw->scan_request, by its wdev
    scanning,   \* rwnx_hw->scanning
    roc,        \* rwnx_hw->roc_elem
    p2pDev,     \* rwnx_hw->p2p_dev_vif
    alive,      \* rwnx_hw->is_p2p_alive
    timer,      \* p2p_alive_timer is pending
    count,      \* p2p_alive_timer_count
    running,    \* kernel: netif_running, or a started P2P device
    kscan,      \* kernel: rdev->scan_req, by its wdev
    pc, arg,    \* where each thread is, and the interface it works on
    cmd, reply, \* the command a thread waits for, and its result
    deferred,   \* indices of deferred MM_REMOVE_IF_REQ not yet pushed
    inds,       \* messages from the firmware, in order
    fwIfs,      \* firmware: interfaces added
    fwStarted,  \* firmware: started and not reset
    fwScan,     \* firmware: a scan is running
    fwRoc,      \* firmware: remain-on-channel "none", "going", "there"
    dead,       \* firmware: stopped answering
    ops         \* operations so far

vifVars == <<vifs, drvIdx, type>>
tabVars == <<up, vifIdx, table, started>>
p2pVars == <<p2pDev, alive, timer, count>>
scanVars == <<scanReq, scanning, kscan>>
thrVars == <<pc, arg, cmd, reply>>
fwVars == <<fwIfs, fwStarted, fwScan, fwRoc, dead>>
vars == <<vifVars, tabVars, p2pVars, scanVars, thrVars, fwVars, devStarted,
          monitor, roc, running, deferred, inds, ops>>

Init ==
    /\ vifs = Present
    /\ drvIdx \in {d \in [Vifs -> Idx] : \A v, w \in Present :
                       v # w => d[v] # d[w]}
    /\ \A v \in Vifs \ Present : drvIdx[v] = 0
    /\ type = Type0
    /\ up = {} /\ vifIdx = [v \in Vifs |-> 0]
    /\ table = [i \in Idx |-> None] /\ started = 0
    /\ devStarted = {} /\ monitor = None
    /\ scanReq = None /\ scanning = FALSE /\ kscan = None
    /\ roc = None
    /\ p2pDev = None /\ alive = FALSE /\ timer = FALSE /\ count = 0
    /\ running = {}
    /\ pc = [t \in Threads |-> "idle"]
    /\ arg = [t \in Threads |-> None]
    /\ cmd = [t \in Threads |-> None]
    /\ reply = [t \in Threads |-> None]
    /\ deferred = <<>> /\ inds = <<>>
    /\ fwIfs = {} /\ fwStarted = FALSE /\ fwScan = FALSE /\ fwRoc = "none"
    /\ dead = FALSE
    /\ ops = 0

-----------------------------------------------------------------------------
(* Commands.  With the manager crashed a command fails at once; the first  *)
(* command that is never confirmed crashes it (CmdMgr.tla).                *)

Goto(t, where) == pc' = [pc EXCEPT ![t] = where]

Send(t, c, where) ==
    /\ cmd' = [cmd EXCEPT ![t] = c]
    /\ reply' = [reply EXCEPT ![t] = None]
    /\ Goto(t, where)

Return(t) ==
    /\ cmd' = [cmd EXCEPT ![t] = None]
    /\ reply' = [reply EXCEPT ![t] = None]
    /\ Goto(t, "idle")

At(t, where) == pc[t] = where /\ reply[t] # None
Ok(t) == reply[t].status = "ok"

(* A new operation of thread t on v; those in Both hold RTNL as well.      *)
Both == {"chg.scan", "chg.removed", "chg.added"}
Begin(t, v) ==
    /\ pc[t] = "idle"
    /\ Rtnl => \A s \in Threads : pc[s] = "idle"
    /\ t = "net" => pc["cfg"] \notin Both
    /\ ops < MaxOps
    /\ ops' = ops + 1
    /\ arg' = [arg EXCEPT ![t] = v]

BeginBoth(v) == Begin("cfg", v) /\ pc["net"] = "idle"

-----------------------------------------------------------------------------
(* The section under cb_lock that makes v known under firmware index i.    *)
Install(v, i) ==
    /\ vifIdx' = [vifIdx EXCEPT ![v] = i]
    /\ up' = up \cup {v}
    /\ started' = started + 1
    /\ table' = [table EXCEPT ![i] = v]

(* Mutant: the entry of the table is left.                                 *)
UninstallKeepsEntry(v) ==
    /\ up' = up \ {v}
    /\ started' = started - 1
    /\ UNCHANGED <<table, vifIdx>>

(* ... and the one that forgets it.                                        *)
Uninstall(v) ==
    /\ up' = up \ {v}
    /\ table' = [table EXCEPT ![vifIdx[v]] = None]
    /\ started' = started - 1
    /\ UNCHANGED vifIdx

ArmAlive == alive' = TRUE /\ timer' = TRUE /\ count' = 0 /\ UNCHANGED p2pDev

(* rwnx_open: the firmware is started with the first interface.  User      *)
(* space opens a group interface only while its P2P device exists.         *)
OpenBegin(v) ==
    /\ v \in vifs \ running
    /\ type[v] # "P2P_DEVICE"
    /\ type[v] = "P2P_CLIENT" => p2pDev \in vifs
    /\ Begin("net", v)
    /\ running' = running \cup {v}
    /\ \/ started = 0 /\ Send("net", [m |-> "start"], "open.start")
       \/ started # 0 /\ Goto("net", "open") /\ UNCHANGED <<cmd, reply>>
    /\ UNCHANGED <<vifVars, tabVars, p2pVars, scanVars, fwVars, devStarted,
                   monitor, roc, deferred, inds>>

OpenFail ==
    /\ pc["net"] \in {"open.start", "open.p2p", "open.added"}
    /\ reply["net"] # None /\ ~Ok("net")
    /\ running' = running \ {arg["net"]}
    /\ Return("net")
    /\ UNCHANGED <<vifVars, tabVars, p2pVars, scanVars, arg, fwVars,
                   devStarted, monitor, roc, deferred, inds, ops>>

(* A group interface brings up its P2P device first.                       *)
OpenDevice ==
    LET v    == arg["net"]
        wake == type[v] = "P2P_CLIENT" /\ ~alive
    IN
    /\ pc["net"] = "open" \/ (At("net", "open.start") /\ Ok("net"))
    /\ devStarted' = devStarted \cup {v}
    /\ \/ /\ wake /\ p2pDev # None /\ p2pDev \notin up
          /\ Send("net", [m |-> "add"], "open.p2p")
          /\ UNCHANGED p2pVars
       \/ /\ wake => p2pDev = None \/ p2pDev \in up
          /\ IF wake THEN ArmAlive ELSE UNCHANGED p2pVars
          /\ Send("net", [m |-> "add"], "open.added")
    /\ UNCHANGED <<vifVars, tabVars, scanVars, arg, fwVars, monitor, roc,
                   running, deferred, inds, ops>>

OpenP2pAdded ==
    /\ At("net", "open.p2p") /\ Ok("net")
    /\ Install(p2pDev, reply["net"].idx)
    /\ ArmAlive
    /\ Send("net", [m |-> "add"], "open.added")
    /\ UNCHANGED <<vifVars, scanVars, arg, fwVars, devStarted, monitor, roc,
                   running, deferred, inds, ops>>

OpenAdded ==
    LET v == arg["net"] IN
    /\ At("net", "open.added") /\ Ok("net")
    /\ Install(v, reply["net"].idx)
    /\ monitor' = IF type[v] = "MONITOR" THEN reply["net"].idx ELSE monitor
    /\ Return("net")
    /\ UNCHANGED <<vifVars, p2pVars, scanVars, arg, fwVars, devStarted, roc,
                   running, deferred, inds, ops>>

-----------------------------------------------------------------------------
(* Mutant: the request is passed back and kept.                            *)
AbortScanKept(v) == kscan' = None /\ UNCHANGED scanReq

(* cfg80211_scan_done(aborted) and scan_request = NULL.                    *)
AbortScan(v) == kscan' = None /\ scanReq' = None

(* rwnx_close up to the commands; a scan of this interface is aborted.     *)
CloseBegin(v) ==
    /\ v \in running /\ type[v] # "P2P_DEVICE"
    /\ Begin("net", v)
    /\ running' = running \ {v}
    /\ scanning' = FALSE
    /\ \/ /\ scanReq = v
          /\ AbortScan(v)
          /\ Send("net", [m |-> "scancancel"], "close.scan")
       \/ /\ scanReq # v
          /\ Send("net", [m |-> "remove", i |-> vifIdx[v]], "close.removed")
          /\ UNCHANGED <<scanReq, kscan>>
    /\ UNCHANGED <<vifVars, tabVars, p2pVars, fwVars, devStarted, monitor, roc,
                   deferred, inds>>

(* After the call the kernel completes a scan that is still its own.       *)
KernelDown(v) == kscan' = IF kscan = v THEN None ELSE kscan

CloseCancelled ==
    LET v == arg["net"] IN
    /\ At("net", "close.scan")
    /\ \/ /\ Ok("net")
          /\ Send("net", [m |-> "remove", i |-> vifIdx[v]], "close.removed")
          /\ UNCHANGED kscan
       \/ ~Ok("net") /\ Return("net") /\ KernelDown(v)
    /\ UNCHANGED <<vifVars, tabVars, p2pVars, scanReq, scanning, arg, fwVars,
                   devStarted, monitor, roc, running, deferred, inds, ops>>

(* Whatever the answer, the interface goes; the last one resets.           *)
CloseRemoved ==
    LET v == arg["net"] IN
    /\ At("net", "close.removed")
    /\ roc' = IF roc # None /\ roc.v = v THEN None ELSE roc
    /\ Uninstall(v)
    /\ monitor' = IF type[v] = "MONITOR" THEN None ELSE monitor
    /\ \/ /\ started = 1
          /\ Send("net", [m |-> "reset"], "close.reset")
          /\ UNCHANGED <<devStarted, kscan>>
       \/ /\ started # 1
          /\ devStarted' = devStarted \ {v}
          /\ Return("net") /\ KernelDown(v)
    /\ UNCHANGED <<vifVars, p2pVars, scanReq, scanning, arg, fwVars, running,
                   deferred, inds, ops>>

(* me_config and me_chan_config follow the reset and change nothing here.  *)
CloseReset ==
    /\ At("net", "close.reset")
    /\ devStarted' = devStarted \ {arg["net"]}
    /\ Return("net") /\ KernelDown(arg["net"])
    /\ UNCHANGED <<vifVars, tabVars, p2pVars, scanReq, scanning, arg, fwVars,
                   monitor, roc, running, deferred, inds, ops>>

-----------------------------------------------------------------------------
(* rwnx_interface_add: the first free index; a monitor stands alone.       *)
MayAdd(v) == \A w \in vifs : "MONITOR" \notin {type[w], Type0[v]}
FirstFree(i) ==
    /\ \A w \in vifs : drvIdx[w] # i
    /\ \A j \in Idx : j < i => \E w \in vifs : drvIdx[w] = j

(* rwnx_virtual_interface_add: a P2P device that finds none alive becomes  *)
(* the P2P device of the driver.                                           *)
VirtualAdd(v) ==
    IF Type0[v] = "P2P_DEVICE" /\ ~alive
    THEN p2pDev' = v /\ count' = 0 /\ UNCHANGED <<alive, timer>>
    ELSE UNCHANGED p2pVars

(* rwnx_cfg80211_add_iface.                                                *)
AddIface(v) ==
    /\ v \notin vifs
    /\ BeginBoth(v)
    /\ MayAdd(v)
    /\ \E i \in Idx : FirstFree(i) /\ drvIdx' = [drvIdx EXCEPT ![v] = i]
    /\ vifs' = vifs \cup {v}
    /\ type' = [type EXCEPT ![v] = Type0[v]]
    /\ VirtualAdd(v)
    /\ UNCHANGED <<tabVars, scanVars, pc, cmd, reply, fwVars, devStarted,
                   monitor, roc, running, deferred, inds>>

(* rwnx_cfg80211_del_iface, after the kernel has closed or stopped it and  *)
(* user space has ended its remain-on-channel.                             *)
DelIface(v) ==
    /\ v \in vifs \ running
    /\ v \notin up
    /\ roc # None => roc.v # v
    /\ BeginBoth(v)
    /\ vifs' = vifs \ {v}
    /\ UNCHANGED <<drvIdx, type, tabVars, p2pVars, scanVars, pc, cmd, reply,
                   fwVars, devStarted, monitor, roc, running, deferred, inds>>

(* rwnx_cfg80211_change_iface: an interface that is up is removed and      *)
(* added again with its new type.                                          *)
MayChange(v, k) ==
    /\ v \in vifs /\ type[v] \notin {k, "P2P_DEVICE"}
    /\ k = "MONITOR" => vifs = {v}

ChangeIface(v, k) ==
    /\ MayChange(v, k)
    /\ BeginBoth(v)
    /\ type' = [type EXCEPT ![v] = k]
    /\ \/ /\ v \in up /\ scanReq = v
          /\ Send("cfg", [m |-> "scancancel"], "chg.scan")
          /\ UNCHANGED monitor
       \/ /\ v \in up /\ scanReq # v
          /\ Send("cfg", [m |-> "remove", i |-> vifIdx[v]], "chg.removed")
          /\ UNCHANGED monitor
       \/ /\ v \notin up
          /\ monitor' = IF k = "MONITOR" THEN vifIdx[v] ELSE None
          /\ UNCHANGED <<pc, cmd, reply>>
    /\ UNCHANGED <<vifs, drvIdx, tabVars, p2pVars, scanVars, fwVars,
                   devStarted, roc, running, deferred, inds>>

ChangeFail ==
    /\ pc["cfg"] \in {"chg.scan", "chg.removed", "chg.added"}
    /\ reply["cfg"] # None /\ ~Ok("cfg")
    /\ Return("cfg")
    /\ UNCHANGED <<vifVars, tabVars, p2pVars, scanVars, arg, fwVars,
                   devStarted, monitor, roc, running, deferred, inds, ops>>

ChangeCancelled ==
    /\ At("cfg", "chg.scan") /\ Ok("cfg")
    /\ Send("cfg", [m |-> "remove", i |-> vifIdx[arg["cfg"]]], "chg.removed")
    /\ UNCHANGED <<vifVars, tabVars, p2pVars, scanVars, arg, fwVars,
                   devStarted, monitor, roc, running, deferred, inds, ops>>

ChangeRemoved ==
    /\ At("cfg", "chg.removed") /\ Ok("cfg")
    /\ table' = [table EXCEPT ![vifIdx[arg["cfg"]]] = None]
    /\ Send("cfg", [m |-> "add"], "chg.added")
    /\ UNCHANGED <<vifVars, up, vifIdx, started, p2pVars, scanVars, arg,
                   fwVars, devStarted, monitor, roc, running, deferred, inds,
                   ops>>

ChangeAdded ==
    LET v == arg["cfg"] IN
    /\ At("cfg", "chg.added") /\ Ok("cfg")
    /\ vifIdx' = [vifIdx EXCEPT ![v] = reply["cfg"].idx]
    /\ table' = [table EXCEPT ![reply["cfg"].idx] = v]
    /\ monitor' = IF type[v] = "MONITOR" THEN reply["cfg"].idx ELSE None
    /\ Return("cfg")
    /\ UNCHANGED <<vifVars, up, started, p2pVars, scanVars, arg, fwVars,
                   devStarted, roc, running, deferred, inds, ops>>

-----------------------------------------------------------------------------
(* start_p2p_device does nothing in the driver.                            *)
StartP2pDevice(v) ==
    /\ v \in vifs \ running /\ type[v] = "P2P_DEVICE"
    /\ Begin("cfg", v)
    /\ running' = running \cup {v}
    /\ UNCHANGED <<vifVars, tabVars, p2pVars, scanVars, pc, cmd, reply, fwVars,
                   devStarted, monitor, roc, deferred, inds>>

(* Mutant: the alive timer is left running.                                *)
StopTimerKept == UNCHANGED timer

(* del_timer_sync, if it is pending.                                       *)
StopTimer == timer' = FALSE

(* Mutant: the firmware is not told.                                       *)
StopDeviceSilent(v) ==
    /\ v = p2pDev
    /\ alive' = FALSE /\ StopTimer
    /\ IF v \in up THEN Uninstall(v) ELSE UNCHANGED tabVars
    /\ UNCHANGED <<p2pDev, count, deferred>>

(* The part of rwnx_cfgp2p_stop_p2p_device after the scan.                 *)
StopDevice(v) ==
    IF v = p2pDev
    THEN /\ alive' = FALSE /\ StopTimer
         /\ \/ /\ v \in up
               /\ deferred' = Append(deferred, vifIdx[v])
               /\ Uninstall(v)
            \/ v \notin up /\ UNCHANGED <<tabVars, deferred>>
         /\ UNCHANGED <<p2pDev, count>>
    ELSE UNCHANGED <<p2pVars, tabVars, deferred>>

StopP2pDevice(v) ==
    /\ v \in running /\ type[v] = "P2P_DEVICE"
    /\ Begin("cfg", v)
    /\ running' = running \ {v}
    /\ \/ /\ scanReq = v
          /\ AbortScan(v)
          /\ Send("cfg", [m |-> "scancancel"], "stop.scan")
          /\ UNCHANGED <<tabVars, p2pVars, deferred>>
       \/ /\ scanReq # v
          /\ StopDevice(v)
          /\ UNCHANGED <<scanReq, kscan, pc, cmd, reply>>
    /\ UNCHANGED <<vifVars, scanning, fwVars, devStarted, monitor, roc, inds>>

StopCancelled ==
    /\ At("cfg", "stop.scan")
    /\ StopDevice(arg["cfg"])
    /\ Return("cfg")
    /\ UNCHANGED <<vifVars, scanVars, arg, fwVars, devStarted, monitor, roc,
                   running, inds, ops>>

(* aicwf_p2p_alive_timeout: counts the ticks without a group interface.    *)
P2pAliveTimeout ==
    LET group == \E v \in vifs : type[v] = "P2P_CLIENT"
        n     == IF group THEN 0 ELSE count + 1
    IN
    /\ timer
    /\ \/ /\ n < AliveCount
          /\ count' = n
          /\ alive' = (alive \/ group)
          /\ UNCHANGED <<timer, tabVars, deferred>>
       \/ /\ n >= AliveCount
          /\ count' = 0 /\ alive' = FALSE /\ timer' = FALSE
          /\ deferred' = Append(deferred, vifIdx[p2pDev])
          /\ Uninstall(p2pDev)
    /\ UNCHANGED <<vifVars, p2pDev, scanVars, thrVars, fwVars, devStarted,
                   monitor, roc, running, inds, ops>>

-----------------------------------------------------------------------------
(* rwnx_cfg80211_scan and rwnx_send_scanu_req.  The P2P device looks for   *)
(* the P2P wildcard SSID, which brings it up and arms the alive timer.     *)
ScanBegin(v) ==
    /\ v \in running
    /\ kscan = None
    /\ ~scanning
    /\ Begin("cfg", v)
    /\ scanReq' = v /\ kscan' = v /\ scanning' = TRUE
    /\ \/ v = p2pDev /\ v \notin up /\ Send("cfg", [m |-> "add"], "scan.added")
          /\ UNCHANGED p2pVars
       \/ /\ v = p2pDev /\ v \in up
          /\ ArmAlive
          /\ Send("cfg", [m |-> "scan"], "scan.started")
       \/ v # p2pDev /\ Send("cfg", [m |-> "scan"], "scan.started")
          /\ UNCHANGED p2pVars
    /\ UNCHANGED <<vifVars, tabVars, fwVars, devStarted, monitor, roc, running,
                   deferred, inds>>

ScanAdded ==
    /\ At("cfg", "scan.added") /\ Ok("cfg")
    /\ Install(arg["cfg"], reply["cfg"].idx)
    /\ ArmAlive
    /\ Send("cfg", [m |-> "scan"], "scan.started")
    /\ UNCHANGED <<vifVars, scanVars, arg, fwVars, devStarted, monitor, roc,
                   running, deferred, inds, ops>>

(* An error clears scan_request, and the kernel its own; scanning stays.   *)
ScanFail ==
    /\ pc["cfg"] \in {"scan.added", "scan.started"}
    /\ reply["cfg"] # None /\ ~Ok("cfg")
    /\ scanReq' = None /\ kscan' = None
    /\ Return("cfg")
    /\ UNCHANGED <<vifVars, tabVars, p2pVars, scanning, arg, fwVars,
                   devStarted, monitor, roc, running, deferred, inds, ops>>

ScanStarted ==
    /\ At("cfg", "scan.started") /\ Ok("cfg")
    /\ Return("cfg")
    /\ UNCHANGED <<vifVars, tabVars, p2pVars, scanVars, arg, fwVars,
                   devStarted, monitor, roc, running, deferred, inds, ops>>

-----------------------------------------------------------------------------
(* rwnx_cfg80211_remain_on_channel_, for user space or (mgmt) for a frame  *)
(* sent off channel by rwnx_cfg80211_mgmt_tx.  A P2P device that is down   *)
(* is added to the firmware first.                                         *)
RocNeedsDevice(v) == v = p2pDev /\ v \notin up /\ ~alive

RocBegin(v, mgmt) ==
    /\ v \in running
    /\ roc = None
    /\ Begin("cfg", v)
    /\ \/ /\ RocNeedsDevice(v)
          /\ Send("cfg", [m |-> "add", mgmt |-> mgmt], "roc.added")
          /\ UNCHANGED <<roc, p2pVars>>
       \/ /\ ~RocNeedsDevice(v)
          /\ IF v = p2pDev /\ v \notin up THEN ArmAlive ELSE UNCHANGED p2pVars
          /\ roc' = [v |-> v, mgmt |-> mgmt, on |-> FALSE]
          /\ Send("cfg", [m |-> "roc"], "roc.sent")
    /\ UNCHANGED <<vifVars, tabVars, scanVars, fwVars, devStarted, monitor,
                   running, deferred, inds>>

(* rwnx_cfg80211_mgmt_tx of a frame for another channel; on the channel of *)
(* the interface it only hands the frame to the transmit path.             *)
MgmtTxOffChannel(v) == RocBegin(v, TRUE)

RocAdded ==
    LET v == arg["cfg"] IN
    /\ At("cfg", "roc.added") /\ Ok("cfg")
    /\ Install(v, reply["cfg"].idx)
    /\ ArmAlive
    /\ roc' = [v |-> v, mgmt |-> cmd["cfg"].mgmt, on |-> FALSE]
    /\ Send("cfg", [m |-> "roc"], "roc.sent")
    /\ UNCHANGED <<vifVars, scanVars, arg, fwVars, devStarted, monitor,
                   running, deferred, inds, ops>>

(* A failure frees the element it allocated; another may be there by now.  *)
RocSent ==
    /\ At("cfg", "roc.sent")
    /\ roc' = IF Ok("cfg") THEN roc ELSE None
    /\ Return("cfg")
    /\ UNCHANGED <<vifVars, tabVars, p2pVars, scanVars, arg, fwVars,
                   devStarted, monitor, running, deferred, inds, ops>>

RocAddFail ==
    /\ At("cfg", "roc.added") /\ ~Ok("cfg")
    /\ Return("cfg")
    /\ UNCHANGED <<vifVars, tabVars, p2pVars, scanVars, arg, fwVars,
                   devStarted, monitor, roc, running, deferred, inds, ops>>

(* rwnx_cfg80211_cancel_remain_on_channel.                                 *)
CancelRoc ==
    /\ roc # None
    /\ Begin("cfg", roc.v)
    /\ Send("cfg", [m |-> "cancelroc"], "roc.cancel")
    /\ UNCHANGED <<vifVars, tabVars, p2pVars, scanVars, fwVars, devStarted,
                   monitor, roc, running, deferred, inds>>

RocCancelled ==
    /\ At("cfg", "roc.cancel")
    /\ Return("cfg")
    /\ UNCHANGED <<vifVars, tabVars, p2pVars, scanVars, arg, fwVars,
                   devStarted, monitor, roc, running, deferred, inds, ops>>

-----------------------------------------------------------------------------
(* The firmware, as the driver uses it (external).  It has room for as     *)
(* many interfaces as the driver creates, so it does not refuse to add one. *)

Confirm(t, st, i) == [m |-> "cfm", t |-> t, status |-> st, idx |-> i]
Pending(t) == cmd[t] # None /\ reply[t] = None
              /\ \A k \in DOMAIN inds : inds[k].m = "cfm" => inds[k].t # t

FwStep(t) ==
    LET c == cmd[t] IN
    /\ Pending(t) /\ ~dead /\ deferred = <<>>
    /\ \/ /\ c.m = "add"
          /\ \E i \in Idx \ fwIfs :
               /\ fwIfs' = fwIfs \cup {i}
               /\ inds' = Append(inds, Confirm(t, "ok", i))
          /\ UNCHANGED <<fwStarted, fwScan, fwRoc>>
       \/ /\ c.m = "remove"
          /\ fwIfs' = fwIfs \ {c.i}
          /\ inds' = Append(inds, Confirm(t, "ok", 0))
          /\ UNCHANGED <<fwStarted, fwScan, fwRoc>>
       \/ /\ c.m \in {"start", "reset"}
          /\ fwStarted' = (c.m = "start")
          /\ fwIfs' = IF c.m = "reset" THEN {} ELSE fwIfs
          /\ inds' = Append(inds, Confirm(t, "ok", 0))
          /\ UNCHANGED <<fwScan, fwRoc>>
       \/ /\ c.m = "scan"
          /\ fwScan' = TRUE
          /\ inds' = Append(inds, Confirm(t, "ok", 0))
          /\ UNCHANGED <<fwIfs, fwStarted, fwRoc>>
       \/ /\ c.m = "scancancel"
          /\ inds' = Append(inds, Confirm(t, "ok", 0))
          /\ UNCHANGED <<fwIfs, fwStarted, fwScan, fwRoc>>
       \/ /\ c.m = "roc"
          /\ \/ /\ fwRoc = "none" /\ fwRoc' = "going"
                /\ inds' = Append(inds, Confirm(t, "ok", 0))
             \/ /\ fwRoc # "none" /\ UNCHANGED fwRoc
                /\ inds' = Append(inds, Confirm(t, "refused", 0))
          /\ UNCHANGED <<fwIfs, fwStarted, fwScan>>
       \/ /\ c.m = "cancelroc"
          /\ inds' = Append(inds, Confirm(t, "ok", 0))
          /\ UNCHANGED <<fwIfs, fwStarted, fwScan, fwRoc>>
    /\ UNCHANGED <<vifVars, tabVars, p2pVars, scanVars, thrVars, dead,
                   devStarted, monitor, roc, running, deferred, ops>>

(* The command work item pushes a deferred removal.                        *)
FwDeferred ==
    /\ deferred # <<>>
    /\ deferred' = Tail(deferred)
    /\ fwIfs' = IF dead THEN fwIfs ELSE fwIfs \ {Head(deferred)}
    /\ UNCHANGED <<vifVars, tabVars, p2pVars, scanVars, thrVars, fwStarted,
                   fwScan, fwRoc, dead, devStarted, monitor, roc, running,
                   inds, ops>>

(* What it reports by itself.                                              *)
FwReport ==
    /\ ~dead
    /\ \/ /\ fwScan
          /\ fwScan' = FALSE
          /\ inds' = Append(inds, [m |-> "scandone"])
          /\ UNCHANGED fwRoc
       \/ /\ fwRoc = "going"
          /\ fwRoc' = "there"
          /\ inds' = Append(inds, [m |-> "rocon"])
          /\ UNCHANGED fwScan
       \/ /\ fwRoc # "none"
          /\ fwRoc' = "none"
          /\ inds' = Append(inds, [m |-> "rocexp"])
          /\ UNCHANGED fwScan
    /\ UNCHANGED <<vifVars, tabVars, p2pVars, scanVars, thrVars, fwIfs,
                   fwStarted, dead, devStarted, monitor, roc, running,
                   deferred, ops>>

FwDie ==
    /\ MayDie /\ ~dead
    /\ dead' = TRUE
    /\ UNCHANGED <<vifVars, tabVars, p2pVars, scanVars, thrVars, fwIfs,
                   fwStarted, fwScan, fwRoc, devStarted, monitor, roc,
                   running, deferred, inds, ops>>

(* A command that is never confirmed times out, those after it fail.       *)
Timeout(t) ==
    /\ Pending(t) /\ dead
    /\ reply' = [reply EXCEPT ![t] = [status |-> "error", idx |-> 0]]
    /\ UNCHANGED <<vifVars, tabVars, p2pVars, scanVars, pc, arg, cmd, fwVars,
                   devStarted, monitor, roc, running, deferred, inds, ops>>

-----------------------------------------------------------------------------
(* The receive thread: one message, in order.                              *)

Receive(m) == inds # <<>> /\ Head(inds).m = m /\ inds' = Tail(inds)

RxConfirm ==
    /\ Receive("cfm")
    /\ reply' = [reply EXCEPT ![Head(inds).t] =
                     [status |-> Head(inds).status, idx |-> Head(inds).idx]]
    /\ UNCHANGED <<vifVars, tabVars, p2pVars, scanVars, pc, arg, cmd, fwVars,
                   devStarted, monitor, roc, running, deferred, ops>>

(* rwnx_rx_scanu_start_cfm.                                                *)
RxScanDone ==
    /\ Receive("scandone")
    /\ kscan' = IF scanReq # None THEN None ELSE kscan
    /\ scanReq' = None /\ scanning' = FALSE
    /\ UNCHANGED <<vifVars, tabVars, p2pVars, thrVars, fwVars, devStarted,
                   monitor, roc, running, deferred, ops>>

(* rwnx_rx_chan_switch_ind, for a remain-on-channel.                       *)
RxRocOn ==
    /\ Receive("rocon")
    /\ roc' = IF roc = None THEN None ELSE [roc EXCEPT !.on = TRUE]
    /\ UNCHANGED <<vifVars, tabVars, p2pVars, scanVars, thrVars, fwVars,
                   devStarted, monitor, running, deferred, ops>>

(* rwnx_rx_remain_on_channel_exp_ind.                                      *)
RxRocExpired ==
    /\ Receive("rocexp")
    /\ roc' = None
    /\ UNCHANGED <<vifVars, tabVars, p2pVars, scanVars, thrVars, fwVars,
                   devStarted, monitor, running, deferred, ops>>

-----------------------------------------------------------------------------
NetStep == OpenFail \/ OpenDevice \/ OpenP2pAdded \/ OpenAdded
           \/ CloseCancelled \/ CloseRemoved \/ CloseReset
CfgStep == ChangeFail \/ ChangeCancelled \/ ChangeRemoved \/ ChangeAdded
           \/ StopCancelled \/ ScanAdded \/ ScanFail \/ ScanStarted
           \/ RocAdded \/ RocAddFail \/ RocSent \/ RocCancelled
Rx == RxConfirm \/ RxScanDone \/ RxRocOn \/ RxRocExpired
Call == \/ \E v \in Vifs : \/ OpenBegin(v) \/ CloseBegin(v) \/ AddIface(v)
                           \/ DelIface(v) \/ StartP2pDevice(v)
                           \/ StopP2pDevice(v) \/ ScanBegin(v)
                           \/ RocBegin(v, FALSE) \/ MgmtTxOffChannel(v)
                           \/ \E k \in Changes : ChangeIface(v, k)
        \/ CancelRoc
Firmware == FwDeferred \/ FwReport \/ \E t \in Threads : FwStep(t)

Next == \/ Call \/ NetStep \/ CfgStep \/ Rx \/ Firmware \/ FwDie
        \/ P2pAliveTimeout \/ \E t \in Threads : Timeout(t)

Spec == Init /\ [][Next]_vars

-----------------------------------------------------------------------------
(* The types of the driver's state.                                        *)
TypeOK ==
    /\ vifs \subseteq Vifs /\ up \subseteq Vifs /\ running \subseteq Vifs
    /\ drvIdx \in [Vifs -> Idx] /\ vifIdx \in [Vifs -> Idx]
    /\ type \in [Vifs -> Types]
    /\ table \in [Idx -> Vifs \cup {None}]
    /\ started \in Int /\ count \in 0 .. AliveCount
    /\ {scanReq, kscan, p2pDev} \subseteq Vifs \cup {None}
    /\ roc = None \/ roc \in [v : Vifs, mgmt : BOOLEAN, on : BOOLEAN]

(* vif_table never leads a message handler to an interface that is down,   *)
(* deleted or known to the firmware by another index; an interface that is *)
(* up is found by its index, except inside a change of its type; and       *)
(* vif_started, on which alone rwnx_open starts the firmware and           *)
(* rwnx_close resets it, counts those that are up.                         *)
TableExact ==
    /\ \A i \in Idx : table[i] # None =>
         table[i] \in vifs \cap up /\ vifIdx[table[i]] = i
    /\ \A v \in up : \/ table[vifIdx[v]] = v
                     \/ pc["cfg"] = "chg.added" /\ arg["cfg"] = v
                     \/ dead
    /\ started = Cardinality(up)

(* A scan request is passed to cfg80211_scan_done once and not kept after  *)
(* it; and, while the firmware answers, a request cfg80211 waits for is    *)
(* going to be completed: the driver holds it, and the firmware is at it,  *)
(* is about to be asked, or has reported its end.                          *)
ScanHeld ==
    /\ scanReq # None => kscan = scanReq
    /\ kscan # None /\ ~dead =>
         /\ scanReq = kscan
         /\ \/ fwScan
            \/ pc["cfg"] \in {"scan.added", "scan.started"}
            \/ \E k \in DOMAIN inds : inds[k].m = "scandone"

(* The alive timer is only pending while the driver has its P2P device up: *)
(* the handler removes that interface without a test.                      *)
TimerHasDevice == timer => p2pDev \in vifs \cap up

(* Outside of operations the firmware and the driver agree on which        *)
(* interfaces there are, by index.                                         *)
FwAgrees ==
    (\A t \in Threads : pc[t] = "idle") /\ deferred = <<>> /\ ~dead
        => /\ fwIfs = {vifIdx[v] : v \in up}
           /\ Cardinality(fwIfs) = Cardinality(up)
-----------------------------------------------------------------------------
(* The invariant behind the properties above, for kernels whose operations *)
(* all hold RTNL: at most one of the two threads is inside an operation.   *)

OpenAt == {"open", "open.start", "open.p2p", "open.added"}
CloseAt == {"close.scan", "close.removed", "close.reset"}
CfgAt == Both \cup {"stop.scan", "scan.added", "scan.started",
                    "roc.added", "roc.sent", "roc.cancel"}
AddAt == {"open.p2p", "open.added", "chg.added", "scan.added", "roc.added"}
RemoveAt == {"close.removed", "chg.removed"}
Silent == {"idle", "open"}      \* no command is under way

(* The confirmation of t's command is on its way, or has come.             *)
Confirms(t, k) == inds[k].m = "cfm" /\ inds[k].t = t
Answered(t) == (\E k \in DOMAIN inds : Confirms(t, k)) \/ reply[t] # None
(* The firmware has given t the index i ...                                *)
Given(t, i) ==
    /\ pc[t] \in AddAt
    /\ \/ \E k \in DOMAIN inds : Confirms(t, k) /\ inds[k].idx = i
       \/ reply[t] # None /\ reply[t].status = "ok" /\ reply[t].idx = i
(* ... or has removed it for t.                                            *)
Removed(t, i) == pc[t] \in RemoveAt /\ cmd[t].i = i /\ Answered(t)
Changing(v) == pc["cfg"] = "chg.added" /\ arg["cfg"] = v

Shapes ==
    /\ vifs \subseteq Vifs /\ DOMAIN type = Vifs
    /\ vifIdx \in [Vifs -> Idx] /\ table \in [Idx -> Vifs \cup {None}]
    /\ fwIfs \subseteq Idx /\ deferred \in Seq(Idx) /\ inds \in Seq(Message)
    /\ DOMAIN pc = Threads /\ DOMAIN arg = Threads
    /\ DOMAIN cmd = Threads /\ DOMAIN reply = Threads
    /\ pc["net"] \in {"idle"} \cup OpenAt \cup CloseAt
    /\ pc["cfg"] \in {"idle"} \cup CfgAt
    /\ \A t \in Threads : reply[t] # None => reply[t].idx \in Idx

OneOperation == pc["net"] = "idle" \/ pc["cfg"] = "idle"

(* A thread has sent the command of the place where it is, and gets one    *)
(* confirmation; only remain-on-channel is refused by a firmware that      *)
(* answers.                                                                *)
CommandOf(t) ==
    /\ pc[t] \in Silent => cmd[t] = None /\ reply[t] = None
    /\ pc[t] \notin Silent =>
         /\ cmd[t] # None
         /\ cmd[t].m = "add" <=> pc[t] \in AddAt
         /\ cmd[t].m = "remove" <=> pc[t] \in RemoveAt
         /\ cmd[t].m = "reset" <=> pc[t] = "close.reset"
         /\ cmd[t].m = "scan" <=> pc[t] = "scan.started"
         /\ cmd[t].m = "roc" <=> pc[t] = "roc.sent"
    /\ pc[t] \in RemoveAt => cmd[t].i = vifIdx[arg[t]]
    /\ reply[t] # None /\ reply[t].status # "ok" => dead \/ pc[t] = "roc.sent"
Threading == OneOperation /\ \A t \in Threads : CommandOf(t)
OneAnswer ==
    \A k \in DOMAIN inds : inds[k].m = "cfm" =>
       /\ pc[inds[k].t] \notin Silent /\ reply[inds[k].t] = None
       /\ inds[k].status = "ok" \/ pc[inds[k].t] = "roc.sent"
       /\ \A l \in DOMAIN inds : inds[l].m = "cfm" => l = k

(* What each operation knows of the interface it works on.                 *)
Opening ==
    pc["net"] \in OpenAt =>
       LET v == arg["net"] IN
       /\ v \in running /\ type[v] # "P2P_DEVICE"
       /\ type[v] = "P2P_CLIENT" => p2pDev \in vifs
       /\ v \in up => /\ dead /\ \A k \in DOMAIN inds : ~Confirms("net", k)
                      /\ reply["net"] # None => ~Ok("net")
       /\ pc["net"] = "open.p2p" => p2pDev \in vifs \ up
Closing ==
    pc["net"] \in CloseAt =>
       LET v == arg["net"] IN
       /\ v \in Vifs /\ type[v] # "P2P_DEVICE" /\ v \notin running /\ scanReq # v
       /\ pc["net"] # "close.reset" => v \in up
       /\ pc["net"] = "close.reset" => up = {}
Configuring ==
    /\ pc["cfg"] \in Both => arg["cfg"] \in up /\ type[arg["cfg"]] # "P2P_DEVICE"
    /\ pc["cfg"] \in {"scan.added", "roc.added"} =>
          arg["cfg"] = p2pDev /\ p2pDev \in vifs \ up

(* The P2P device is up exactly while its timer runs, and no other P2P     *)
(* device is.                                                              *)
DeviceTimed ==
    /\ alive <=> timer
    /\ timer => p2pDev \in up
    /\ \A v \in up : type[v] = "P2P_DEVICE" => v = p2pDev /\ timer
    /\ p2pDev # None => /\ p2pDev \in Vifs
                        /\ type[p2pDev] = "P2P_DEVICE" /\ Type0[p2pDev] = "P2P_DEVICE"

(* The others are up while they run, but for what is under way.            *)
RunningUp ==
    /\ up \cup running \subseteq vifs
    /\ \A v \in running : type[v] # "P2P_DEVICE" =>
          v \in up \/ (pc["net"] \in OpenAt /\ arg["net"] = v)
    /\ \A v \in up : type[v] # "P2P_DEVICE" =>
          v \in running \/ dead \/ (pc["net"] \in CloseAt /\ arg["net"] = v)

TableInv ==
    /\ TableExact
    /\ \A i \in Idx : table[i] # None => ~Changing(table[i])
    /\ \A t \in Threads, i \in Idx : Given(t, i) =>
          \A v \in up : vifIdx[v] # i \/ Changing(v)

(* The firmware has the interfaces that are up and those whose removal     *)
(* waits in the list of commands.                                          *)
Deferring ==
    /\ \A k, l \in DOMAIN deferred : deferred[k] = deferred[l] => k = l \/ dead
    /\ \A k \in DOMAIN deferred :
          /\ \A v \in up : vifIdx[v] # deferred[k] \/ Changing(v) \/ dead
          /\ \A t \in Threads : ~Given(t, deferred[k])
Has(i) ==
    \/ /\ \E v \in up : vifIdx[v] = i /\ ~Changing(v)
       /\ \A t \in Threads : ~Removed(t, i)
    \/ \E k \in DOMAIN deferred : deferred[k] = i
    \/ \E t \in Threads : Given(t, i)
FirmwareHas == ~dead => \A i \in Idx : i \in fwIfs <=> Has(i)

ScanInv ==
    /\ ScanHeld
    /\ pc["cfg"] = "scan.started" /\ Answered("cfg") /\ kscan # None /\ ~dead =>
          fwScan \/ \E k \in DOMAIN inds : inds[k].m = "scandone"

IfaceInv ==
    /\ Shapes /\ Threading /\ OneAnswer /\ Opening /\ Closing /\ Configuring
    /\ DeviceTimed /\ RunningUp /\ TableInv /\ Deferring /\ FirmwareHas /\ ScanInv
=============================================================================
