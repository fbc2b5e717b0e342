------------------------------- MODULE ApSta --------------------------------
(***************************************************************************)
(* The stations of an access point: rwnx_cfg80211_add_station and          *)
(* _del_station, the stations' part of _start_ap and _stop_ap, the work    *)
(* item apm_staloss_work_process (rwnx_main.c) and the handlers of         *)
(* MM_PS_CHANGE_IND and of the station-loss indication (rwnx_msg_rx.c).    *)
(*                                                                         *)
(* The operations of cfg80211 run one at a time, under the wiphy's lock.   *)
(* The work item takes cb_lock only, and the receive thread takes none:    *)
(* both run between any two steps of an operation.  A step is the code     *)
(* between two commands, cut where cb_lock is given up.  A message handler *)
(* is one step.                                                            *)
(***************************************************************************)
EXTENDS Integers, Sequences, FiniteSets

CONSTANTS
    Mac,        \* addresses of stations
    Idx,        \* indices of sta_table
    NONE,
    MaxOps,     \* bound on the operations of user space
    MaxInd      \* bound on the indications in flight

ApStaAssumption ==
    /\ NONE \notin Mac \cup Idx
    /\ MaxOps \in Nat /\ MaxInd \in Nat

VARIABLES
    ap,         \* the access point is started
    sta,        \* sta_table: valid, mac_addr, ps.active
    sta_list,   \* vif->ap.sta_list
    txq,        \* entries whose queues are initialised
    adding_sta, \* rwnx_hw->adding_sta
    op,         \* the operation of cfg80211 under way
    lost,       \* rwnx_hw->sta_mac_addr
    queued,     \* apmStalossWork is queued
    work,       \* where the work item is
    crashed,    \* the command manager is CRASHED
    msgs,       \* messages from the firmware, in order
    fwSta,      \* firmware: the station of an index
    fwPs,       \* firmware: stations that sleep
    ops         \* operations so far

drvVars == <<ap, sta, sta_list, txq, adding_sta>>
actors == <<op, lost, queued, work>>
fwVars == <<msgs, fwSta, fwPs>>
vars == <<drvVars, actors, crashed, fwVars, ops>>

(* Actors that send commands: cfg80211's operation and the work item.      *)
Idle == [at |-> "idle", mac |-> NONE, idx |-> NONE, reply |-> "none"]
Actor == {"op", "work"}
Of(a) == IF a = "op" THEN op ELSE work

Free == [valid |-> FALSE, mac |-> NONE, ps |-> FALSE]

Init ==
    /\ ap = FALSE
    /\ sta = [i \in Idx |-> Free] /\ sta_list = {} /\ txq = {}
    /\ adding_sta = FALSE
    /\ op = Idle /\ work = Idle /\ lost = NONE /\ queued = FALSE
    /\ crashed = FALSE /\ msgs = <<>>
    /\ fwSta = [i \in Idx |-> NONE] /\ fwPs = {}
    /\ ops = 0

-----------------------------------------------------------------------------
(* A command and its confirmation; a crashed manager answers -EPIPE.       *)
Sent(at, m, i) ==
    [at |-> at, mac |-> m, idx |-> i,
     reply |-> IF crashed THEN "EPIPE" ELSE "none"]

Waits(r, at) == r.at = at /\ r.reply = "none"
Answered(r, at) == r.at = at /\ r.reply # "none"

Begin == op = Idle /\ ops < MaxOps /\ ops' = ops + 1

(* rwnx_cfg80211_start_ap: the list is empty, the queues are new.          *)
StartAp ==
    /\ Begin /\ ~ap
    /\ op' = Sent("start", NONE, NONE)
    /\ UNCHANGED <<drvVars, lost, queued, work, crashed, fwVars>>

StartApEnd ==
    /\ Answered(op, "start")
    /\ ap' = (op.reply = "ok")
    /\ op' = Idle
    /\ UNCHANGED <<sta, sta_list, txq, adding_sta, lost, queued,
                   work, crashed, fwVars, ops>>

-----------------------------------------------------------------------------
(* rwnx_cfg80211_add_station.  hostapd adds a station it does not have.    *)
AddStation(m) ==
    /\ Begin /\ ap
    /\ \A i \in sta_list : sta[i].mac # m
    /\ adding_sta' = TRUE
    /\ op' = Sent("add", m, NONE)
    /\ UNCHANGED <<ap, sta, sta_list, txq, lost, queued, work,
                   crashed, fwVars>>

(* CO_OK: the entry is filled and listed under cb_lock; rwnx_ps_bh_enable  *)
(* takes the state the confirmation or an early indication gave.           *)
Entered(i, m, pm) ==
    /\ sta' = [sta EXCEPT ![i] = [valid |-> TRUE, mac |-> m, ps |-> @.ps \/ pm]]
    /\ sta_list' = sta_list \cup {i}
    /\ txq' = txq \cup {i}

(* An error of the command returns before adding_sta is reset.             *)
AddStationEnd ==
    /\ Answered(op, "add")
    /\ CASE op.reply \in {"awake", "asleep"} ->
                /\ Entered(op.idx, op.mac, op.reply = "asleep")
                /\ adding_sta' = FALSE
         [] op.reply = "full" ->
                adding_sta' = FALSE /\ UNCHANGED <<sta, sta_list, txq>>
         [] OTHER -> UNCHANGED <<adding_sta, sta, sta_list, txq>>
    /\ op' = Idle
    /\ UNCHANGED <<ap, lost, queued, work, crashed, fwVars, ops>>

-----------------------------------------------------------------------------
(* (Mutants: list_del forgotten; the indication during add_station         *)
(* ignored.)                                                               *)
UnlistKept(i) ==
    /\ sta' = [sta EXCEPT ![i].valid = FALSE, ![i].ps = FALSE]
    /\ UNCHANGED sta_list

(* Removal, as del_station and the work item do it: under cb_lock the      *)
(* entry is marked and taken off the list ...                              *)
Unlist(i) ==
    /\ sta' = [sta EXCEPT ![i].valid = FALSE, ![i].ps = FALSE]
    /\ sta_list' = sta_list \ {i}

(* ... and without it the reordering and the queues are given back, before *)
(* the firmware is told.                                                   *)
Undo(i) ==
    txq' = txq \ {i}

(* rwnx_cfg80211_del_station; stop_ap calls it with mac NULL until the     *)
(* list is empty.                                                          *)
Matches(i, m) == i \in sta_list /\ (m = NONE \/ sta[i].mac = m)

DelTake(at, m, i) ==
    /\ Matches(i, m)
    /\ Unlist(i)
    /\ op' = [Idle EXCEPT !.at = at, !.mac = m, !.idx = i]
    /\ UNCHANGED <<ap, txq, adding_sta, lost, queued, work,
                   crashed, fwVars>>

DelStation(m) ==
    /\ Begin /\ ap
    /\ \E i \in Idx : DelTake("del", m, i)

DelNone(m) ==
    /\ Begin /\ ap
    /\ ~ \E i \in Idx : Matches(i, m)
    /\ UNCHANGED <<drvVars, actors, crashed, fwVars>>

DelSend(at, sent) ==
    /\ op.at = at
    /\ Undo(op.idx)
    /\ op' = Sent(sent, op.mac, op.idx)
    /\ UNCHANGED <<ap, sta, sta_list, adding_sta, lost, queued, work, crashed,
                   fwVars, ops>>

DelEnd ==
    /\ Answered(op, "del_sent")
    /\ op' = Idle
    /\ UNCHANGED <<drvVars, lost, queued, work, crashed, fwVars, ops>>

-----------------------------------------------------------------------------
(* rwnx_cfg80211_stop_ap.                                                  *)
StopAp ==
    /\ Begin /\ ap
    /\ op' = [Idle EXCEPT !.at = "stop_loop"]
    /\ UNCHANGED <<drvVars, lost, queued, work, crashed, fwVars>>

StopNext ==
    /\ \/ op.at = "stop_loop"
       \/ Answered(op, "stop_del_sent")
    /\ IF sta_list = {}
         THEN /\ op' = Sent("stop", NONE, NONE)
              /\ UNCHANGED <<drvVars, lost, queued, work, crashed, fwVars>>
         ELSE \E i \in Idx : DelTake("stop_del", NONE, i)
    /\ UNCHANGED ops

StopApEnd ==
    /\ Answered(op, "stop")
    /\ ap' = FALSE
    /\ op' = Idle
    /\ UNCHANGED <<sta, sta_list, txq, adding_sta, lost, queued,
                   work, crashed, fwVars, ops>>

-----------------------------------------------------------------------------
(* apm_staloss_work_process.                                               *)
WorkTake ==
    /\ queued /\ work = Idle
    /\ queued' = FALSE
    /\ IF \E i \in sta_list : sta[i].mac = lost
         THEN \E i \in sta_list :
                 /\ sta[i].mac = lost
                 /\ Unlist(i)
                 /\ work' = [Idle EXCEPT !.at = "del", !.mac = lost, !.idx = i]
         ELSE UNCHANGED <<sta, sta_list, work>>
    /\ UNCHANGED <<ap, txq, adding_sta, op, lost, crashed, fwVars,
                   ops>>

WorkSend ==
    /\ work.at = "del"
    /\ Undo(work.idx)
    /\ work' = Sent("del_sent", work.mac, work.idx)
    /\ UNCHANGED <<ap, sta, sta_list, adding_sta, op, lost, queued, crashed,
                   fwVars, ops>>

WorkEnd ==
    /\ Answered(work, "del_sent")
    /\ work' = Idle
    /\ UNCHANGED <<drvVars, op, lost, queued, crashed, fwVars, ops>>

-----------------------------------------------------------------------------
(* The receive thread.                                                     *)
(* rwnx_apm_staloss_ind: one address for the work item.                    *)
ApmStalossInd(m) ==
    /\ lost' = m.mac /\ queued' = TRUE
    /\ UNCHANGED <<drvVars, op, work>>

PsChangeIndValid(m) ==
    /\ sta' = IF sta[m.idx].valid THEN [sta EXCEPT ![m.idx].ps = m.ps] ELSE sta
    /\ UNCHANGED <<ap, sta_list, txq, adding_sta, actors>>

(* rwnx_rx_ps_change_ind; on an entry that is not valid yet it is kept for *)
(* add_station.                                                            *)
PsChangeInd(m) ==
    /\ sta' = IF sta[m.idx].valid \/ adding_sta
                THEN [sta EXCEPT ![m.idx].ps = m.ps] ELSE sta
    /\ UNCHANGED <<ap, sta_list, txq, adding_sta, actors>>

(* The confirmation of a command ends its wait.                            *)
Confirm(m) ==
    /\ op' = IF m.to = "op" THEN [op EXCEPT !.reply = m.reply,
                                  !.idx = IF m.idx = NONE THEN @ ELSE m.idx]
                            ELSE op
    /\ work' = IF m.to = "work" THEN [work EXCEPT !.reply = m.reply] ELSE work
    /\ UNCHANGED <<drvVars, lost, queued>>

Receive ==
    /\ msgs # <<>>
    /\ LET m == Head(msgs) IN
         CASE m.type = "lost" -> ApmStalossInd(m)
           [] m.type = "ps" -> PsChangeInd(m)
           [] m.type = "cfm" -> Confirm(m)
    /\ msgs' = Tail(msgs)
    /\ UNCHANGED <<crashed, fwSta, fwPs, ops>>

-----------------------------------------------------------------------------
(* The firmware (external): it answers a command, and tells of stations    *)
(* that fall asleep, wake up or are gone.                                  *)
CfmMsg(a, r, i) == [type |-> "cfm", to |-> a, reply |-> r, idx |-> i]
Quiet == Cardinality({k \in DOMAIN msgs : msgs[k].type # "cfm"}) < MaxInd

FwTaken(a, at) ==
    /\ ~crashed /\ Waits(Of(a), at)
    /\ \A k \in DOMAIN msgs : msgs[k].type = "cfm" => msgs[k].to # a

FwAdd ==
    /\ FwTaken("op", "add")
    /\ \/ \E i \in Idx, r \in {"awake", "asleep"} :
            /\ fwSta[i] = NONE
            /\ fwSta' = [fwSta EXCEPT ![i] = op.mac]
            /\ fwPs' = IF r = "asleep" THEN fwPs \cup {i} ELSE fwPs
            /\ msgs' = Append(msgs, CfmMsg("op", r, i))
       \/ /\ \A i \in Idx : fwSta[i] # NONE
          /\ msgs' = Append(msgs, CfmMsg("op", "full", NONE))
          /\ UNCHANGED <<fwSta, fwPs>>
    /\ UNCHANGED <<drvVars, actors, crashed, ops>>

FwDel(a, at) ==
    /\ FwTaken(a, at)
    /\ fwSta' = [fwSta EXCEPT ![Of(a).idx] = NONE]
    /\ fwPs' = fwPs \ {Of(a).idx}
    /\ msgs' = Append(msgs, CfmMsg(a, "ok", NONE))
    /\ UNCHANGED <<drvVars, actors, crashed, ops>>

FwApm(at) ==
    /\ FwTaken("op", at)
    /\ \E r \in {"ok"} \cup (IF at = "start" THEN {"busy"} ELSE {}) :
          msgs' = Append(msgs, CfmMsg("op", r, NONE))
    /\ UNCHANGED <<drvVars, actors, crashed, fwSta, fwPs, ops>>

FwPs(i) ==
    /\ ~crashed /\ Quiet /\ fwSta[i] # NONE
    /\ fwPs' = (fwPs \cup {i}) \ (fwPs \cap {i})
    /\ msgs' = Append(msgs, [type |-> "ps", idx |-> i, ps |-> i \notin fwPs])
    /\ UNCHANGED <<drvVars, actors, crashed, fwSta, ops>>

FwLost(i) ==
    /\ ~crashed /\ Quiet /\ fwSta[i] # NONE
    /\ msgs' = Append(msgs, [type |-> "lost", mac |-> fwSta[i]])
    /\ UNCHANGED <<drvVars, actors, crashed, fwSta, fwPs, ops>>

(* The firmware dies; a command that waits runs into its timeout.          *)
Die ==
    /\ ~crashed
    /\ \E a \in Actor : Of(a).at # "idle" /\ Of(a).reply = "none"
    /\ crashed' = TRUE
    /\ UNCHANGED <<drvVars, actors, fwVars, ops>>

Timeout(a) ==
    /\ crashed /\ msgs = <<>>
    /\ Of(a).at \notin {"idle", "del", "stop_del", "stop_loop"}
    /\ Of(a).reply = "none"
    /\ op' = IF a = "op" THEN [op EXCEPT !.reply = "ETIMEDOUT"] ELSE op
    /\ work' = IF a = "work" THEN [work EXCEPT !.reply = "ETIMEDOUT"] ELSE work
    /\ UNCHANGED <<drvVars, lost, queued, crashed, fwVars, ops>>

-----------------------------------------------------------------------------
Calls ==
    \/ StartAp \/ StopAp
    \/ \E m \in Mac : AddStation(m) \/ DelStation(m) \/ DelNone(m)

OpSteps ==
    \/ StartApEnd \/ AddStationEnd \/ DelEnd \/ StopNext \/ StopApEnd
    \/ DelSend("del", "del_sent") \/ DelSend("stop_del", "stop_del_sent")

WorkSteps == WorkTake \/ WorkSend \/ WorkEnd

FwAnswers ==
    \/ FwAdd
    \/ \E at \in {"start", "stop"} : FwApm(at)
    \/ \E at \in {"del_sent", "stop_del_sent"} : FwDel("op", at)
    \/ FwDel("work", "del_sent")

Next ==
    \/ Calls \/ OpSteps \/ WorkSteps \/ Receive
    \/ FwAnswers
    \/ \E i \in Idx : FwPs(i) \/ FwLost(i)
    \/ Die
    \/ \E a \in Actor : Timeout(a)

Spec == Init /\ [][Next]_vars

(* Threads run when they can; a command is answered or times out.          *)
Fairness ==
    /\ WF_vars(OpSteps) /\ WF_vars(WorkSteps) /\ WF_vars(Receive)
    /\ WF_vars(FwAnswers) /\ WF_vars(\E a \in Actor : Timeout(a))

FairSpec == Spec /\ Fairness

-----------------------------------------------------------------------------
(* Entry i is being removed: off the list, the firmware not told yet.      *)
Removing(a, i) ==
    Of(a).idx = i /\ Of(a).at \in {"del", "stop_del", "del_sent", "stop_del_sent"}

Told(a) ==
    \/ Of(a).reply # "none"
    \/ \E k \in DOMAIN msgs : msgs[k].type = "cfm" /\ msgs[k].to = a

Adding(i) ==
    /\ op.at = "add"
    /\ \/ op.idx = i
       \/ \E k \in DOMAIN msgs :
             msgs[k].type = "cfm" /\ msgs[k].to = "op" /\ msgs[k].idx = i

(* While commands are answered, the tables of driver and firmware agree:   *)
(* an entry is valid exactly when it is listed, its queues exist and the   *)
(* firmware has that station there, unless one actor is about to enter it  *)
(* or to take it away; and no two actors take the same entry away, so that *)
(* ME_STA_DEL_REQ never names an index that was given to somebody else.    *)
StationsAgree ==
    ~crashed =>
      /\ \A i \in Idx :
           /\ sta[i].valid <=> i \in sta_list
           /\ sta[i].valid => i \in txq /\ fwSta[i] = sta[i].mac
           /\ (i \in txq /\ ~sta[i].valid) => \E a \in Actor : Removing(a, i)
           /\ (fwSta[i] # NONE /\ ~sta[i].valid) =>
                 Adding(i) \/ \E a \in Actor : Removing(a, i)
           /\ \A a \in Actor :
                 (Removing(a, i) /\ ~Told(a)) => fwSta[i] = sta[i].mac
      /\ \A i \in Idx : ~(Removing("op", i) /\ ~Told("op")
                            /\ Removing("work", i) /\ ~Told("work"))

(* Traffic to a sleeping station is held: once no message is on its way, a *)
(* station that the firmware knows asleep is asleep for the driver, also   *)
(* when it fell asleep while add_station waited for its confirmation.      *)
SleepKnown ==
    (~crashed /\ msgs = <<>>) =>
      \A i \in Idx : (sta[i].valid /\ i \in fwPs) => sta[i].ps

(* The tables of stations of driver and firmware agree, and so does who is *)
(* asleep.                                                                 *)
StationTables == StationsAgree /\ SleepKnown

(* stop_ap empties the list and ends, also when the firmware is dead and   *)
(* while the work item takes stations off the same list.                   *)
StopEnds == (op.at = "stop_loop") ~> (op = Idle)

-----------------------------------------------------------------------------
(* Why the tables agree: what the actors and the messages on their way may *)
(* be, while commands are answered.                                        *)

Station == [valid : BOOLEAN, mac : Mac \cup {NONE}, ps : BOOLEAN]
Reply == {"none", "ok", "busy", "awake", "asleep", "full", "EPIPE", "ETIMEDOUT"}
Before == {"del", "stop_del"}
After == {"del_sent", "stop_del_sent"}
Operation ==
    [at : {"idle", "start", "stop", "stop_loop", "add"} \cup Before \cup After,
     mac : Mac \cup {NONE}, idx : Idx \cup {NONE}, reply : Reply]

Added == {"awake", "asleep"}
Message ==
    [type : {"lost"}, mac : Mac \cup {NONE}]
    \cup [type : {"ps"}, idx : Idx, ps : BOOLEAN]
    \cup [type : {"cfm"}, to : Actor, reply : Reply \ Added, idx : Idx \cup {NONE}]
    \cup [type : {"cfm"}, to : Actor, reply : Added, idx : Idx]

ApTypeOK ==
    /\ ap \in BOOLEAN /\ sta \in [Idx -> Station]
    /\ sta_list \subseteq Idx /\ txq \subseteq Idx /\ adding_sta \in BOOLEAN
    /\ op \in Operation /\ work \in Operation
    /\ op.reply \in Added => op.idx \in Idx
    /\ crashed \in BOOLEAN /\ msgs \in Seq(Message)
    /\ fwSta \in [Idx -> Mac \cup {NONE}] /\ fwPs \subseteq Idx

(* A confirmation finds the one command of its actor that waits.  That of  *)
(* an added station names its index, no other does.                        *)
CfmOf(a, k) == msgs[k].type = "cfm" /\ msgs[k].to = a

Awaited ==
    /\ \A a \in Actor, k \in DOMAIN msgs : CfmOf(a, k) =>
          /\ Of(a).reply = "none" /\ Of(a).at \in {"start", "stop", "add"} \cup After
          /\ IF Of(a).at = "add"
               THEN \/ msgs[k].reply \in Added /\ msgs[k].idx \in Idx
                    \/ msgs[k].reply = "full" /\ msgs[k].idx = NONE
               ELSE msgs[k].reply \in {"ok", "busy"} /\ msgs[k].idx = NONE
    /\ \A a \in Actor, k, j \in DOMAIN msgs : CfmOf(a, k) /\ CfmOf(a, j) => k = j

(* The commands of the two actors.                                         *)
Commands ==
    /\ work.at \in {"idle", "del", "del_sent"}
    /\ \A a \in Actor :
         /\ Of(a).at \in Before \cup After => Of(a).idx \in Idx
         /\ Of(a).at \in Before \cup {"stop_loop", "idle"} => Of(a).reply = "none"
         /\ Of(a).reply \notin {"EPIPE", "ETIMEDOUT"}
         /\ Of(a).at # "add" => Of(a).reply \in {"none", "ok", "busy"}
    /\ op.at = "add" =>
         /\ adding_sta /\ op.mac \in Mac
         /\ IF op.reply \in Added THEN op.idx \in Idx ELSE op.idx = NONE
         /\ op.reply \in {"none", "awake", "asleep", "full"}

(* An index that is being entered is the new station's, one that is being  *)
(* taken away is still the old one's, and an index is not both.            *)
Entering(i) == op.at = "add" /\ (op.idx = i \/ \E k \in DOMAIN msgs :
                                     CfmOf("op", k) /\ msgs[k].idx = i)
Leaving(a, i) == Removing(a, i) /\ ~Told(a)

Places ==
    \A i \in Idx :
      /\ sta[i].valid <=> i \in sta_list
      /\ sta[i].valid => i \in txq /\ fwSta[i] = sta[i].mac /\ sta[i].mac \in Mac
      /\ Entering(i) => fwSta[i] = op.mac /\ ~sta[i].valid
      /\ \A a \in Actor : Leaving(a, i) =>
            fwSta[i] = sta[i].mac /\ sta[i].mac \in Mac /\ ~sta[i].valid
      /\ \A a \in Actor : ~(Leaving(a, i) /\ Entering(i))
      /\ ~(Leaving("op", i) /\ Leaving("work", i))
      /\ (i \in txq /\ ~sta[i].valid) =>
            \E a \in Actor : Of(a).idx = i /\ Of(a).at \in Before
      /\ fwSta[i] # NONE /\ ~sta[i].valid =>
            Entering(i) \/ \E a \in Actor : Leaving(a, i)

(* The driver knows of a sleeping station, or a message that says so is on *)
(* its way and none that says otherwise is behind it.                      *)
Sleepy(k, i) ==
    \/ msgs[k].type = "ps" /\ msgs[k].idx = i /\ msgs[k].ps
    \/ CfmOf("op", k) /\ msgs[k].idx = i /\ msgs[k].reply = "asleep"
Woken(k, i) == msgs[k].type = "ps" /\ msgs[k].idx = i /\ ~msgs[k].ps

SleepOnItsWay ==
    \A i \in fwPs :
      /\ fwSta[i] # NONE
      /\ sta[i].valid \/ Entering(i) =>
           /\ \/ sta[i].ps
              \/ op.at = "add" /\ op.idx = i /\ op.reply = "asleep"
              \/ \E k \in DOMAIN msgs : Sleepy(k, i)
           /\ \A k \in DOMAIN msgs : Woken(k, i) =>
                 \E j \in DOMAIN msgs : j > k /\ Sleepy(j, i)

ApInv == ApTypeOK /\ (~crashed => Awaited /\ Commands /\ Places /\ SleepOnItsWay)
=============================================================================
