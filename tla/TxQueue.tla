------------------------------- MODULE TxQueue -------------------------------
(***************************************************************************)
(* Transmit queues (rwnx_txq.c, rwnx_tx.c) of one station of an access     *)
(* point.  The network stack queues frames; queues with frames that are    *)
(* not stopped are on the list of their hardware queue; rwnx_hwq_process   *)
(* pushes frames from the listed queues to the USB bus.  The message       *)
(* thread stops and starts queues when the station sleeps or wakes, when   *)
(* the interface leaves its channel, and when frames are confirmed;        *)
(* cfg80211 adds and removes the station.                                  *)
(*                                                                         *)
(* One step is one section under tx_lock, except that rwnx_hwq_process is  *)
(* a step for each queue's pushes and a step for what follows them, since  *)
(* rwnx_txdatacfm takes no lock and may run in between.  The queues share  *)
(* one hardware queue, so one power save class (Uapsd), and are numbered   *)
(* in the order of nx_tid_prio.  RWNX_TXQ_IN_HWQ_LIST is membership of     *)
(* list.  Frame n of queue q is <<q, n>>.  What the firmware is told of the *)
(* frames held for a sleeping station is left out.                         *)
(***************************************************************************)
EXTENDS Integers, FiniteSets, Sequences, SequencesExt

CONSTANTS
    NTxq,        \* data queues of the station on the hardware queue
    Uapsd,       \* ps_id of the queues is UAPSD_ID
    InitCredits, \* NX_TXQ_INITIAL_CREDITS
    S8Half,      \* 2^7: credits is an s8
    FlowStop,    \* RWNX_NDEV_FLOW_CTRL_STOP
    FlowRestart, \* RWNX_NDEV_FLOW_CTRL_RESTART
    NeedCfm,     \* numbers of the frames that are confirmed (EAPOL, WAPI)
    Reasons,     \* what the interface is stopped for: CHAN, VIF_PS, CSA
    MaxFrames,   \* bound on the frames of a behaviour
    MaxRetry,    \* bound on the retries of a queue
    Interrupts,  \* the firmware may interrupt a service period
    SmpCfm,      \* a confirmation may run while another CPU holds tx_lock
    Leaves,      \* the station may be removed
    Busies       \* the USB bus may run out of transmit buffers

Txqs == 1 .. NTxq

ASSUME TxqAssumption ==
    /\ NTxq \in Nat \ {0} /\ Uapsd \in BOOLEAN
    /\ InitCredits \in 1 .. S8Half - 1 /\ S8Half \in Nat
    /\ FlowStop \in Nat /\ FlowRestart \in Nat
    /\ NeedCfm \subseteq Nat \ {0} /\ Reasons \subseteq {"CHAN", "VIF_PS", "CSA"}
    /\ MaxFrames \in Nat /\ MaxRetry \in Nat
    /\ Interrupts \in BOOLEAN /\ SmpCfm \in BOOLEAN
    /\ Leaves \in BOOLEAN /\ Busies \in BOOLEAN

VARIABLES
    active,     \* txq->idx is not TXQ_INACTIVE
    stop,       \* the RWNX_TXQ_STOP_xxx bits of txq->status
    sk,         \* txq->sk_list
    credits, push_limit, nb_retry,
    last_retry, \* txq->last_retry_skb, 0 for NULL
    list,       \* hwq->list
    need,       \* hwq->need_processing
    task,       \* rwnx_hw->task is scheduled
    todo,       \* the queues rwnx_hwq_process has yet to visit, tx_lock held
    cur, empty, \* the queue it has just pushed from (0: none), and txq_empty
    flow,       \* RWNX_TXQ_NDEV_FLOW_CTRL
    ndstop,     \* the netdev subqueue is stopped
    tbusy,      \* usbdev->tbusy
    ps_active, pkt_ready, sp_cnt, \* sta->ps
    fwps,       \* the firmware sees the station asleep
    vstop,      \* the stop bits of the interface's own queue
    spc, pm,    \* add_station and del_station, and me_sta_add_cfm.pm_state
    dq,         \* the queue rwnx_txq_sta_deinit is at
    tested,     \* queues rwnx_start_xmit found active and has not queued on
    cnt,        \* frames given to each queue so far
    fw,         \* frames pushed that wait for their confirmation
    up          \* usbdev->state is not USB_DOWN_ST

txqVars == <<active, stop, sk, credits, push_limit, nb_retry, last_retry>>
hwqVars == <<list, need, task, todo, cur, empty>>
devVars == <<flow, ndstop, tbusy>>
psVars == <<ps_active, pkt_ready, sp_cnt>>
staVars == <<fwps, vstop, spc, pm, dq>>
frmVars == <<tested, cnt, fw, up>>
vars == <<txqVars, hwqVars, devVars, psVars, staVars, frmVars>>

U16 == 65536    \* pkt_ready and sp_cnt are u16
All(v) == [q \in Txqs |-> v]

Init ==
    /\ active = All(FALSE) /\ stop = All({}) /\ sk = All(<<>>)
    /\ credits = All(0) /\ push_limit = All(0)
    /\ nb_retry = All(0) /\ last_retry = All(0)
    /\ list = <<>> /\ need = FALSE /\ task = FALSE
    /\ todo = <<>> /\ cur = 0 /\ empty = FALSE
    /\ flow = All(FALSE) /\ ndstop = All(FALSE) /\ tbusy = FALSE
    /\ ps_active = FALSE /\ pkt_ready = 0 /\ sp_cnt = 0
    /\ fwps = FALSE /\ vstop = {} /\ spc = "out" /\ pm = FALSE /\ dq = 1
    /\ tested = {} /\ cnt = All(0) /\ fw = {} /\ up = TRUE

-----------------------------------------------------------------------------
Least(a, b) == IF a < b THEN a ELSE b
Less(a, b) == IF a > b THEN a - b ELSE 0
Total(f) == FoldFunction(+, 0, f)
Frames == Total([q \in Txqs |-> Len(sk[q])])

(* tx_lock is held by an rwnx_hwq_process under way.                       *)
Locked == todo # <<>>

(* sta->valid, and the station is on ap.sta_list.                          *)
Member == spc \in {"linked", "in"}

(* rwnx_txq_add_to_hw_list and rwnx_txq_del_from_hw_list on the queues S,  *)
(* in TID order.                                                           *)
Listed(q) == q \in Range(list)
Enlisted(S) == list \o SetToSortSeq(S \ Range(list), <)
Delisted(S) == SelectSeq(list, LAMBDA q : q \notin S)

AddToHwList(S) ==
    /\ list' = Enlisted(S)
    /\ need' = (need \/ ~ S \subseteq Range(list))

(* rwnx_txq_stop for the queues of the station.                            *)
StopTxqs(r) ==
    /\ stop' = [q \in Txqs |-> IF active[q] THEN stop[q] \cup {r} ELSE stop[q]]
    /\ list' = Delisted({q \in Txqs : active[q]})

(* Mutant: a queue is not listed again when its last reason goes.          *)
StartsNone(r) == {}

(* The queues that rwnx_txq_start puts on the list.                        *)
Starts(r) == {q \in Txqs : active[q] /\ stop[q] = {r} /\ sk[q] # <<>>}

StartTxqs(r) ==
    /\ stop' = [q \in Txqs |-> IF active[q] THEN stop[q] \ {r} ELSE stop[q]]
    /\ AddToHwList(Starts(r))

-----------------------------------------------------------------------------
(* rwnx_txq_queue_skb, of a list of buffers that now is s: power save      *)
(* accounts, flow control of the subqueue, and whether the queue is listed.*)
CountQueued ==
    pkt_ready' = IF ps_active THEN (pkt_ready + 1) % U16 ELSE pkt_ready

(* Mutant: the subqueue is stopped and RWNX_TXQ_NDEV_FLOW_CTRL is not set. *)
FlowControlUnflagged(q, s) ==
    /\ ndstop' = [ndstop EXCEPT ![q] = @ \/ (~tbusy /\ Len(s) > FlowStop)]
    /\ UNCHANGED flow

FlowControl(q, s) ==
    IF ~tbusy /\ Len(s) > FlowStop
    THEN /\ flow' = [flow EXCEPT ![q] = TRUE]
         /\ ndstop' = [ndstop EXCEPT ![q] = TRUE]
    ELSE UNCHANGED <<flow, ndstop>>

(* rwnx_start_xmit tests txq->idx without tx_lock ...                      *)
XmitTest(q) ==
    /\ ~ndstop[q] /\ q \notin tested
    /\ Total(cnt) + Cardinality(tested) < MaxFrames
    /\ active[q]
    /\ tested' = tested \cup {q}
    /\ UNCHANGED <<txqVars, hwqVars, devVars, psVars, staVars, cnt, fw, up>>

(* ... then queues the frame and processes the hardware queue under it.    *)
XmitQueue(q) ==
    /\ ~Locked /\ q \in tested
    /\ LET s == Append(sk[q], cnt[q] + 1) IN
       /\ tested' = tested \ {q}
       /\ cnt' = [cnt EXCEPT ![q] = @ + 1]
       /\ sk' = [sk EXCEPT ![q] = s]
       /\ CountQueued
       /\ FlowControl(q, s)
    /\ IF stop[q] = {}
       THEN /\ list' = Enlisted({q})
            /\ need' = FALSE
            /\ todo' = list'
       ELSE UNCHANGED <<list, need, todo>>
    /\ UNCHANGED <<active, stop, credits, push_limit, nb_retry, last_retry>>
    /\ UNCHANGED <<task, cur, empty, tbusy, ps_active, sp_cnt, staVars, fw, up>>

(* rwnx_task: rwnx_hwq_process_all.                                        *)
TaskRun ==
    /\ ~Locked /\ task
    /\ task' = FALSE
    /\ need' = FALSE
    /\ todo' = IF need THEN list ELSE <<>>
    /\ UNCHANGED <<txqVars, list, cur, empty, devVars, psVars, staVars, frmVars>>

-----------------------------------------------------------------------------
(* rwnx_txq_get_credits.                                                   *)
GetCredits(q) ==
    IF push_limit[q] # 0 THEN Least(credits[q], push_limit[q]) ELSE credits[q]

(* Mutant: a queue whose service period ends here stays on the list.       *)
TxqEmptyIgnoresLimit(q) == GetCredits(q) >= Len(sk[q])

(* The value of rwnx_txq_get_skb_to_push.                                  *)
TxqEmpty(q) ==
    \/ GetCredits(q) >= Len(sk[q])
    \/ push_limit[q] # 0 /\ GetCredits(q) = push_limit[q]

(* Mutant: a pushed frame is counted twice.                                *)
CountPushedTwice(n) ==
    /\ pkt_ready' = IF ps_active THEN pkt_ready - 2 * n ELSE pkt_ready
    /\ sp_cnt' = IF ps_active THEN (sp_cnt - n) % U16 ELSE sp_cnt

(* rwnx_set_more_data_flag, for n frames pushed one after the other.       *)
CountPushed(n) ==
    IF ps_active
    THEN /\ pkt_ready' = (pkt_ready - n) % U16
         /\ sp_cnt' = (sp_cnt - n) % U16
    ELSE UNCHANGED <<pkt_ready, sp_cnt>>

LastRetryPushed(q, n) == IF n >= nb_retry[q] THEN 0 ELSE last_retry[q]

(* rwnx_hwq_process at a queue: the buffers it takes, and rwnx_tx_push of  *)
(* each.  An inactive queue is taken off the list and flushed.             *)
ServeInactive ==
    LET q == Head(todo) IN
    /\ Locked /\ cur = 0 /\ ~active[q]
    /\ list' = Delisted({q})
    /\ sk' = [sk EXCEPT ![q] = <<>>]
    /\ todo' = Tail(todo)
    /\ UNCHANGED <<active, stop, credits, push_limit, nb_retry, last_retry>>
    /\ UNCHANGED <<need, task, cur, empty, devVars, psVars, staVars, frmVars>>

(* The BUG_ONs of rwnx_hwq_process let the queue pass.                     *)
Servable(q) == credits[q] > 0 /\ sk[q] # <<>>

ServeTxq ==
    LET q == Head(todo)
        n == Least(GetCredits(q), Len(sk[q]))
    IN
    /\ Locked /\ cur = 0 /\ active[q] /\ Servable(q)
    /\ sk' = [sk EXCEPT ![q] = SubSeq(@, n + 1, Len(@))]
    /\ fw' = fw \cup {<<q, sk[q][i]>> : i \in {j \in 1 .. n : sk[q][j] \in NeedCfm}}
    /\ nb_retry' = [nb_retry EXCEPT ![q] = Less(@, n)]
    /\ last_retry' = [last_retry EXCEPT ![q] = LastRetryPushed(q, n)]
    /\ CountPushed(n)
    /\ push_limit' = [push_limit EXCEPT ![q] = Less(@, n)]
    /\ cur' = q
    /\ empty' = TxqEmpty(q)
    /\ UNCHANGED <<active, stop, credits, list, need, task, todo, devVars>>
    /\ UNCHANGED <<ps_active, staVars, tested, cnt, up>>

(* What follows the pushes: an empty queue leaves the list; one that sent  *)
(* many frames may let the list rotate (pkt_sent is not counted); a legacy *)
(* service period that could not complete is given up; the subqueue is     *)
(* woken.  A queue rotated to the end of the list is met again.            *)
ServeEnd ==
    LET q == cur
        rest == Tail(todo)
    IN
    /\ cur # 0
    /\ cur' = 0 /\ empty' = FALSE
    /\ \/ /\ empty
          /\ list' = Delisted({q})
          /\ todo' = rest
       \/ /\ ~empty
          /\ UNCHANGED list
          /\ todo' = rest
       \/ /\ ~empty /\ Listed(q)
          /\ list' = Append(Tail(list), Head(list))
          /\ todo' = IF rest = <<>> THEN rest ELSE Append(rest, Head(list))
    /\ IF push_limit[q] # 0 /\ ~Uapsd
       THEN /\ sp_cnt' = (sp_cnt - push_limit[q]) % U16
            /\ push_limit' = [push_limit EXCEPT ![q] = 0]
       ELSE UNCHANGED <<sp_cnt, push_limit>>
    /\ IF flow[q] /\ Len(sk[q]) < FlowRestart
       THEN /\ flow' = [flow EXCEPT ![q] = FALSE]
            /\ ndstop' = [ndstop EXCEPT ![q] = @ /\ tbusy]
       ELSE UNCHANGED <<flow, ndstop>>
    /\ UNCHANGED <<active, stop, sk, credits, nb_retry, last_retry, need, task>>
    /\ UNCHANGED <<tbusy, ps_active, pkt_ready, staVars, frmVars>>

-----------------------------------------------------------------------------
(* rwnx_txdatacfm, called by the receive thread without tx_lock.  A queue  *)
(* listed while rwnx_hwq_process is at its last queue is not visited.      *)
CfmStep(f) ==
    /\ f \in fw /\ (SmpCfm \/ ~Locked)
    /\ fw' = fw \ {f}
    /\ UNCHANGED <<active, push_limit, task, cur, empty, tbusy, ps_active>>
    /\ UNCHANGED <<sp_cnt, staVars, tested, cnt, up>>

CfmLists(S) ==
    /\ list' = Enlisted(S)
    /\ need' = TRUE
    /\ todo' = IF Len(todo) > 1 THEN todo \o SetToSortSeq(S \ Range(list), <) ELSE todo

(* The frame was sent, or the station is gone: continue a service period.  *)
CfmDone(f) ==
    LET q == f[1] IN
    /\ CfmStep(f) /\ up
    /\ CfmLists(IF active[q] /\ push_limit[q] # 0 /\ "FULL" \notin stop[q]
                THEN {q} ELSE {})
    /\ UNCHANGED <<stop, sk, credits, nb_retry, last_retry, flow, ndstop>>
    /\ UNCHANGED <<pkt_ready>>

(* The bus is down: the frame is freed, nothing else is touched.           *)
CfmDown(f) ==
    /\ CfmStep(f) /\ ~up
    /\ UNCHANGED <<stop, sk, credits, nb_retry, last_retry, list, need, todo>>
    /\ UNCHANGED <<flow, ndstop, pkt_ready>>

(* credits++ on an s8.                                                     *)
Incremented(c) == ((c + 1 + S8Half) % (2 * S8Half)) - S8Half

(* Mutant: a retried buffer goes to the head of the list.                  *)
RetriedFirst(q, n) == <<n>> \o sk[q]

(* sk_list with the retried buffer n after the last retried one.           *)
Retried(q, n) ==
    IF last_retry[q] = 0 THEN <<n>> \o sk[q]
    ELSE InsertAt(sk[q], 1 + SelectInSeq(sk[q], LAMBDA x : x = last_retry[q]), n)

(* rwnx_tx_retry.  Nothing processes the hardware queue afterwards.        *)
CfmRetry(f) ==
    LET q == f[1]
        c == Incremented(credits[q])
        s == Retried(q, f[2])
    IN
    /\ CfmStep(f) /\ up /\ active[q]
    /\ credits[q] < InitCredits + MaxRetry
    /\ credits' = [credits EXCEPT ![q] = c]
    /\ stop' = IF c > 0 THEN [stop EXCEPT ![q] = @ \ {"FULL"}] ELSE stop
    /\ sk' = [sk EXCEPT ![q] = s]
    /\ nb_retry' = [nb_retry EXCEPT ![q] = @ + 1]
    /\ last_retry' = [last_retry EXCEPT ![q] = f[2]]
    /\ CountQueued
    /\ FlowControl(q, s)
    /\ CfmLists(IF stop'[q] = {} THEN {q} ELSE {})

(* rwnx_txq_credit_update: the update itself is commented out in the code. *)
CreditUpdate(q) ==
    /\ ~Locked /\ active[q]
    /\ IF credits[q] <= 0
       THEN /\ stop' = [stop EXCEPT ![q] = @ \cup {"FULL"}]
            /\ list' = Delisted({q})
            /\ UNCHANGED need
       ELSE /\ stop' = [stop EXCEPT ![q] = @ \ {"FULL"}]
            /\ AddToHwList(Starts("FULL") \cap {q})
    /\ UNCHANGED <<active, sk, credits, push_limit, nb_retry, last_retry>>
    /\ UNCHANGED <<task, todo, cur, empty, devVars, psVars, staVars, frmVars>>

-----------------------------------------------------------------------------
(* Mutant: the buffers already queued are not counted.                     *)
PsEnableUncounted ==
    /\ ~Locked
    /\ ps_active' = TRUE
    /\ sp_cnt' = 0
    /\ StopTxqs("STA_PS")
    /\ UNCHANGED <<push_limit, need, task, pkt_ready>>

(* rwnx_ps_bh_enable.                                                      *)
PsEnable ==
    /\ ~Locked
    /\ ps_active' = TRUE
    /\ sp_cnt' = 0
    /\ StopTxqs("STA_PS")
    /\ pkt_ready' = Frames
    /\ UNCHANGED <<push_limit, need, task>>

(* Mutant: limits of an interrupted service period stay.                   *)
PsDisableKeepsLimits ==
    /\ ~Locked
    /\ ps_active' = FALSE
    /\ StartTxqs("STA_PS")
    /\ task' = TRUE
    /\ UNCHANGED <<push_limit, pkt_ready, sp_cnt>>

(* Mutant: the task is not scheduled.                                      *)
PsDisableSilent ==
    /\ ~Locked
    /\ ps_active' = FALSE
    /\ push_limit' = All(0)
    /\ StartTxqs("STA_PS")
    /\ UNCHANGED <<task, pkt_ready, sp_cnt>>

PsDisable ==
    /\ ~Locked
    /\ ps_active' = FALSE
    /\ push_limit' = All(0)
    /\ StartTxqs("STA_PS")
    /\ task' = TRUE
    /\ UNCHANGED <<pkt_ready, sp_cnt>>

(* rwnx_rx_ps_change_ind: a station that is being added only records it.   *)
PsChange ==
    /\ spc \in {"adding", "confirmed", "inited", "linked", "in"}
    /\ fwps' = ~fwps
    /\ \/ Member /\ fwps' /\ PsEnable
       \/ Member /\ ~fwps' /\ PsDisable
       \/ /\ ~Member
          /\ ps_active' = fwps'
          /\ UNCHANGED <<stop, push_limit, list, need, task, pkt_ready, sp_cnt>>
    /\ UNCHANGED <<active, sk, credits, nb_retry, last_retry, todo, cur, empty>>
    /\ UNCHANGED <<devVars, vstop, spc, pm, dq, frmVars>>

(* The frames rwnx_ps_bh_traffic_req asks of each queue, in the order of   *)
(* priority, for a request of r frames (0: all of them).  The firmware     *)
(* asks for frames of a station that was added and that it sees asleep.    *)
Available(q) ==
    IF Len(sk[q]) > credits[q] THEN credits[q] % U16 ELSE Len(sk[q])

Before(q) == Total([p \in 1 .. q - 1 |-> Available(p)])

Requested(r) == IF r = 0 \/ r > pkt_ready THEN pkt_ready ELSE r

Dispatched(r) ==
    [q \in Txqs |-> Least(Available(q), Less(Requested(r), Before(q)))]

TrafficReq(r) ==
    LET d == Dispatched(r) IN
    /\ fwps /\ spc = "in"
    /\ ~Locked /\ ps_active /\ sp_cnt = 0 /\ pkt_ready > 0
    /\ push_limit' = [q \in Txqs |-> IF d[q] = 0 THEN push_limit[q] ELSE d[q] % 256]
    /\ sp_cnt' = Total(d) % U16
    /\ AddToHwList({q \in Txqs : d[q] # 0})
    /\ task' = TRUE
    /\ UNCHANGED <<active, stop, sk, credits, nb_retry, last_retry, todo, cur>>
    /\ UNCHANGED <<empty, devVars, ps_active, pkt_ready, staVars, frmVars>>

(* PS_SP_INTERRUPTED.                                                      *)
SpInterrupt ==
    /\ Interrupts /\ Uapsd /\ ~Locked /\ ps_active /\ sp_cnt # 0
    /\ sp_cnt' = 0
    /\ push_limit' = All(0)
    /\ UNCHANGED <<active, stop, sk, credits, nb_retry, last_retry, hwqVars>>
    /\ UNCHANGED <<devVars, ps_active, pkt_ready, staVars, frmVars>>

-----------------------------------------------------------------------------
(* rwnx_txq_vif_stop and rwnx_txq_vif_start, on the interface's own queue  *)
(* and the stations on its list.                                           *)
VifStop(r) ==
    /\ ~Locked /\ r \notin vstop
    /\ vstop' = vstop \cup {r}
    /\ IF Member THEN StopTxqs(r) ELSE UNCHANGED <<stop, list>>
    /\ UNCHANGED <<active, sk, credits, push_limit, nb_retry, last_retry>>
    /\ UNCHANGED <<need, task, todo, cur, empty, devVars, psVars>>
    /\ UNCHANGED <<fwps, spc, pm, dq, frmVars>>

VifStart(r, schedule) ==
    /\ ~Locked /\ r \in vstop
    /\ vstop' = vstop \ {r}
    /\ IF Member THEN StartTxqs(r) ELSE UNCHANGED <<stop, list, need>>
    /\ task' = (task \/ schedule)
    /\ UNCHANGED <<active, sk, credits, push_limit, nb_retry, last_retry>>
    /\ UNCHANGED <<todo, cur, empty, devVars, psVars, fwps, spc, pm, dq, frmVars>>

(* The end of a channel switch or of an absence schedules the task; the    *)
(* messages of a channel switch announcement, and its work item, do not.   *)
ChannelBack == VifStart("CHAN", TRUE)
AbsenceEnds == VifStart("VIF_PS", TRUE)
CsaTraffic == VifStart("CSA", FALSE)
CsaFinish == "CSA" \in Reasons /\ VifStart("CHAN", FALSE)

-----------------------------------------------------------------------------
(* rwnx_cfg80211_add_station: the command, its confirmation, the queues,   *)
(* the list, the power save mode.  cb_lock, which it holds from AddInit to *)
(* AddPs, is not taken by the handlers of indications.                     *)
Add(from, to) ==
    /\ spc = from /\ spc' = to
    /\ UNCHANGED <<fwps, vstop, dq, frmVars>>

AddBegin ==
    /\ Add("out", "adding")
    /\ UNCHANGED <<pm, txqVars, hwqVars, devVars, psVars>>

AddCfm ==
    /\ Add("adding", "confirmed")
    /\ pm' = fwps
    /\ UNCHANGED <<txqVars, hwqVars, devVars, psVars>>

(* rwnx_txq_sta_init, with the status of rwnx_txq_vif_get_status.          *)
AddInit ==
    /\ Add("confirmed", "inited") /\ ~Locked
    /\ active' = All(TRUE) /\ stop' = All(vstop \cap {"CHAN", "VIF_PS"})
    /\ sk' = All(<<>>) /\ credits' = All(InitCredits) /\ push_limit' = All(0)
    /\ nb_retry' = All(0) /\ last_retry' = All(0)
    /\ flow' = All(FALSE)
    /\ UNCHANGED <<pm, hwqVars, ndstop, tbusy, psVars>>

AddLink ==
    /\ Add("inited", "linked")
    /\ UNCHANGED <<pm, txqVars, hwqVars, devVars, psVars>>

AddPs ==
    /\ Add("linked", "in")
    /\ pm' = FALSE
    /\ \/ (ps_active \/ pm) /\ PsEnable
       \/ ~(ps_active \/ pm) /\ PsDisable
    /\ UNCHANGED <<active, sk, credits, nb_retry, last_retry, todo, cur, empty, devVars>>

(* rwnx_cfg80211_del_station_compat: off the list under cb_lock, then      *)
(* rwnx_txq_deinit of each queue: off the hardware list and inactive under *)
(* tx_lock, flushed without it.                                            *)
DelBegin ==
    /\ Leaves /\ spc = "in"
    /\ spc' = "deinit" /\ dq' = 1
    /\ ps_active' = FALSE
    /\ UNCHANGED <<txqVars, hwqVars, devVars, pkt_ready, sp_cnt>>
    /\ UNCHANGED <<fwps, vstop, pm, frmVars>>

(* Mutant: the queue stays on the list of the hardware queue.              *)
DelTxqListed ==
    /\ spc = "deinit" /\ ~Locked
    /\ active' = [active EXCEPT ![dq] = FALSE]
    /\ spc' = "flush"
    /\ UNCHANGED <<stop, sk, credits, push_limit, nb_retry, last_retry, hwqVars>>
    /\ UNCHANGED <<devVars, psVars, fwps, vstop, pm, dq, frmVars>>

DelTxq ==
    /\ spc = "deinit" /\ ~Locked
    /\ list' = Delisted({dq})
    /\ active' = [active EXCEPT ![dq] = FALSE]
    /\ spc' = "flush"
    /\ UNCHANGED <<stop, sk, credits, push_limit, nb_retry, last_retry>>
    /\ UNCHANGED <<need, task, todo, cur, empty, devVars, psVars>>
    /\ UNCHANGED <<fwps, vstop, pm, dq, frmVars>>

DelFlush ==
    /\ spc = "flush"
    /\ sk' = [sk EXCEPT ![dq] = <<>>]
    /\ IF dq = NTxq
       THEN spc' = "out" /\ dq' = 1 /\ fwps' = FALSE
       ELSE spc' = "deinit" /\ dq' = dq + 1 /\ UNCHANGED fwps
    /\ UNCHANGED <<active, stop, credits, push_limit, nb_retry, last_retry>>
    /\ UNCHANGED <<hwqVars, devVars, psVars, vstop, pm, frmVars>>

-----------------------------------------------------------------------------
(* aicwf_usb_tx_flowctrl, and the loss of the bus (modelled in UsbTx).     *)
TbusyOn ==
    /\ Busies /\ ~tbusy
    /\ tbusy' = TRUE /\ ndstop' = All(TRUE)
    /\ UNCHANGED <<txqVars, hwqVars, flow, psVars, staVars, frmVars>>

TbusyOff ==
    /\ tbusy
    /\ tbusy' = FALSE /\ ndstop' = All(FALSE)
    /\ UNCHANGED <<txqVars, hwqVars, flow, psVars, staVars, frmVars>>

BusDown ==
    /\ Busies /\ up /\ up' = FALSE
    /\ UNCHANGED <<txqVars, hwqVars, devVars, psVars, staVars, tested, cnt, fw>>

Process == TaskRun \/ ServeInactive \/ ServeTxq \/ ServeEnd

Next ==
    \/ \E q \in Txqs : XmitTest(q) \/ XmitQueue(q) \/ CreditUpdate(q)
    \/ Process
    \/ \E f \in fw : CfmDone(f) \/ CfmDown(f) \/ CfmRetry(f)
    \/ PsChange \/ SpInterrupt
    \/ \E r \in 0 .. MaxFrames : TrafficReq(r)
    \/ \E r \in Reasons : VifStop(r)
    \/ ChannelBack \/ AbsenceEnds \/ CsaTraffic \/ CsaFinish
    \/ AddBegin \/ AddCfm \/ AddInit \/ AddLink \/ AddPs
    \/ DelBegin \/ DelTxq \/ DelFlush
    \/ TbusyOn \/ TbusyOff \/ BusDown

Spec == Init /\ [][Next]_vars

(* The tasklet that was scheduled runs, and whoever holds tx_lock goes on. *)
LiveSpec == Spec /\ WF_vars(Process)

-----------------------------------------------------------------------------
(* The variables keep their types (struct rwnx_txq, struct rwnx_sta_ps).   *)
TypeOK ==
    /\ active \in [Txqs -> BOOLEAN]
    /\ stop \in [Txqs -> SUBSET {"FULL", "CSA", "STA_PS", "VIF_PS", "CHAN"}]
    /\ sk \in [Txqs -> Seq(1 .. MaxFrames)]
    /\ credits \in [Txqs -> -S8Half .. S8Half - 1]
    /\ push_limit \in [Txqs -> 0 .. 255]
    /\ nb_retry \in [Txqs -> Nat] /\ last_retry \in [Txqs -> 0 .. MaxFrames]
    /\ list \in Seq(Txqs) /\ todo \in Seq(Txqs)
    /\ need \in BOOLEAN /\ task \in BOOLEAN
    /\ cur \in 0 .. NTxq /\ empty \in BOOLEAN
    /\ flow \in [Txqs -> BOOLEAN] /\ ndstop \in [Txqs -> BOOLEAN]
    /\ tbusy \in BOOLEAN /\ ps_active \in BOOLEAN
    /\ pkt_ready \in 0 .. U16 - 1 /\ sp_cnt \in 0 .. U16 - 1
    /\ fwps \in BOOLEAN /\ vstop \subseteq Reasons /\ pm \in BOOLEAN
    /\ spc \in {"out", "adding", "confirmed", "inited", "linked", "in", "deinit", "flush"}
    /\ dq \in Txqs /\ tested \subseteq Txqs /\ cnt \in [Txqs -> 0 .. MaxFrames]
    /\ fw \subseteq Txqs \X (1 .. MaxFrames) /\ up \in BOOLEAN

(* The BUG_ONs of rwnx_hwq_process hold: an active queue it meets on the   *)
(* list has credits and has buffers, whatever stopped, restarted or        *)
(* removed it since it was listed.                                         *)
NoBug ==
    Locked /\ cur = 0 /\ active[Head(todo)] => Servable(Head(todo))

(* A queue with buffers that nothing stops is on the list of its hardware  *)
(* queue when tx_lock is free: no order of stops and starts loses it, nor  *)
(* does a confirmation, "called with tx_lock hold" (rwnx_txdatacfm).       *)
ReadyListed ==
    ~Locked =>
        \A q \in Txqs : active[q] /\ stop[q] = {} /\ sk[q] # <<>> => Listed(q)

(* While the station sleeps a queue is listed only for a service period,   *)
(* with no more frames to send than it holds (rwnx_txq_get_credits).  (Not *)
(* so after PS_SP_INTERRUPTED, which leaves a queue listed without limit.) *)
PsHold ==
    ~Locked /\ spc = "in" /\ ps_active =>
        \A q \in Txqs : Listed(q) => push_limit[q] \in 1 .. Len(sk[q])

(* pkt_ready of a sleeping station is the number of its queued buffers:    *)
(* rwnx_ps_bh_enable, rwnx_txq_queue_skb and rwnx_set_more_data_flag agree.*)
PktReady ==
    ~Locked /\ spc = "in" /\ ps_active => pkt_ready = Frames

(* sp_cnt is what the queues have yet to push in the service period, so    *)
(* that it reaches zero with them and the next period can start.           *)
SpCount ==
    ~Locked /\ spc = "in" /\ ps_active => sp_cnt = Total(push_limit)

(* The retried buffers are the first nb_retry ones, the last of them is    *)
(* last_retry_skb (the WARN of rwnx_tx_push), and the others are in the    *)
(* order they were queued in.                                              *)
RetryOrder ==
    \A q \in Txqs : active[q] =>
        /\ nb_retry[q] <= Len(sk[q])
        /\ last_retry[q] = IF nb_retry[q] = 0 THEN 0 ELSE sk[q][nb_retry[q]]
        /\ \A i, j \in nb_retry[q] + 1 .. Len(sk[q]) : i < j => sk[q][i] < sk[q][j]

(* A subqueue that is stopped has someone who will wake it: the queue's    *)
(* flow control flag, or the USB bus.  (Not so when a station leaves with  *)
(* its subqueue stopped: rwnx_txq_init clears the flag for the next one.)  *)
NetdevWakes ==
    ~Locked => \A q \in Txqs : active[q] /\ ndstop[q] => flow[q] \/ tbusy

(* A queue that may send does not keep its buffers for ever, when it has   *)
(* the credits for them and every start schedules the task.                *)
Waiting(q) == active[q] /\ stop[q] = {} /\ sk[q] # <<>>
Served(q) == sk[q] = <<>> \/ stop[q] # {} \/ ~active[q]
Drains == \A q \in Txqs : Waiting(q) ~> Served(q)
=============================================================================
