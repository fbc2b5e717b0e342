------------------------------- MODULE UsbRx -------------------------------
(***************************************************************************)
(* The USB data receive path (aicwf_usb.c, aicwf_txrxif.c and the receive  *)
(* buffers preallocated by aic_load_fw; default build).  An idle URB of    *)
(* rx_free_list is given a buffer of the preallocated pool and submitted;  *)
(* its completion queues the buffer on rxq, triggers the busrx thread and  *)
(* submits every idle URB again; the thread hands the frame up and gives   *)
(* the buffer back to the pool.                                            *)
(*                                                                         *)
(* URBs and buffers are all alike, so that each list is its length.  The   *)
(* USB core calls the completions of an endpoint one after the other, and  *)
(* everything else runs concurrently.  One step is one lock section, one   *)
(* atomic operation or one test.                                           *)
(***************************************************************************)
EXTENDS Integers

CONSTANTS
    NUrbs,      \* AICWF_USB_RX_URBS
    NPool,      \* aic_rxbuff_num_max
    QMax,       \* MAX_RXQLEN
    Aggr,       \* aicwf_usb_rx_aggr, a property of the chip
    MaxFrames   \* bound on the frames of a behaviour

ASSUME RxAssumption ==
    /\ NUrbs \in Nat /\ NPool \in Nat /\ QMax \in Nat /\ MaxFrames \in Nat
    /\ Aggr \in BOOLEAN

VARIABLES
    usb, bus,   \* usb_dev->state, bus_if->state
    ready,      \* usb_dev->rwnx_hw is set
    free,       \* length of rx_free_list
    flying,     \* URBs the USB core holds
    pool,       \* length of aic_rx_buff_list
    rxq,        \* rx_priv->rxq.qcnt
    rx_cnt,     \* rx_priv->rx_cnt, an atomic_t
    trgg,       \* bus_if->busrx_trgg, a completion
    rx_urb_sched, \* the flag of that name
    work,       \* rx_urb_work is pending
    prepared,   \* usb_dev->rx_prepare_ready
    hpc, again, \* the completion handler; it goes on to submit the idle URBs
    spc,        \* each context that is in aicwf_usb_rx_submit_all_urb
    tpc,        \* the busrx thread
    ppc,        \* probe, suspend, resume and disconnect
    frames,     \* frames so far, bounded by MaxFrames
    trouble,    \* a URB was put on rx_free_list without a submission to follow
    lost,       \* frames whose message could not be allocated
    bailed,     \* the thread returned with frames on rxq
    fault       \* what would be a kernel fault

urbVars == <<free, flying, pool>>
queueVars == <<rxq, rx_cnt, trgg>>
refillVars == <<rx_urb_sched, work, prepared>>
handlerVars == <<hpc, again, frames>>
powerVars == <<usb, bus, ready, ppc>>
ghosts == <<trouble, lost, bailed>>
vars == <<urbVars, queueVars, refillVars, handlerVars, spc, tpc, powerVars,
          ghosts, fault>>

(* The three callers of aicwf_usb_rx_submit_all_urb: a completion, the     *)
(* work item, and aicwf_usb_bus_start.                                     *)
Submitters == {"urb", "work", "start"}

HandlerPC == {"idle", "drop", "enqueue", "count", "trigger", "put"}
SubmitPC == {"idle", "check", "get", "test", "alloc", "submit", "dry", "flag",
             "putback"}
ThreadPC == {"wait", "loop", "process", "refill", "clear", "dec", "dropped",
             "stopped"}
PowerPC == {"down", "starting", "run", "sleep", "unplug", "killed", "stopping",
            "flushed", "gone"}

(* After aicwf_usb_init, aicwf_rx_init and aicwf_bus_init.                 *)
Init ==
    /\ usb = "DOWN" /\ bus = "DOWN" /\ ready = FALSE /\ ppc = "down"
    /\ free = NUrbs /\ flying = 0 /\ pool = NPool
    /\ rxq = 0 /\ rx_cnt = 0 /\ trgg = 0
    /\ rx_urb_sched = FALSE /\ work = FALSE /\ prepared = FALSE
    /\ hpc = "idle" /\ again = FALSE /\ frames = 0
    /\ spc = [x \in Submitters |-> "idle"]
    /\ tpc = "wait"
    /\ trouble = FALSE /\ lost = 0 /\ bailed = FALSE /\ fault = "none"

Goto(x, where) == spc' = [spc EXCEPT ![x] = where]

-----------------------------------------------------------------------------
(* aicwf_usb_rx_complete.  A URB comes back with a frame, without data or  *)
(* oversized ("empty"), or with a negative status ("error"); before        *)
(* rwnx_hw is set, with an error, and while the bus is not up, it is not   *)
(* submitted again.                                                        *)
Resubmits(kind) == ready /\ (kind = "empty" \/ (kind = "frame" /\ usb = "UP"))

RxComplete(kind) ==
    /\ hpc = "idle" /\ spc["urb"] = "idle" /\ flying > 0
    /\ kind = "frame" => frames < MaxFrames
    /\ frames' = IF kind = "frame" THEN frames + 1 ELSE frames
    /\ flying' = flying - 1
    /\ hpc' = IF kind = "frame" /\ Resubmits(kind) THEN "enqueue" ELSE "drop"
    /\ again' = Resubmits(kind)
    /\ trouble' = (trouble \/ ~Resubmits(kind))
    /\ UNCHANGED <<free, pool, queueVars, refillVars, spc, tpc, powerVars, lost,
                   bailed, fault>>

(* aicwf_rxbuff_enqueue under rxqlock; a full queue drops the frame.       *)
RxEnqueue ==
    /\ hpc = "enqueue"
    /\ \/ rxq < QMax /\ rxq' = rxq + 1 /\ hpc' = "count"
       \/ rxq >= QMax /\ hpc' = "drop" /\ UNCHANGED rxq
    /\ UNCHANGED <<urbVars, rx_cnt, trgg, refillVars, again, frames, spc, tpc,
                   powerVars, ghosts, fault>>

RxCount ==
    /\ hpc = "count"
    /\ rx_cnt' = rx_cnt + 1
    /\ hpc' = "trigger"
    /\ UNCHANGED <<urbVars, rxq, trgg, refillVars, again, frames, spc, tpc,
                   powerVars, ghosts, fault>>

(* Mutant: the counter is compared with its value before the increment.    *)
TriggerDueBefore == rx_cnt = 0

(* Only the frame that makes the counter one triggers the thread.          *)
TriggerDue == rx_cnt = 1

RxTrigger ==
    /\ hpc = "trigger"
    /\ trgg' = IF TriggerDue THEN trgg + 1 ELSE trgg
    /\ hpc' = "put"
    /\ UNCHANGED <<urbVars, rxq, rx_cnt, refillVars, again, frames, spc, tpc,
                   powerVars, ghosts, fault>>

(* aicwf_prealloc_rxbuff_free of a frame that goes nowhere.                *)
RxFree ==
    /\ hpc = "drop"
    /\ pool' = pool + 1
    /\ hpc' = "put"
    /\ UNCHANGED <<free, flying, queueVars, refillVars, again, frames, spc, tpc,
                   powerVars, ghosts, fault>>

(* aicwf_usb_rx_buf_put, and in most cases on to the submission.           *)
RxPut ==
    /\ hpc = "put"
    /\ free' = free + 1
    /\ hpc' = "idle"
    /\ spc' = IF again THEN [spc EXCEPT !["urb"] = "check"] ELSE spc
    /\ UNCHANGED <<flying, pool, queueVars, refillVars, again, frames, tpc,
                   powerVars, ghosts, fault>>

HandlerStep == RxEnqueue \/ RxCount \/ RxTrigger \/ RxFree \/ RxPut

-----------------------------------------------------------------------------
(* aicwf_usb_rx_submit_all_urb and, for each URB, aicwf_usb_submit_rx_urb. *)

SubmitCheck(x) ==
    /\ spc[x] = "check"
    /\ Goto(x, IF usb = "UP" THEN "get" ELSE "idle")
    /\ UNCHANGED <<urbVars, queueVars, refillVars, handlerVars, tpc, powerVars,
                   ghosts, fault>>

(* aicwf_usb_rx_buf_get.                                                   *)
SubmitGet(x) ==
    /\ spc[x] = "get"
    /\ \/ free > 0 /\ free' = free - 1 /\ Goto(x, "test") /\ UNCHANGED prepared
       \/ free = 0 /\ prepared' = TRUE /\ Goto(x, "idle") /\ UNCHANGED free
    /\ UNCHANGED <<flying, pool, queueVars, rx_urb_sched, work, handlerVars, tpc,
                   powerVars, ghosts, fault>>

SubmitTest(x) ==
    /\ spc[x] = "test"
    /\ \/ usb = "UP" /\ Goto(x, "alloc") /\ UNCHANGED trouble
       \/ usb # "UP" /\ Goto(x, "putback") /\ trouble' = TRUE
    /\ UNCHANGED <<urbVars, queueVars, refillVars, handlerVars, tpc, powerVars,
                   lost, bailed, fault>>

(* rx_priv, which holds the lock of the pool, has been freed.              *)
RxPrivGone == ppc \in {"flushed", "gone"}
UseRxPriv == fault' = IF RxPrivGone THEN "rx_priv" ELSE fault

(* aicwf_prealloc_rxbuff_alloc.                                            *)
SubmitAlloc(x) ==
    /\ spc[x] = "alloc"
    /\ UseRxPriv
    /\ \/ pool > 0 /\ pool' = pool - 1 /\ Goto(x, "submit") /\ UNCHANGED trouble
       \/ /\ pool = 0 /\ Goto(x, "dry") /\ UNCHANGED pool
          /\ trouble' = TRUE
    /\ UNCHANGED <<free, flying, queueVars, refillVars, handlerVars, tpc,
                   powerVars, lost, bailed>>

(* Without a buffer the URB is put back and the flag set, in this order.   *)
SubmitDry(x) ==
    /\ spc[x] = "dry"
    /\ free' = free + 1
    /\ Goto(x, "flag")
    /\ UNCHANGED <<flying, pool, queueVars, refillVars, handlerVars, tpc,
                   powerVars, ghosts, fault>>

SubmitFlag(x) ==
    /\ spc[x] = "flag"
    /\ rx_urb_sched' = TRUE
    /\ Goto(x, "idle")
    /\ UNCHANGED <<urbVars, queueVars, work, prepared, handlerVars, tpc,
                   powerVars, ghosts, fault>>

(* A disconnected interface takes no URB.                                  *)
Connected == ppc \in {"down", "starting", "run", "sleep"}

(* Mutant: one URB is submitted instead of every idle one.                 *)
SubmittedOne(x) ==
    /\ spc[x] = "submit" /\ Connected
    /\ flying' = flying + 1
    /\ Goto(x, "idle")
    /\ UNCHANGED <<free, pool, queueVars, refillVars, handlerVars, tpc, powerVars,
                   ghosts, fault>>

Submitted(x) ==
    /\ spc[x] = "submit" /\ Connected
    /\ flying' = flying + 1
    /\ Goto(x, "get")
    /\ UNCHANGED <<free, pool, queueVars, refillVars, handlerVars, tpc, powerVars,
                   ghosts, fault>>

(* Mutant: the buffer of a failed submission is not given back.            *)
SubmitLeaks(x) ==
    /\ spc[x] = "submit"
    /\ UseRxPriv
    /\ Goto(x, "putback")
    /\ trouble' = TRUE
    /\ UNCHANGED <<urbVars, queueVars, refillVars, handlerVars, tpc, powerVars,
                   lost, bailed>>

SubmitFails(x) ==
    /\ spc[x] = "submit"
    /\ UseRxPriv
    /\ pool' = pool + 1
    /\ Goto(x, "putback")
    /\ trouble' = TRUE
    /\ UNCHANGED <<free, flying, queueVars, refillVars, handlerVars, tpc,
                   powerVars, lost, bailed>>

SubmitPutBack(x) ==
    /\ spc[x] = "putback"
    /\ free' = free + 1
    /\ Goto(x, "idle")
    /\ UNCHANGED <<flying, pool, queueVars, refillVars, handlerVars, tpc,
                   powerVars, ghosts, fault>>

SubmitStep(x) ==
    \/ SubmitCheck(x) \/ SubmitGet(x) \/ SubmitTest(x) \/ SubmitAlloc(x)
    \/ SubmitDry(x) \/ SubmitFlag(x) \/ Submitted(x) \/ SubmitFails(x)
    \/ SubmitPutBack(x)

(* aicwf_usb_rx_urb_work.                                                  *)
WorkRun ==
    /\ work /\ spc["work"] = "idle"
    /\ work' = FALSE
    /\ Goto("work", "check")
    /\ UNCHANGED <<urbVars, queueVars, rx_urb_sched, prepared, handlerVars, tpc,
                   powerVars, ghosts, fault>>

-----------------------------------------------------------------------------
(* usb_busrx_thread and aicwf_process_rxframes.                            *)

(* Mutant: an interrupted wait is taken for a trigger.                     *)
ThreadWakeInterrupted ==
    /\ tpc = "wait"
    /\ trgg' = trgg - 1
    /\ tpc' = IF bus = "DOWN" THEN "stopped" ELSE "loop"
    /\ UNCHANGED <<urbVars, rxq, rx_cnt, refillVars, handlerVars, spc, powerVars,
                   ghosts, fault>>

(* A trigger.  With the bus down the thread ends for good.                 *)
ThreadWake ==
    /\ tpc = "wait" /\ trgg > 0
    /\ trgg' = trgg - 1
    /\ tpc' = IF bus = "DOWN" THEN "stopped" ELSE "loop"
    /\ UNCHANGED <<urbVars, rxq, rx_cnt, refillVars, handlerVars, spc, powerVars,
                   ghosts, fault>>

ThreadDequeue ==
    /\ tpc = "loop"
    /\ \/ rxq > 0 /\ rxq' = rxq - 1 /\ tpc' = "process"
       \/ rxq = 0 /\ tpc' = "wait" /\ UNCHANGED rxq
    /\ UNCHANGED <<urbVars, rx_cnt, trgg, refillVars, handlerVars, spc, powerVars,
                   ghosts, fault>>

(* The frame is handed up: rwnx_rxdataind_aicwf, rwnx_rx_handle_msg, a     *)
(* confirmation or a print.                                                *)
ThreadProcess ==
    /\ tpc = "process"
    /\ pool' = pool + 1
    /\ tpc' = "refill"
    /\ UNCHANGED <<free, flying, queueVars, refillVars, handlerVars, spc,
                   powerVars, ghosts, fault>>

(* A frame longer than its buffer, or no memory for the skb.               *)
ThreadDrop ==
    /\ tpc = "process"
    /\ pool' = pool + 1
    /\ tpc' = "dropped"
    /\ UNCHANGED <<free, flying, queueVars, refillVars, handlerVars, spc,
                   powerVars, ghosts, fault>>

(* With aggregation the thread returns, whatever is still on rxq; without, *)
(* it goes on with the next frame.  Neither looks at rx_urb_sched.         *)
ThreadDropped ==
    /\ tpc = "dropped"
    /\ rx_cnt' = rx_cnt - 1
    /\ tpc' = IF Aggr THEN "wait" ELSE "loop"
    /\ bailed' = (bailed \/ (Aggr /\ rxq > 0))
    /\ UNCHANGED <<urbVars, rxq, trgg, refillVars, handlerVars, spc, powerVars,
                   trouble, lost, fault>>

(* No memory for a message: the thread returns and does not count down.    *)
ThreadNoMem ==
    /\ tpc = "process"
    /\ pool' = pool + 1
    /\ tpc' = "wait"
    /\ lost' = lost + 1
    /\ UNCHANGED <<free, flying, queueVars, refillVars, handlerVars, spc,
                   powerVars, trouble, bailed, fault>>

(* schedule_work, and only then is the flag cleared.                       *)
ThreadRefill ==
    /\ tpc = "refill"
    /\ work' = (work \/ rx_urb_sched)
    /\ tpc' = IF rx_urb_sched THEN "clear" ELSE "dec"
    /\ UNCHANGED <<urbVars, queueVars, rx_urb_sched, prepared, handlerVars, spc,
                   powerVars, ghosts, fault>>

ThreadClear ==
    /\ tpc = "clear"
    /\ rx_urb_sched' = FALSE
    /\ tpc' = "dec"
    /\ UNCHANGED <<urbVars, queueVars, work, prepared, handlerVars, spc,
                   powerVars, ghosts, fault>>

ThreadDec ==
    /\ tpc = "dec"
    /\ rx_cnt' = rx_cnt - 1
    /\ tpc' = "loop"
    /\ UNCHANGED <<urbVars, rxq, trgg, refillVars, handlerVars, spc, powerVars,
                   ghosts, fault>>

ThreadStep ==
    \/ ThreadWake \/ ThreadDequeue \/ ThreadProcess \/ ThreadDrop
    \/ ThreadDropped \/ ThreadNoMem \/ ThreadRefill \/ ThreadClear \/ ThreadDec

-----------------------------------------------------------------------------
(* aicwf_usb_probe, suspend, resume and disconnect.                        *)

AllIdle == hpc = "idle" /\ \A x \in Submitters : spc[x] = "idle"

(* aicwf_usb_bus_start, of the probe or of a resume.  What put a URB back  *)
(* before, and is over, is no trouble afterwards: all are submitted.       *)
BusStart ==
    /\ ppc = "down"
    /\ usb' = "UP" /\ bus' = "UP" /\ ppc' = "starting"
    /\ prepared' = FALSE
    /\ Goto("start", "check")
    /\ trouble' = (trouble /\ ~AllIdle)
    /\ UNCHANGED <<urbVars, queueVars, rx_urb_sched, work, handlerVars, tpc,
                   ready, lost, bailed, fault>>

(* Its end.  A probe whose receive URBs were not all submitted fails and   *)
(* tears the bus down; a resume does not look.                             *)
BusStarted ==
    /\ ppc = "starting" /\ spc["start"] = "idle"
    /\ \/ (prepared \/ ready) /\ ppc' = "run" /\ UNCHANGED <<usb, bus>>
       \/ /\ ~prepared /\ ~ready
          /\ ppc' = "unplug" /\ usb' = "DOWN" /\ bus' = "DOWN"
    /\ UNCHANGED <<urbVars, queueVars, refillVars, handlerVars, spc, tpc, ready,
                   ghosts, fault>>

(* aicwf_rwnx_usb_platform_init sets usb_dev->rwnx_hw.                     *)
PlatformInit ==
    /\ ppc = "run" /\ ~ready
    /\ ready' = TRUE
    /\ UNCHANGED <<urbVars, queueVars, refillVars, handlerVars, spc, tpc, usb,
                   bus, ppc, ghosts, fault>>

(* aicwf_usb_suspend: the state goes to sleep, then aicwf_usb_bus_stop.    *)
SuspendSleep ==
    /\ ppc = "run" /\ ready
    /\ usb' = "SLEEP" /\ ppc' = "sleep"
    /\ UNCHANGED <<urbVars, queueVars, refillVars, handlerVars, spc, tpc, bus,
                   ready, ghosts, fault>>

SuspendStop ==
    /\ ppc = "sleep"
    /\ usb' = "DOWN" /\ bus' = "DOWN" /\ ppc' = "down"
    /\ UNCHANGED <<urbVars, queueVars, refillVars, handlerVars, spc, tpc, ready,
                   ghosts, fault>>

(* aicwf_usb_disconnect, or a failure of the probe: aicwf_bus_deinit stops *)
(* the bus ...                                                             *)
Disconnect ==
    /\ ppc = "run" \/ (ppc = "down" /\ ready)
    /\ usb' = "DOWN" /\ bus' = "DOWN" /\ ppc' = "unplug"
    /\ UNCHANGED <<urbVars, queueVars, refillVars, handlerVars, spc, tpc, ready,
                   ghosts, fault>>

(* ... waits for the URBs it kills ...                                     *)
KillUrbs ==
    /\ ppc = "unplug"
    /\ flying = 0 /\ hpc = "idle" /\ spc["urb"] = "idle"
    /\ ppc' = "killed"
    /\ UNCHANGED <<urbVars, queueVars, refillVars, handlerVars, spc, tpc, usb,
                   bus, ready, ghosts, fault>>

(* Mutant: the thread is awaited without the complete_all.                 *)
StopThreadSilently ==
    /\ ppc = "killed"
    /\ ppc' = "stopping"
    /\ UNCHANGED <<urbVars, queueVars, refillVars, handlerVars, spc, tpc, usb,
                   bus, ready, ghosts, fault>>

(* ... and aicwf_rx_deinit wakes the thread for the last time, ...         *)
StopThread ==
    /\ ppc = "killed"
    /\ ppc' = "stopping"
    /\ trgg' = trgg + 1
    /\ UNCHANGED <<urbVars, rxq, rx_cnt, refillVars, handlerVars, spc, tpc, usb,
                   bus, ready, ghosts, fault>>

(* ... waits for its end, flushes rxq and frees rx_priv.                   *)
FlushQueue ==
    /\ ppc = "stopping" /\ tpc = "stopped"
    /\ ppc' = "flushed"
    /\ pool' = pool + rxq /\ rxq' = 0
    /\ UNCHANGED <<free, flying, rx_cnt, trgg, refillVars, handlerVars, spc, tpc,
                   usb, bus, ready, ghosts, fault>>

(* aicwf_usb_deinit: cancel_work_sync, and the idle URBs are freed.        *)
UsbDeinit ==
    /\ ppc = "flushed" /\ spc["work"] = "idle"
    /\ ppc' = "gone"
    /\ work' = FALSE /\ free' = 0
    /\ UNCHANGED <<flying, pool, queueVars, rx_urb_sched, prepared, handlerVars,
                   spc, tpc, usb, bus, ready, ghosts, fault>>

PowerStep ==
    BusStarted \/ SuspendStop \/ KillUrbs \/ StopThread \/ FlushQueue \/ UsbDeinit

-----------------------------------------------------------------------------
Next ==
    /\ fault = "none"
    /\ \/ \E kind \in {"frame", "empty", "error"} : RxComplete(kind)
       \/ HandlerStep
       \/ \E x \in Submitters : SubmitStep(x)
       \/ WorkRun
       \/ ThreadStep
       \/ BusStart \/ PlatformInit \/ SuspendSleep \/ Disconnect \/ PowerStep

Spec == Init /\ [][Next]_vars

(* The handler, the work queue, the thread and the power transitions run   *)
(* to the end of what they began, and the USB core completes the URBs of   *)
(* an interface it disconnects.  New frames, a suspend or a resume need    *)
(* not come.                                                               *)
Fairness ==
    /\ WF_vars(fault = "none" /\ HandlerStep)
    /\ \A x \in Submitters : WF_vars(fault = "none" /\ SubmitStep(x))
    /\ WF_vars(fault = "none" /\ WorkRun)
    /\ WF_vars(fault = "none" /\ ThreadStep)
    /\ WF_vars(fault = "none" /\ PowerStep)
    /\ WF_vars(fault = "none" /\ ppc = "unplug" /\ RxComplete("error"))

FairSpec == Spec /\ Fairness

-----------------------------------------------------------------------------
FlagsOK ==
    /\ ready \in BOOLEAN /\ prepared \in BOOLEAN
    /\ rx_urb_sched \in BOOLEAN /\ work \in BOOLEAN /\ again \in BOOLEAN
    /\ trouble \in BOOLEAN /\ bailed \in BOOLEAN

(* Types: in particular every list length and the completion count stay    *)
(* natural numbers, only rx_cnt may pass below zero.                       *)
TypeOK ==
    /\ FlagsOK
    /\ usb \in {"UP", "SLEEP", "DOWN"} /\ bus \in {"UP", "DOWN"}
    /\ free \in Nat /\ flying \in Nat /\ pool \in Nat
    /\ rxq \in Nat /\ rx_cnt \in Int /\ trgg \in Nat
    /\ hpc \in HandlerPC
    /\ spc \in [Submitters -> SubmitPC]
    /\ tpc \in ThreadPC /\ ppc \in PowerPC
    /\ frames \in Nat /\ lost \in Nat
    /\ fault \in {"none", "rx_priv"}

One(b) == IF b THEN 1 ELSE 0

HandlerBuffs == One(hpc \in {"drop", "enqueue"})
HandlerUrbs == One(hpc # "idle")
SubmitBuffs(x) == One(spc[x] = "submit")
SubmitUrbs(x) == One(spc[x] \in {"test", "alloc", "submit", "dry", "putback"})
ThreadBuffs == One(tpc = "process")

(* No URB and no receive buffer is lost or handed out twice, on any path   *)
(* through the completion, the submission and the thread; and since the    *)
(* pool belongs to the loader and outlives the device, a disconnect leaves *)
(* it complete.                                                            *)
RxConserved ==
    /\ pool + flying + rxq + HandlerBuffs + ThreadBuffs
         + SubmitBuffs("urb") + SubmitBuffs("work") + SubmitBuffs("start") = NPool
    /\ ppc # "gone" =>
         free + flying + HandlerUrbs
           + SubmitUrbs("urb") + SubmitUrbs("work") + SubmitUrbs("start") = NUrbs
    /\ ppc = "gone" => pool = NPool

(* rx_cnt, which is not kept under rxqlock, is the frames on rxq and in    *)
(* the hands of the thread, but for the one the handler has queued and not *)
(* yet counted and the ones whose message could not be allocated.          *)
CountMatches ==
    ppc \notin {"flushed", "gone"} =>
      rx_cnt = rxq + One(tpc \in {"process", "refill", "clear", "dec", "dropped"})
                   - One(hpc = "count") + lost

(* No trigger is lost, although only the frame that makes rx_cnt one gives *)
(* one: while frames wait, the thread is at work, has a trigger pending,   *)
(* or the handler is about to give it one.  The exceptions are real: after *)
(* a message that could not be allocated rx_cnt stays too high, and with   *)
(* aggregation the thread returns from a bad frame without looking again.  *)
RxTriggerPending ==
    rxq > 0 /\ tpc = "wait" /\ trgg = 0 /\ lost = 0 /\ ~bailed =>
        hpc = "count" \/ (hpc = "trigger" /\ rx_cnt = 1)

(* The driver keeps listening: while the bus is up, no URB is left idle    *)
(* that nobody is about to submit.  The exceptions are the paths that put  *)
(* a URB back on their own: an error, a failed submission, an empty pool.  *)
RxListens ==
    usb = "UP" /\ ~trouble /\ free > 0 =>
        \E x \in Submitters : spc[x] \in {"check", "get", "test", "alloc", "submit"}

(* The receive path: no URB or buffer is lost, a queued frame has a        *)
(* trigger, and the driver keeps listening.                                *)
RxSound == TypeOK /\ RxConserved /\ RxTriggerPending /\ RxListens

(* Who can be where: the handler and its submission are one context,       *)
(* aicwf_usb_bus_start is called by probe and resume only, the teardown    *)
(* leaves nobody behind it, and a URB that is about to be put back for     *)
(* good has been recorded.                                                 *)
RxPhase ==
    /\ hpc # "idle" => spc["urb"] = "idle"
    /\ spc["start"] # "idle" => ppc = "starting"
    /\ usb = "UP" => ppc \in {"starting", "run"}
    /\ ppc \in {"killed", "stopping", "flushed", "gone"} =>
         flying = 0 /\ hpc = "idle" /\ spc["urb"] = "idle"
    /\ ppc \in {"flushed", "gone"} => rxq = 0 /\ tpc = "stopped"
    /\ ppc = "gone" => spc["work"] = "idle" /\ ~work
    /\ hpc # "idle" /\ ~again => trouble
    /\ \A x \in Submitters : spc[x] \in {"dry", "flag", "putback"} => trouble

(* A thread without a trigger has nothing to do but the frame the handler  *)
(* has in hand.                                                            *)
IdleThread ==
    tpc = "wait" /\ trgg = 0 /\ lost = 0 /\ ~bailed =>
        rxq = 0 \/ (rxq = 1 /\ hpc \in {"count", "trigger"})

RxInv ==
    /\ TypeOK /\ RxPhase
    /\ RxConserved /\ CountMatches
    /\ IdleThread /\ RxListens

(* Frames that wait on rxq are taken off it, by the thread or, once it has *)
(* ended, by the flush of a disconnect.                                    *)
RxDrains ==
    rxq > 0 ~> rxq = 0 \/ lost > 0 \/ bailed \/ tpc = "stopped" \/ fault # "none"

(* A disconnect ends: the URBs come back, the thread notices, and the work *)
(* item is not waited for in vain.                                         *)
RxDisconnectEnds == ppc = "unplug" ~> ppc = "gone" \/ fault # "none"

(* Neither a queued frame nor a disconnect waits for ever.                 *)
RxServed == RxDrains /\ RxDisconnectEnds
=============================================================================
