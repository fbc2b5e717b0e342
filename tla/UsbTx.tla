------------------------------- MODULE UsbTx -------------------------------
(***************************************************************************)
(* The USB data transmit path (aicwf_usb.c, default build: no aggregation, *)
(* no tasklet).  A sender takes a buffer from tx_free_list, fills it, puts *)
(* it on tx_post_list and triggers the bustx thread, which submits its     *)
(* URB; the completion of the URB puts the buffer back and may wake the    *)
(* network queues that flow control stopped.                               *)
(*                                                                         *)
(* Each list has its own lock and its counter is the length of the list;   *)
(* tx_flow_lock is a third lock, so the counter is read for flow control   *)
(* some time after the list changed.  One step is one lock section or one  *)
(* test.  The lists are sets: no property depends on their order.          *)
(***************************************************************************)
EXTENDS Integers, FiniteSets

CONSTANTS
    Bufs,       \* usb_tx_buf, AICWF_USB_TX_URBS buffers
    Senders,    \* contexts that call aicwf_frame_tx
    Low, High,  \* AICWF_USB_TX_LOW_WATER, AICWF_USB_TX_HIGH_WATER
    MaxFrames   \* bound on the frames of a behaviour

ASSUME TxAssumption ==
    /\ IsFiniteSet(Bufs) /\ Bufs # {}
    /\ Low \in Nat /\ High \in Nat /\ Low <= High
    /\ MaxFrames \in Nat

VARIABLES
    usb,        \* usb_dev->state
    bus,        \* bus_if->state
    free,       \* tx_free_list
    post,       \* tx_post_list
    flying,     \* buffers whose URB the USB core holds
    data,       \* usb_buf->skb: nothing, an skb, or (cfm) a kmalloc'ed copy
    trgg,       \* bus_if->bustx_trgg, a completion
    tpc, tbuf,  \* the bustx thread and its usb_buf
    spc, sbuf,  \* each sender and its usb_buf
    checks,     \* URB completions that have yet to take tx_flow_lock
    tbusy,      \* usb_dev->tbusy
    stopped,    \* the queues of the net device are stopped
    ppc,        \* suspend, resume and disconnect
    frames,     \* frames so far, bounded by MaxFrames
    failed,     \* a usb_submit_urb has failed
    slept,      \* the bus has been stopped
    fault       \* what would be a kernel fault

listVars == <<free, post, flying, data>>
flowVars == <<checks, tbusy, stopped>>
sendVars == <<spc, sbuf, frames>>
threadVars == <<tpc, tbuf, trgg>>
powerVars == <<usb, bus, ppc, slept>>
vars == <<listVars, flowVars, sendVars, threadVars, powerVars, failed, fault>>

SenderPC == {"idle", "post", "trigger", "flow"}
ThreadPC == {"wait", "loop", "dequeue", "submit", "stopped"}
PowerPC == {"run", "suspend", "sleep", "down", "prepare", "take", "resumed",
            "unplug", "stopping", "gone"}

Init ==
    /\ usb = "UP" /\ bus = "UP" /\ ppc = "run" /\ slept = FALSE
    /\ free = Bufs /\ post = {} /\ flying = {}
    /\ data = [b \in Bufs |-> "none"]
    /\ trgg = 0 /\ tpc = "wait" /\ tbuf \in Bufs
    /\ spc = [s \in Senders |-> "idle"]
    /\ sbuf \in [Senders -> {tbuf}]
    /\ checks = 0 /\ tbusy = FALSE /\ stopped = FALSE
    /\ frames = 0 /\ failed = FALSE /\ fault = "none"

Goto(s, where) == spc' = [spc EXCEPT ![s] = where]

-----------------------------------------------------------------------------
(* A sender: aicwf_frame_tx and aicwf_usb_bus_txdata.  The callers are the *)
(* transmit queues of the driver, which are served whether or not the net  *)
(* device is stopped.                                                      *)

(* With the bus down the frame is dropped and the queues are stopped; with *)
(* the bus asleep it is dropped.                                           *)
FrameDropped(s) ==
    /\ spc[s] = "idle" /\ frames < MaxFrames /\ ppc \notin {"stopping", "gone"}
    /\ frames' = frames + 1
    /\ \/ usb = "DOWN" /\ stopped' = (stopped \/ ~tbusy)
       \/ usb = "SLEEP" /\ UNCHANGED stopped
    /\ UNCHANGED <<listVars, checks, tbusy, spc, sbuf, threadVars, powerVars,
                   failed, fault>>

(* A buffer is taken, or the frame is dropped for want of one.             *)
TxData(s) ==
    /\ spc[s] = "idle" /\ frames < MaxFrames
    /\ usb = "UP"
    /\ frames' = frames + 1
    /\ \/ \E b \in free : /\ free' = free \ {b}
                          /\ sbuf' = [sbuf EXCEPT ![s] = b]
                          /\ Goto(s, "post")
       \/ /\ free = {}
          /\ Goto(s, "flow")
          /\ UNCHANGED <<free, sbuf>>
    /\ UNCHANGED <<post, flying, data, flowVars, threadVars, powerVars, failed,
                   fault>>

(* The URB is filled: with the skb, or with a copy of a frame that asks    *)
(* for a confirmation.  The bus may have gone down since it was looked at. *)
TxPost(s, kind) ==
    /\ spc[s] = "post"
    /\ data' = [data EXCEPT ![sbuf[s]] = kind]
    /\ post' = post \cup {sbuf[s]}
    /\ Goto(s, "trigger")
    /\ UNCHANGED <<free, flying, flowVars, sbuf, frames, threadVars, powerVars,
                   failed, fault>>

(* Mutant: no trigger while flow control is on.                            *)
TxTriggerUnlessBusy(s) ==
    /\ spc[s] = "trigger"
    /\ trgg' = IF tbusy THEN trgg ELSE trgg + 1
    /\ Goto(s, "flow")
    /\ UNCHANGED <<listVars, flowVars, sbuf, frames, tpc, tbuf, powerVars,
                   failed, fault>>

TxTrigger(s) ==
    /\ spc[s] = "trigger"
    /\ trgg' = trgg + 1
    /\ Goto(s, "flow")
    /\ UNCHANGED <<listVars, flowVars, sbuf, frames, tpc, tbuf, powerVars,
                   failed, fault>>

BelowLowWater == Cardinality(free) < Low

(* The lock section at flow_ctrl.                                          *)
TxFlow(s) ==
    /\ spc[s] = "flow"
    /\ tbusy' = (tbusy \/ BelowLowWater)
    /\ stopped' = (stopped \/ BelowLowWater)
    /\ Goto(s, "idle")
    /\ UNCHANGED <<listVars, checks, sbuf, frames, threadVars, powerVars,
                   failed, fault>>

SenderStep(s) ==
    \/ \E kind \in {"skb", "kbuf"} : TxPost(s, kind)
    \/ TxTrigger(s)
    \/ TxFlow(s)

-----------------------------------------------------------------------------
(* usb_bustx_thread and aicwf_usb_tx_process.                              *)

(* A trigger.  With the bus down the thread ends for good.                 *)
ThreadWake ==
    /\ tpc = "wait" /\ trgg > 0
    /\ trgg' = trgg - 1
    /\ tpc' = IF bus = "DOWN" THEN "stopped"
              ELSE IF post # {} THEN "loop" ELSE "wait"
    /\ UNCHANGED <<listVars, flowVars, sendVars, tbuf, powerVars, failed,
                   fault>>

ThreadLoop ==
    /\ tpc = "loop"
    /\ tpc' = IF post # {} /\ usb = "UP" THEN "dequeue" ELSE "wait"
    /\ UNCHANGED <<listVars, flowVars, sendVars, trgg, tbuf, powerVars, failed,
                   fault>>

(* The list may have been emptied since it was looked at.                  *)
ThreadDequeue ==
    /\ tpc = "dequeue"
    /\ \/ \E b \in post : /\ post' = post \ {b}
                          /\ tbuf' = b
                          /\ tpc' = "submit"
       \/ post = {} /\ tpc' = "wait" /\ UNCHANGED <<post, tbuf>>
    /\ UNCHANGED <<free, flying, data, flowVars, sendVars, trgg, powerVars,
                   failed, fault>>

Submitted ==
    /\ tpc = "submit"
    /\ flying' = flying \cup {tbuf}
    /\ tpc' = "loop"
    /\ UNCHANGED <<free, post, data, flowVars, sendVars, trgg, tbuf, powerVars,
                   failed, fault>>

(* Mutant: usb_buf->skb keeps pointing at the freed skb.                   *)
FreeSkbKeeps(b) == fault' = (IF data[b] = "kbuf" THEN "bad_free" ELSE fault)
                   /\ UNCHANGED data

(* dev_kfree_skb of usb_buf->skb, which of a frame with confirmation is    *)
(* not an skb.                                                             *)
FreeSkb(b) ==
    /\ data' = [data EXCEPT ![b] = "none"]
    /\ fault' = IF data[b] = "kbuf" THEN "bad_free" ELSE fault

(* Mutant: the buffer of a failed submission goes nowhere.                 *)
SubmitLeaks ==
    /\ tpc = "submit"
    /\ failed' = TRUE
    /\ FreeSkb(tbuf)
    /\ tpc' = "loop"
    /\ UNCHANGED <<free, post, flying, flowVars, sendVars, trgg, tbuf,
                   powerVars>>

(* usb_submit_urb fails: the buffer is put back without a look at the flow *)
(* control.                                                                *)
SubmitFails ==
    /\ tpc = "submit"
    /\ failed' = TRUE
    /\ FreeSkb(tbuf)
    /\ free' = free \cup {tbuf}
    /\ tpc' = "loop"
    /\ UNCHANGED <<post, flying, flowVars, sendVars, trgg, tbuf, powerVars>>

ThreadStep ==
    ThreadWake \/ ThreadLoop \/ ThreadDequeue \/ Submitted \/ SubmitFails

-----------------------------------------------------------------------------
(* aicwf_usb_tx_complete: the data is freed as what it is, the buffer put  *)
(* back ...                                                                *)
TxComplete(b) ==
    /\ b \in flying
    /\ flying' = flying \ {b}
    /\ data' = [data EXCEPT ![b] = "none"]
    /\ free' = free \cup {b}
    /\ checks' = checks + 1
    /\ UNCHANGED <<post, tbusy, stopped, sendVars, threadVars, powerVars, failed,
                   fault>>

(* Mutant: one buffer more is asked for.                                   *)
AboveWrongMark == Cardinality(free) > High + 1

AboveHighWater == Cardinality(free) > High

(* ... and later, under tx_flow_lock, the queues are woken.                *)
TxCompleteFlow ==
    /\ checks > 0
    /\ checks' = checks - 1
    /\ tbusy' = (tbusy /\ ~AboveHighWater)
    /\ stopped' = (stopped /\ ~(tbusy /\ AboveHighWater))
    /\ UNCHANGED <<listVars, sendVars, threadVars, powerVars, failed, fault>>

-----------------------------------------------------------------------------
(* aicwf_usb_suspend, in three steps, and aicwf_usb_resume.                *)

SuspendQueues ==
    /\ ppc = "run" /\ usb = "UP"
    /\ ppc' = "suspend" /\ stopped' = TRUE
    /\ UNCHANGED <<listVars, checks, tbusy, sendVars, threadVars, usb, bus,
                   slept, failed, fault>>

SuspendSleep ==
    /\ ppc = "suspend"
    /\ ppc' = "sleep" /\ usb' = "SLEEP" /\ slept' = TRUE
    /\ UNCHANGED <<listVars, flowVars, sendVars, threadVars, bus, failed, fault>>

SuspendStop ==
    /\ ppc = "sleep"
    /\ ppc' = "down" /\ usb' = "DOWN" /\ bus' = "DOWN"
    /\ UNCHANGED <<listVars, flowVars, sendVars, threadVars, slept, failed,
                   fault>>

(* netif_device_attach, which wakes the queues, then aicwf_usb_bus_start   *)
(* up to aicwf_usb_tx_prepare.                                             *)
BusStart ==
    /\ ppc = "down"
    /\ ppc' = "prepare" /\ usb' = "UP" /\ bus' = "UP" /\ stopped' = FALSE
    /\ UNCHANGED <<listVars, checks, tbusy, sendVars, threadVars, slept, failed,
                   fault>>

(* aicwf_usb_tx_prepare drops what is posted; between its test and its     *)
(* dequeue the thread may take the last buffer, and the result is not      *)
(* checked.                                                                *)
TxPrepareTest ==
    /\ ppc = "prepare"
    /\ ppc' = IF post = {} THEN "resumed" ELSE "take"
    /\ UNCHANGED <<listVars, flowVars, sendVars, threadVars, usb, bus, slept,
                   failed, fault>>

TxPrepareTake ==
    /\ ppc = "take"
    /\ \/ \E b \in post : /\ post' = post \ {b}
                          /\ free' = free \cup {b}
                          /\ FreeSkb(b)
                          /\ ppc' = "prepare"
       \/ /\ post = {}
          /\ fault' = "null_buf"
          /\ UNCHANGED <<post, free, data, ppc>>
    /\ UNCHANGED <<flying, flowVars, sendVars, threadVars, usb, bus, slept,
                   failed>>

(* All queues are woken, whatever tbusy says.                              *)
ResumeWake ==
    /\ ppc = "resumed"
    /\ ppc' = "run" /\ stopped' = FALSE
    /\ UNCHANGED <<listVars, checks, tbusy, sendVars, threadVars, usb, bus,
                   slept, failed, fault>>

(* aicwf_usb_disconnect: the bus is stopped; the interfaces are removed,   *)
(* which waits for the senders, and the thread is triggered and awaited    *)
(* (kthread_stop).  The USB core completes the URBs of an unplugged device. *)
Disconnect ==
    /\ ppc \in {"run", "down"}
    /\ ppc' = "unplug" /\ usb' = "DOWN" /\ bus' = "DOWN" /\ slept' = TRUE
    /\ UNCHANGED <<listVars, flowVars, sendVars, threadVars, failed, fault>>

(* Mutant: the thread is awaited without the complete_all.                 *)
StopThreadSilently ==
    /\ ppc = "unplug"
    /\ \A s \in Senders : spc[s] = "idle"
    /\ ppc' = "stopping"
    /\ UNCHANGED <<listVars, flowVars, sendVars, threadVars, usb, bus, slept,
                   failed, fault>>

StopThread ==
    /\ ppc = "unplug"
    /\ \A s \in Senders : spc[s] = "idle"
    /\ ppc' = "stopping"
    /\ trgg' = trgg + 1
    /\ UNCHANGED <<listVars, flowVars, sendVars, tpc, tbuf, usb, bus, slept,
                   failed, fault>>

(* aicwf_usb_deinit frees the buffers on tx_free_list.                     *)
UsbDeinit ==
    /\ ppc = "stopping" /\ tpc = "stopped"
    /\ flying = {} /\ checks = 0
    /\ ppc' = "gone"
    /\ free' = {}
    /\ UNCHANGED <<post, flying, data, flowVars, sendVars, threadVars, usb, bus,
                   slept, failed, fault>>

PowerStep ==
    \/ SuspendSleep \/ SuspendStop \/ TxPrepareTest \/ TxPrepareTake
    \/ ResumeWake \/ StopThread \/ UsbDeinit

-----------------------------------------------------------------------------
Next ==
    /\ fault = "none"
    /\ \/ \E s \in Senders : FrameDropped(s) \/ TxData(s) \/ SenderStep(s)
       \/ ThreadStep
       \/ \E b \in Bufs : TxComplete(b)
       \/ TxCompleteFlow
       \/ SuspendQueues \/ BusStart \/ Disconnect \/ PowerStep

Spec == Init /\ [][Next]_vars

(* The threads run to the end of what they began, and the USB core         *)
(* completes what was submitted.  New frames, a suspend, a resume and a    *)
(* disconnect need not come.                                               *)
Fairness ==
    /\ \A s \in Senders : WF_vars(fault = "none" /\ SenderStep(s))
    /\ WF_vars(fault = "none" /\ ThreadStep)
    /\ \A b \in Bufs : WF_vars(fault = "none" /\ TxComplete(b))
    /\ WF_vars(fault = "none" /\ TxCompleteFlow)
    /\ WF_vars(fault = "none" /\ PowerStep)

FairSpec == Spec /\ Fairness

-----------------------------------------------------------------------------
TypeOK ==
    /\ usb \in {"UP", "SLEEP", "DOWN"} /\ bus \in {"UP", "DOWN"}
    /\ free \subseteq Bufs /\ post \subseteq Bufs /\ flying \subseteq Bufs
    /\ data \in [Bufs -> {"none", "skb", "kbuf"}]
    /\ trgg \in Nat /\ tpc \in ThreadPC /\ tbuf \in Bufs
    /\ spc \in [Senders -> SenderPC] /\ sbuf \in [Senders -> Bufs]
    /\ checks \in Nat /\ tbusy \in BOOLEAN /\ stopped \in BOOLEAN
    /\ ppc \in PowerPC /\ frames \in Nat
    /\ failed \in BOOLEAN /\ slept \in BOOLEAN
    /\ fault \in {"none", "bad_free", "null_buf"}

SenderHolds(s) == {b \in Bufs : spc[s] = "post" /\ b = sbuf[s]}
ThreadHolds == {b \in Bufs : tpc = "submit" /\ b = tbuf}

(* Every buffer of the pool is in one place: on one of the two lists, with *)
(* the USB core, or in the hands of one sender or of the thread.  None is  *)
(* lost or in two places, also across failed submissions and suspends.     *)
BufsConserved ==
    /\ ppc # "gone" =>
         Bufs = free \cup post \cup flying \cup ThreadHolds
                  \cup UNION {SenderHolds(s) : s \in Senders}
    /\ free \cap post = {} /\ free \cap flying = {} /\ post \cap flying = {}
    /\ ThreadHolds \cap (free \cup post \cup flying) = {}
    /\ \A s \in Senders :
         /\ SenderHolds(s) \cap (free \cup post \cup flying \cup ThreadHolds) = {}
         /\ \A t \in Senders : t # s => SenderHolds(s) \cap SenderHolds(t) = {}

(* The frame of a buffer lives from its post to its completion or drop:    *)
(* what is on the free list has none left to leak or to free twice, and    *)
(* what can still be submitted has one.                                    *)
FramesLive ==
    /\ \A b \in free : data[b] = "none"
    /\ \A b \in post \cup flying \cup ThreadHolds : data[b] # "none"

(* Flow control cannot stay on by itself: while tbusy is set, either no    *)
(* more than High buffers are free, so that some are still to come back,   *)
(* or a completion that put one back has yet to look.  The paths that put  *)
(* buffers back without a look are a failed submission and the clean-up of *)
(* a resume.                                                               *)
BusyWillBeSeen ==
    ~failed /\ ~slept => (tbusy => Cardinality(free) <= High \/ checks > 0)

(* Before a suspend, queues are stopped only while tbusy is set, so that   *)
(* the completion that clears it also wakes them.                          *)
StoppedOnlyWhenBusy == ppc = "run" /\ ~slept /\ stopped => tbusy

(* No trigger is lost: while the bus is up and the thread lives, whenever  *)
(* a buffer is posted, the thread is at work, has a trigger pending, or a  *)
(* sender is about to give it one.                                         *)
TriggerPending ==
    usb = "UP" /\ ppc \in {"run", "suspend", "resumed"} /\ tpc # "stopped"
    /\ post # {} =>
        \/ trgg > 0
        \/ tpc \in {"loop", "dequeue", "submit"}
        \/ \E s \in Senders : spc[s] = "trigger"

(* The transmit path at rest and in every step: buffers are conserved, a   *)
(* busy path is seen to be busy, and a posted buffer has a trigger.        *)
TxSound == BufsConserved /\ BusyWillBeSeen /\ TriggerPending

(* Outside a first period of running, the bus has been stopped.            *)
PowerPhase ==
    /\ ppc \notin {"run", "suspend"} => slept
    /\ usb # "UP" => slept

TxInv ==
    /\ TypeOK /\ PowerPhase
    /\ BufsConserved /\ FramesLive
    /\ BusyWillBeSeen /\ StoppedOnlyWhenBusy /\ TriggerPending

(* Once no more frames come, and while the bus stays up, every posted      *)
(* buffer is submitted or dropped.                                         *)
PostDone == post = {} \/ slept \/ fault # "none"
PostedSubmitted == post # {} ~> PostDone

(* While the bus stays up and no submission fails, stopped queues are      *)
(* woken.                                                                  *)
FlowReleased ==
    stopped ~> ~stopped \/ ppc # "run" \/ slept \/ failed \/ fault # "none"

(* A disconnect ends: the thread always notices and kthread_stop returns.  *)
DisconnectEnds == ppc = "unplug" ~> ppc = "gone" \/ fault # "none"

(* Neither the queues of the net device nor a disconnect wait for ever.    *)
TxServed == FlowReleased /\ DisconnectEnds
=============================================================================
