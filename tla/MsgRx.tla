-------------------------------- MODULE MsgRx --------------------------------
(***************************************************************************)
(* The second bulk-in pipe of the chips that have one (CONFIG_USB_MSG_IN_  *)
(* EP, default build): messages of the firmware are queued on msg_rxq by   *)
(* the URB completion and handled by the msg_busrx thread.  Confirmations  *)
(* of transmitted frames come this way and find their frame in the ring of *)
(* usb_host.c, which is modelled here too.                                 *)
(*                                                                         *)
(* URBs are all alike, so that their list is its length.  Completions of   *)
(* an endpoint come one after the other; everything else is concurrent.    *)
(* The differences to the data pipe (UsbRx.tla) are in the source: every   *)
(* message triggers the thread, a submission is tried again for as long    *)
(* as the bus is up, and a full queue loses the URB, not just the message. *)
(***************************************************************************)
EXTENDS Integers, Sequences

CONSTANTS
  NUrbs,      \* AICWF_USB_MSG_RX_URBS
  QMax,       \* MAX_RXQLEN
  Cnt,        \* USB_TXDESC_CNT
  Wrap,       \* 0x40000000, where txdesc_free_idx starts again
  MaxFrames,  \* bound: frames that want a confirmation
  MaxMsgs     \* bound: other messages

MsgRxAssumption ==
  /\ NUrbs \in Nat /\ QMax \in Nat /\ Cnt \in Nat \ {0}
  /\ Wrap \in Nat /\ Wrap % Cnt = 0
  /\ MaxFrames \in Nat /\ MaxMsgs \in Nat

VARIABLES
  usb, bus,     \* usb_dev->state, bus_if->state
  free, flying, \* length of msg_rx_free_list; URBs the USB core holds
  dropped,      \* ghost: URBs lost with a message that found the queue full
  msg_rxq,      \* the messages queued
  trgg,         \* bus_if->msg_busrx_trgg, a completion
  hpc, hmsg,    \* the completion handler and its message
  spc,          \* each context in aicwf_usb_msg_rx_submit_all_urb
  tpc, tmsg,    \* the msg_busrx thread and its message
  ppc,          \* probe, suspend, resume and disconnect
  trouble,      \* ghost: a URB was put back after an error, without a submission
  tx_host_id,   \* the ring: number of the frame in each slot, 0 for none
  free_idx,     \* txdesc_free_idx
  pushed,       \* ghost: frames pushed so far, also the number of the last
  fw,           \* frames the firmware still has to confirm
  msgs,         \* other messages so far
  mixed         \* ghost: a confirmation was given to another frame

urbVars == <<free, flying, dropped, trouble>>
handlerVars == <<hpc, hmsg>>
threadVars == <<tpc, tmsg>>
powerVars == <<usb, bus, ppc>>
ringVars == <<tx_host_id, free_idx, pushed>>
vars == <<urbVars, msg_rxq, trgg, handlerVars, spc, threadVars, powerVars,
          ringVars, fw, msgs, mixed>>

Submitters == {"urb", "start"}
None == [idx |-> 0, frame |-> 0]      \* a message that confirms no frame
Goto(x, where) == spc' = [spc EXCEPT ![x] = where]

Init ==
  /\ usb = "DOWN" /\ bus = "DOWN" /\ ppc = "down"
  /\ free = NUrbs /\ flying = 0 /\ dropped = 0 /\ trouble = FALSE
  /\ msg_rxq = <<>> /\ trgg = 0
  /\ hpc = "idle" /\ hmsg = None /\ tpc = "wait" /\ tmsg = None
  /\ spc = [x \in Submitters |-> "idle"]
  /\ tx_host_id = [i \in 0..(Cnt - 1) |-> 0] /\ free_idx = 0 /\ pushed = 0
  /\ fw = {} /\ msgs = 0 /\ mixed = FALSE

-----------------------------------------------------------------------------
(************************ The ring of usb_host.c ***************************)

(* Mutant: the index starts again one early.                               *)
NextIdxEarly(i) == IF i + 2 = Wrap THEN 0 ELSE i + 1
NextIdx(i) == IF i + 1 = Wrap THEN 0 ELSE i + 1

(* The frames whose confirmation is still on its way to the ring.          *)
Unconfirmed ==
  fw \cup {msg_rxq[i] : i \in DOMAIN msg_rxq} \cup {hmsg, tmsg}

(* rwnx_tx_push of a frame that wants a confirmation: the frame carries    *)
(* the index and the slot remembers the frame.  Nothing in the code keeps  *)
(* a slot from being overwritten: the firmware is assumed to confirm a     *)
(* frame before Cnt further ones.                                          *)
Push ==
  /\ usb = "UP" /\ pushed < MaxFrames
  /\ \A p \in Unconfirmed : p # None => pushed + 1 - p.frame < Cnt
  /\ pushed' = pushed + 1
  /\ tx_host_id' = [tx_host_id EXCEPT ![free_idx % Cnt] = pushed + 1]
  /\ free_idx' = NextIdx(free_idx)
  /\ fw' = fw \cup {[idx |-> free_idx, frame |-> pushed + 1]}
  /\ UNCHANGED <<urbVars, msg_rxq, trgg, handlerVars, spc, threadVars, powerVars,
                 msgs, mixed>>

(* aicwf_usb_host_tx_cfm_handler: an empty slot is ignored.                *)
CfmHandler(c) ==
  /\ mixed' = (mixed \/ tx_host_id[c.idx % Cnt] # c.frame)
  /\ tx_host_id' = [tx_host_id EXCEPT ![c.idx % Cnt] = 0]

-----------------------------------------------------------------------------
(********************** aicwf_usb_msg_rx_complete **************************)

(* The firmware sends a confirmation or another message.  Without the bus  *)
(* up the message is dropped and the URB put back for good.                *)
Received(m) ==
  /\ hpc = "idle" /\ spc["urb"] = "idle" /\ flying > 0
  /\ flying' = flying - 1
  /\ hpc' = IF usb = "UP" THEN "enqueue" ELSE "putquiet"
  /\ hmsg' = IF usb = "UP" THEN m ELSE None
  /\ trouble' = (trouble \/ usb # "UP")
  /\ UNCHANGED <<free, dropped, msg_rxq, trgg, spc, threadVars, powerVars,
                 ringVars, mixed>>

RecvCfm == \E c \in fw : Received(c) /\ fw' = fw \ {c} /\ UNCHANGED msgs
RecvOther == msgs < MaxMsgs /\ Received(None) /\ msgs' = msgs + 1 /\ UNCHANGED fw

(* A URB without data is submitted again, one with an error is not.        *)
Failed(error) ==
  /\ hpc = "idle" /\ spc["urb"] = "idle" /\ flying > 0
  /\ flying' = flying - 1
  /\ hpc' = IF error THEN "putquiet" ELSE "put"
  /\ trouble' = (trouble \/ error)
  /\ UNCHANGED <<free, dropped, msg_rxq, trgg, hmsg, spc, threadVars, powerVars,
                 ringVars, fw, msgs, mixed>>

(* aicwf_rxframe_enqueue; a full queue frees the message and returns.      *)
Enqueue ==
  /\ hpc = "enqueue" /\ hmsg' = None
  /\ \/ /\ Len(msg_rxq) < QMax
        /\ msg_rxq' = Append(msg_rxq, hmsg) /\ hpc' = "trigger"
        /\ UNCHANGED dropped
     \/ /\ Len(msg_rxq) >= QMax
        /\ hpc' = "idle" /\ dropped' = dropped + 1
        /\ UNCHANGED msg_rxq
  /\ UNCHANGED <<free, flying, trouble, trgg, spc, threadVars, powerVars, ringVars,
                 fw, msgs, mixed>>

(* Mutant: as on the data pipe, only the first message triggers.           *)
TriggeredFirst == IF Len(msg_rxq) = 1 THEN trgg + 1 ELSE trgg
Triggered == trgg + 1

Trigger ==
  /\ hpc = "trigger" /\ trgg' = Triggered /\ hpc' = "put"
  /\ UNCHANGED <<urbVars, msg_rxq, hmsg, spc, threadVars, powerVars, ringVars, fw,
                 msgs, mixed>>

Put ==
  /\ hpc \in {"put", "putquiet"} /\ hpc' = "idle" /\ free' = free + 1
  /\ spc' = IF hpc = "put" THEN [spc EXCEPT !["urb"] = "check"] ELSE spc
  /\ UNCHANGED <<flying, dropped, trouble, msg_rxq, trgg, hmsg, threadVars,
                 powerVars, ringVars, fw, msgs, mixed>>

HandlerStep == Enqueue \/ Trigger \/ Put

-----------------------------------------------------------------------------
(********************** aicwf_usb_msg_rx_submit_all_urb ********************)

SubmitCheck(x) ==
  /\ spc[x] = "check"
  /\ Goto(x, IF usb = "UP" THEN "get" ELSE "idle")
  /\ UNCHANGED <<urbVars, msg_rxq, trgg, handlerVars, threadVars, powerVars,
                 ringVars, fw, msgs, mixed>>

SubmitGet(x) ==
  /\ spc[x] = "get"
  /\ \/ free > 0 /\ free' = free - 1 /\ Goto(x, "test")
     \/ free = 0 /\ Goto(x, "idle") /\ UNCHANGED free
  /\ UNCHANGED <<flying, dropped, trouble, msg_rxq, trgg, handlerVars, threadVars,
                 powerVars, ringVars, fw, msgs, mixed>>

(* A disconnected interface takes no URB.                                  *)
Connected == ppc \in {"down", "run", "sleep"}

(* aicwf_usb_submit_msg_rx_urb tests the state of the bus ...              *)
SubmitTest(x) ==
  /\ spc[x] = "test" /\ usb = "UP" /\ Goto(x, "submit")
  /\ UNCHANGED <<urbVars, msg_rxq, trgg, handlerVars, threadVars, powerVars,
                 ringVars, fw, msgs, mixed>>

(* ... and submits the URB with a new buffer, ...                          *)
Submitted(x) ==
  /\ spc[x] = "submit" /\ Connected
  /\ flying' = flying + 1 /\ Goto(x, "get")
  /\ UNCHANGED <<free, dropped, trouble, msg_rxq, trgg, handlerVars, threadVars,
                 powerVars, ringVars, fw, msgs, mixed>>

(* Mutant: a failure ends the loop, as on the data pipe.                   *)
AfterFailureEnds == "idle"
(* ... or puts it back, and the loop goes on while the bus is up.          *)
AfterFailure == IF usb = "UP" THEN "get" ELSE "idle"

SubmitFails(x) ==
  /\ spc[x] = "submit" \/ (spc[x] = "test" /\ usb # "UP")
  /\ free' = free + 1 /\ Goto(x, AfterFailure)
  /\ UNCHANGED <<flying, dropped, trouble, msg_rxq, trgg, handlerVars, threadVars,
                 powerVars, ringVars, fw, msgs, mixed>>

SubmitStep(x) == SubmitCheck(x) \/ SubmitGet(x) \/ SubmitTest(x) \/ Submitted(x)
                 \/ (usb # "UP" /\ SubmitFails(x))

-----------------------------------------------------------------------------
(************ usb_msg_busrx_thread, aicwf_process_msg_rxframes *************)

ThreadWake ==
  /\ tpc = "wait" /\ trgg > 0
  /\ trgg' = trgg - 1
  /\ tpc' = IF bus = "DOWN" THEN "stopped" ELSE "loop"
  /\ UNCHANGED <<urbVars, msg_rxq, handlerVars, spc, tmsg, powerVars, ringVars,
                 fw, msgs, mixed>>

ThreadDequeue ==
  /\ tpc = "loop"
  /\ \/ msg_rxq # <<>> /\ tmsg' = Head(msg_rxq) /\ msg_rxq' = Tail(msg_rxq)
        /\ tpc' = "process"
     \/ msg_rxq = <<>> /\ tpc' = "wait" /\ UNCHANGED <<msg_rxq, tmsg>>
  /\ UNCHANGED <<urbVars, trgg, handlerVars, spc, powerVars, ringVars, fw, msgs,
                 mixed>>

ThreadProcess ==
  /\ tpc = "process" /\ tpc' = "loop" /\ tmsg' = None
  /\ \/ tmsg = None /\ UNCHANGED <<tx_host_id, mixed>>
     \/ tmsg # None /\ CfmHandler(tmsg)
  /\ UNCHANGED <<urbVars, msg_rxq, trgg, handlerVars, spc, powerVars, free_idx,
                 pushed, fw, msgs>>

(* No memory for the copy: the thread returns with messages still queued.  *)
ThreadNoMem ==
  /\ tpc = "process" /\ tpc' = "wait" /\ tmsg' = None
  /\ UNCHANGED <<urbVars, msg_rxq, trgg, handlerVars, spc, powerVars, ringVars, fw,
                 msgs, mixed>>

ThreadStep == ThreadWake \/ ThreadDequeue \/ ThreadProcess

-----------------------------------------------------------------------------
(**************** Probe, suspend, resume and disconnect ********************)

BusStart ==
  /\ ppc = "down" /\ spc["start"] = "idle"
  /\ usb' = "UP" /\ bus' = "UP" /\ ppc' = "run"
  /\ Goto("start", "get")
  /\ trouble' = (hpc = "putquiet")
  /\ UNCHANGED <<free, flying, dropped, msg_rxq, trgg, handlerVars, threadVars,
                 ringVars, fw, msgs, mixed>>

(* aicwf_usb_suspend sets the state first, aicwf_usb_bus_stop follows.     *)
SuspendSleep ==
  /\ ppc = "run" /\ spc["start"] = "idle"
  /\ usb' = "SLEEP" /\ ppc' = "sleep"
  /\ UNCHANGED <<urbVars, msg_rxq, trgg, handlerVars, spc, threadVars, bus,
                 ringVars, fw, msgs, mixed>>

SuspendStop ==
  /\ ppc = "sleep"
  /\ usb' = "DOWN" /\ bus' = "DOWN" /\ ppc' = "down"
  /\ UNCHANGED <<urbVars, msg_rxq, trgg, handlerVars, spc, threadVars, ringVars,
                 fw, msgs, mixed>>

Disconnect ==
  /\ ppc \in {"run", "down"} /\ spc["start"] = "idle"
  /\ usb' = "DOWN" /\ bus' = "DOWN" /\ ppc' = "unplug"
  /\ UNCHANGED <<urbVars, msg_rxq, trgg, handlerVars, spc, threadVars, ringVars,
                 fw, msgs, mixed>>

KillUrbs ==
  /\ ppc = "unplug" /\ flying = 0 /\ hpc = "idle" /\ spc["urb"] = "idle"
  /\ ppc' = "killed" /\ trgg' = trgg + 1          \* complete_all
  /\ UNCHANGED <<urbVars, msg_rxq, handlerVars, spc, threadVars, usb, bus,
                 ringVars, fw, msgs, mixed>>

(* kthread_stop returns; aicwf_frame_queue_flush; the URBs are freed.      *)
Deinit ==
  /\ ppc = "killed" /\ tpc = "stopped"
  /\ ppc' = "gone" /\ msg_rxq' = <<>> /\ free' = 0
  /\ UNCHANGED <<flying, dropped, trouble, trgg, handlerVars, spc, threadVars, usb,
                 bus, ringVars, fw, msgs, mixed>>

Next ==
  \/ Push \/ RecvCfm \/ RecvOther \/ (\E e \in BOOLEAN : Failed(e)) \/ HandlerStep
  \/ (\E x \in Submitters : SubmitStep(x) \/ SubmitFails(x))
  \/ ThreadStep \/ ThreadNoMem
  \/ BusStart \/ SuspendSleep \/ SuspendStop \/ Disconnect \/ KillUrbs \/ Deinit

Spec == Init /\ [][Next]_vars

-----------------------------------------------------------------------------
(******************************* Properties ********************************)

One(b) == IF b THEN 1 ELSE 0

(* While the thread waits, every queued message has a trigger of its own   *)
(* pending or about to be given: a pass that gives up for want of memory   *)
(* leaves none behind.                                                     *)
MsgTriggered ==
  tpc = "wait" => Len(msg_rxq) <= trgg + One(hpc = "trigger")

(* The pipe stays open: no URB is lost but those of messages that found    *)
(* the queue full, ...                                                     *)
UrbsCounted ==
  ppc # "gone" =>
    free + flying + dropped + One(hpc # "idle")
      + One(spc["urb"] \in {"test", "submit"})
      + One(spc["start"] \in {"test", "submit"}) = NUrbs

(* ... and while the bus is up and no error came, an idle URB is           *)
(* somebody's to submit.                                                   *)
MsgListens ==
  /\ UrbsCounted
  /\ usb = "UP" /\ ~trouble /\ free > 0 => \E x \in Submitters : spc[x] # "idle"

(* A confirmation is given to the frame it is for, also across the wrap of *)
(* the index.                                                              *)
CfmOwnFrame == ~mixed

(* The message pipe: a queued message has a trigger, an idle URB has a     *)
(* context that will submit it, and a confirmation from the firmware is    *)
(* given to the frame it is for.                                           *)
PipeSound == MsgTriggered /\ MsgListens /\ CfmOwnFrame

-----------------------------------------------------------------------------
(**************************** Why they hold ********************************)

Confirmations == [idx : Nat, frame : Nat]

MsgTypeOK ==
  /\ usb \in {"UP", "SLEEP", "DOWN"} /\ bus \in {"UP", "DOWN"}
  /\ free \in Nat /\ flying \in Nat /\ dropped \in Nat /\ trouble \in BOOLEAN
  /\ msg_rxq \in Seq(Confirmations) /\ trgg \in Nat
  /\ hpc \in {"idle", "enqueue", "trigger", "put", "putquiet"}
  /\ tpc \in {"wait", "loop", "process", "stopped"}
  /\ ppc \in {"down", "run", "sleep", "unplug", "killed", "gone"}
  /\ hmsg \in Confirmations /\ tmsg \in Confirmations
  /\ spc \in [Submitters -> {"idle", "check", "get", "test", "submit"}]
  /\ tx_host_id \in [0..(Cnt - 1) -> Nat] /\ free_idx \in Nat /\ pushed \in Nat
  /\ fw \subseteq Confirmations /\ msgs \in Nat /\ mixed \in BOOLEAN

(* A pass of the thread has used up at most the trigger it woke up with.   *)
PassTriggered ==
  /\ tpc \in {"wait", "process"} => Len(msg_rxq) <= trgg + One(hpc = "trigger")
  /\ tpc = "loop" => Len(msg_rxq) <= trgg + One(hpc = "trigger") + 1

(* Only after an error is a URB put back without a submission, and only    *)
(* when it has been put back does its handler go on to submit.             *)
HandlerOrder ==
  /\ hpc = "putquiet" => trouble
  /\ hpc # "idle" => spc["urb"] = "idle"

(* A confirmation on its way names the slot that holds its frame, which is *)
(* one of the last Cnt ...                                                 *)
InSlot(c) ==
  c # None =>
    /\ c.frame > 0 /\ c.frame <= pushed /\ pushed - c.frame < Cnt
    /\ c.idx % Cnt = (c.frame - 1) % Cnt
    /\ tx_host_id[c.idx % Cnt] = c.frame

(* ... and no two of them are for the same frame.                          *)
Apart(c, d) == c # None /\ d # None => c.frame # d.frame

AllInSlot ==
  /\ free_idx % Cnt = pushed % Cnt
  /\ \A c \in fw : InSlot(c)
  /\ InSlot(hmsg) /\ InSlot(tmsg)
  /\ \A i \in DOMAIN msg_rxq : InSlot(msg_rxq[i])

AllApart ==
  /\ \A c, d \in fw : c # d => Apart(c, d)
  /\ \A c \in fw : Apart(c, hmsg) /\ Apart(c, tmsg)
  /\ \A c \in fw, i \in DOMAIN msg_rxq : Apart(c, msg_rxq[i])
  /\ Apart(hmsg, tmsg)
  /\ \A i \in DOMAIN msg_rxq : Apart(hmsg, msg_rxq[i]) /\ Apart(tmsg, msg_rxq[i])
  /\ \A i, j \in DOMAIN msg_rxq : i # j => Apart(msg_rxq[i], msg_rxq[j])

MsgInv ==
  /\ MsgTypeOK /\ PassTriggered /\ HandlerOrder /\ MsgListens
  /\ AllInSlot /\ AllApart /\ CfmOwnFrame
=============================================================================
