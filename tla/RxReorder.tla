------------------------------ MODULE RxReorder ------------------------------
(***************************************************************************)
(* Reordering of received frames (rwnx_rx.c, AICWF_RX_REORDER), for one    *)
(* station and one TID.  The receive thread puts a frame that is ahead of  *)
(* ind_sn on reord_list; frames leave the list in order when the gap is    *)
(* filled, when the window moves past it, or when reord_timer expires and  *)
(* its work item gives up waiting.  Another thread may remove the station. *)
(*                                                                         *)
(* A frame is the number it was sent with, counted from First; the code    *)
(* sees only its sequence number, modulo SnMod.  One step is one section   *)
(* under reord_list_lock or stas_reord_lock, or what runs outside them.    *)
(***************************************************************************)
EXTENDS Integers, FiniteSets, Sequences, SequencesExt

CONSTANTS
    SnMod,      \* 4096: sequence numbers have 12 bits
    First,      \* number of the first frame sent
    MaxFrames,  \* bound on the frames of a behaviour
    Setups      \* windows and senders, of which a behaviour has one

(* The window and the sender's lead fit in the half of the sequence space  *)
(* that SN_LESS takes for "ahead".                                         *)
ASSUME SnAssumption ==
    /\ SnMod \in Nat /\ SnMod % 2 = 0
    /\ First \in Nat /\ MaxFrames \in Nat \ {0}
    /\ \A s \in Setups : /\ s.win \in Nat \ {0} /\ s.gap \in Nat \ {0}
                         /\ s.dups \in Nat
                         /\ 2 * (s.win + s.gap) <= SnMod

VARIABLES
    setup,      \* the one of this behaviour
    sent, air,  \* number of the next frame, and the frames on their way
    got, dups,  \* frames received, and those received again
    usb,        \* usb_dev->state, of which only USB_DOWN_ST matters here
    present,    \* the station has a reord_ctrl_info
    enable,     \* preorder_ctrl->enable
    ind_sn,     \* preorder_ctrl->ind_sn
    list,       \* preorder_ctrl->reord_list
    timer,      \* reord_timer: off, armed, or expired while the bus was down
    work,       \* reord_timer_work is pending
    wpc,        \* the work item
    rpc, hand,  \* the receive thread and the frame it holds
    dpc,        \* reord_deinit_sta
    dangling,   \* who holds a pointer into a freed reord_ctrl_info
    out,        \* frames indicated from the list since it was enabled
    up,         \* frames handed to the network stack
    dropped,    \* frames dropped: late RTP frames, and by reord_deinit_sta
    fault

envVars == <<sent, air, got, dups, usb>>
ctrlVars == <<enable, ind_sn, list>>
timeVars == <<timer, work, wpc>>
rxVars == <<rpc, hand>>
staVars == <<present, dpc, dangling>>
indVars == <<out, up, dropped>>
vars == <<setup, envVars, ctrlVars, timeVars, rxVars, staVars, indVars, fault>>

WinSize == setup.win    \* preorder_ctrl->wsize_b, AICWF_REORDER_WINSIZE
MaxGap == setup.gap     \* the sender is at most so far ahead of what was received
MaxDups == setup.dups   \* bound on the frames that arrive twice

NoSn == -1  \* ind_sn = 0xffff, "first time"
Sn(n) == n % SnMod
Numbers == First .. First + MaxFrames - 1

Init ==
    /\ setup \in Setups
    /\ sent = First /\ air = {} /\ got = {} /\ dups = {} /\ usb = "UP"
    /\ present = FALSE /\ enable = FALSE /\ ind_sn = NoSn /\ list = <<>>
    /\ timer = "off" /\ work = FALSE /\ wpc = "idle"
    /\ rpc = "idle" /\ hand = First
    /\ dpc = "idle" /\ dangling = {}
    /\ out = <<>> /\ up = {} /\ dropped = {}
    /\ fault = "none"

-----------------------------------------------------------------------------
(* Sequence numbers: SN_LESS(a, b) looks at bit 11 of a - b.               *)
SnLess(a, b) == (a - b) % SnMod >= SnMod \div 2

(* Mutant: the mask with 0xFFF is forgotten.                               *)
NextSnUnmasked(sn) == sn + 1

NextSn(sn) == Sn(sn + 1)

(* Mutant: the window ends one too far.                                    *)
WindowEndPast(sn) == Sn(sn + WinSize)

(* wend of reord_need_check.                                               *)
WindowEnd(sn) == Sn(sn + WinSize - 1)

(* Mutant: the numbers are compared as integers.                           *)
JudgedLateUnwrapped(ind, sn) == sn < ind

(* reord_need_check finds the frame behind ind_sn.                         *)
JudgedLate(ind, sn) == SnLess(sn, ind)

(* ind_sn after reord_need_check has accepted the frame: one further for   *)
(* the frame it waits for, moved when the frame is past the window.        *)
NeedCheck(ind, sn) ==
    IF sn = ind THEN NextSn(ind)
    ELSE IF SnLess(WindowEnd(ind), sn) THEN Sn(sn - (WinSize - 1)) ELSE ind

(* Mutant: a frame goes to the tail of the list.                           *)
EnqueueAtTail(l, n) == Append(l, n)

(* reord_rxframe_enqueue: before the first frame that is not behind it.    *)
Enqueue(l, n) ==
    LET i == SelectInSeq(l, LAMBDA m : ~SnLess(Sn(m), Sn(n)))
    IN  IF i = 0 THEN Append(l, n) ELSE InsertAt(l, i, n)

(* It fails when that frame has the same number.                           *)
IsDuplicate(l, n) ==
    LET i == SelectInSeq(l, LAMBDA m : ~SnLess(Sn(m), Sn(n)))
    IN  i # 0 /\ Sn(l[i]) = Sn(n)

(* reord_rxframes_process meets a frame: ind_sn passes the one it waits    *)
(* for; a frame beyond a gap ends the loop.                                *)
Visit(a, sn) ==
    IF a.gap \/ SnLess(a.ind, sn) THEN [ind |-> a.ind, gap |-> TRUE]
    ELSE [ind |-> IF sn = a.ind THEN NextSn(a.ind) ELSE a.ind, gap |-> FALSE]

(* Its loop: where it is after each of the frames of the list.             *)
Loop(ind, l) ==
    LET after[k \in 0 .. Len(l)] ==
          IF k = 0 THEN [ind |-> ind, gap |-> FALSE]
          ELSE Visit(after[k - 1], Sn(l[k]))
    IN  after

Process(ind, l) == Loop(ind, l)[Len(l)]

(* reord_rxframes_ind takes the frames that are not ahead of ind_sn off    *)
(* the head of the list.                                                   *)
Ready(ind, l) ==
    LET i == SelectInSeq(l, LAMBDA m : SnLess(ind, Sn(m)))
    IN  IF i = 0 THEN Len(l) ELSE i - 1

(* Both, on list l, with what they indicate.                               *)
Indicate(ind, l) ==
    LET p == Process(ind, l)
        k == Ready(p.ind, l)
    IN  /\ ind_sn' = p.ind
        /\ list' = SubSeq(l, k + 1, Len(l))
        /\ out' = out \o SubSeq(l, 1, k)
        /\ up' = up \cup ToSet(SubSeq(l, 1, k))

-----------------------------------------------------------------------------
(* The sender and the air: a frame is sent while the sender is at most     *)
(* MaxGap ahead; what its block-ack window has left behind is lost.  A     *)
(* frame whose acknowledgement is lost arrives again.                      *)
Top == Max(got \cup {First - 1})

Send ==
    /\ sent < First + MaxFrames
    /\ sent - Top <= MaxGap
    /\ sent' = sent + 1
    /\ air' = {n \in air : n > sent - WinSize} \cup {sent}
    /\ UNCHANGED <<got, dups, usb, ctrlVars, timeVars, rxVars, staVars,
                   indVars, fault>>

Receive(n) ==
    /\ rpc = "idle" /\ usb = "UP"
    /\ \/ air' = air \ {n} /\ UNCHANGED dups
       \/ /\ Cardinality(dups) < MaxDups /\ n \notin dups
          /\ dups' = dups \cup {n} /\ UNCHANGED air
    /\ got' = got \cup {n}
    /\ UNCHANGED <<sent, usb>>

(* A frame that needs no reordering: EAPOL, not of a block-ack session     *)
(* while the TID is not enabled, or the first of a station for which       *)
(* reord_init_sta has no memory.                                           *)
RxBypass(n) ==
    /\ Receive(n)
    /\ up' = up \cup {n}
    /\ UNCHANGED <<ctrlVars, timeVars, rxVars, staVars, out, dropped, fault>>

(* reord_process_unit up to the release of stas_reord_lock: the control    *)
(* block is found, created or enabled, and kept without the lock.          *)
RxLookup(n) ==
    /\ Receive(n)
    /\ rpc' = "process" /\ hand' = n
    /\ present' = TRUE
    /\ enable' = TRUE
    /\ ind_sn' = IF enable THEN ind_sn ELSE NoSn
    /\ out' = IF enable THEN out ELSE <<>>
    /\ UNCHANGED <<list, timeVars, dpc, dangling, up, dropped, fault>>

(* The rest, under reord_list_lock: a frame behind ind_sn is indicated at  *)
(* once (or dropped, when it looks like RTP) ...                           *)
RxLate ==
    LET ind == IF ind_sn = NoSn THEN Sn(hand) ELSE ind_sn IN
    /\ rpc = "process" /\ "rx" \notin dangling /\ enable
    /\ JudgedLate(ind, Sn(hand))
    /\ ind_sn' = ind
    /\ \/ up' = up \cup {hand} /\ UNCHANGED dropped
       \/ dropped' = dropped \cup {hand} /\ UNCHANGED up
    /\ rpc' = "idle"
    /\ UNCHANGED <<envVars, enable, list, timeVars, hand, staVars, out, fault>>

(* The timer runs while there is a gap.                                    *)
RestartTimer(gap) == timer' = IF gap THEN "armed" ELSE "off"

(* ... and any other is put on the list, unless its number is there.       *)
RxEnqueue ==
    LET ind == IF ind_sn = NoSn THEN Sn(hand) ELSE ind_sn
        new == NeedCheck(ind, Sn(hand)) IN
    /\ rpc = "process" /\ "rx" \notin dangling /\ enable
    /\ ~JudgedLate(ind, Sn(hand))
    /\ \/ /\ IsDuplicate(list, hand)
          /\ ind_sn' = new
          /\ dropped' = dropped \cup {hand}
          /\ UNCHANGED <<list, out, up, timer>>
       \/ /\ ~IsDuplicate(list, hand)
          /\ Indicate(new, Enqueue(list, hand))
          /\ RestartTimer(Process(new, Enqueue(list, hand)).gap)
          /\ UNCHANGED dropped
    /\ rpc' = "idle"
    /\ UNCHANGED <<envVars, enable, work, wpc, hand, staVars, fault>>

(* The station is being removed: the frame is indicated out of turn.       *)
RxDisabled ==
    /\ rpc = "process" /\ "rx" \notin dangling /\ ~enable
    /\ up' = up \cup {hand}
    /\ ind_sn' = NextSn(Sn(hand))
    /\ rpc' = "idle"
    /\ UNCHANGED <<envVars, enable, list, timeVars, hand, staVars, out, dropped,
                   fault>>

(* Mutant: a flush leaves the frames on the list.                          *)
FlushedNone == {}

Flushed == ToSet(list)

(* A QoS frame that is not part of a block-ack session: reord_flush_tid    *)
(* finds the TID enabled, keeping its control block without the lock ...   *)
RxFlushLookup(n) ==
    /\ Receive(n)
    /\ present /\ enable
    /\ rpc' = "found" /\ hand' = n
    /\ UNCHANGED <<ctrlVars, timeVars, staVars, indVars, fault>>

(* ... indicates the list and disables the TID ...                         *)
RxFlush ==
    /\ rpc = "found" /\ "rx" \notin dangling
    /\ up' = up \cup Flushed
    /\ out' = out \o list
    /\ list' = <<>> /\ enable' = FALSE
    /\ rpc' = "flush"
    /\ UNCHANGED <<envVars, ind_sn, timeVars, hand, staVars, dropped, fault>>

(* ... then stops the timer and waits for the work item; the frame itself  *)
(* goes up last.                                                           *)
RxFlushCancel ==
    /\ rpc = "flush" /\ "rx" \notin dangling
    /\ timer' = "off"
    /\ rpc' = "cancel"
    /\ UNCHANGED <<envVars, ctrlVars, work, wpc, hand, staVars, indVars, fault>>

RxFlushEnd ==
    /\ rpc = "cancel" /\ "rx" \notin dangling
    /\ wpc = "idle" /\ work' = FALSE
    /\ up' = up \cup {hand}
    /\ rpc' = "idle"
    /\ UNCHANGED <<envVars, ctrlVars, timer, wpc, hand, staVars, out, dropped,
                   fault>>

RxStep ==
    RxLate \/ RxEnqueue \/ RxDisabled \/ RxFlush \/ RxFlushCancel \/ RxFlushEnd

-----------------------------------------------------------------------------
(* reord_timeout_handler and reord_timeout_worker.                         *)

TimerExpires ==
    /\ timer = "armed"
    /\ \/ usb = "UP" /\ timer' = "off" /\ work' = TRUE
       \/ usb = "DOWN" /\ timer' = "missed" /\ UNCHANGED work
    /\ UNCHANGED <<envVars, ctrlVars, wpc, rxVars, staVars, indVars, fault>>

WorkStart ==
    /\ work /\ wpc = "idle"
    /\ work' = FALSE /\ wpc' = "run"
    /\ UNCHANGED <<envVars, ctrlVars, timer, rxVars, staVars, indVars, fault>>

(* Mutant: the timer is not started again.                                 *)
RearmNever(gap) == UNCHANGED timer

(* mod_timer when frames stay behind another gap.                          *)
Rearm(gap) == timer' = IF gap THEN "armed" ELSE timer

(* The gap before the head of the list is given up.                        *)
WorkRun ==
    /\ wpc = "run"
    /\ \/ list = <<>> /\ UNCHANGED <<ind_sn, list, out, up, timer>>
       \/ /\ list # <<>>
          /\ Indicate(Sn(Head(list)), list)
          /\ Rearm(Process(Sn(Head(list)), list).gap)
    /\ wpc' = "idle"
    /\ UNCHANGED <<envVars, enable, work, rxVars, staVars, dropped, fault>>

WorkStep == TimerExpires \/ WorkStart \/ WorkRun

-----------------------------------------------------------------------------
(* reord_deinit_sta, on the thread that removes the station.               *)

DeinitTimer ==
    /\ present /\ dpc = "idle"
    /\ \/ /\ enable
          /\ enable' = FALSE
          /\ timer' = "off"
          /\ dpc' = "cancel"
       \/ /\ ~enable
          /\ dpc' = "drop"
          /\ UNCHANGED <<enable, timer>>
    /\ UNCHANGED <<envVars, ind_sn, list, work, wpc, rxVars, present, dangling,
                   indVars, fault>>

(* cancel_work_sync waits for a running work item, which may have started  *)
(* the timer again.                                                        *)
DeinitCancel ==
    /\ dpc = "cancel"
    /\ wpc = "idle"
    /\ work' = FALSE
    /\ dpc' = "drop"
    /\ UNCHANGED <<envVars, ctrlVars, timer, wpc, rxVars, present, dangling,
                   indVars, fault>>

DeinitDrop ==
    /\ dpc = "drop"
    /\ dropped' = dropped \cup ToSet(list)
    /\ list' = <<>>
    /\ dpc' = "free"
    /\ UNCHANGED <<envVars, enable, ind_sn, timeVars, rxVars, present, dangling,
                   out, up, fault>>

(* kfree, with the timer, the work item or the receive thread possibly     *)
(* still at it.                                                            *)
DeinitFree ==
    /\ dpc = "free"
    /\ dpc' = "idle" /\ present' = FALSE /\ enable' = FALSE
    /\ dropped' = dropped \cup ToSet(list) /\ list' = <<>>
    /\ timer' = "off" /\ work' = FALSE /\ wpc' = "idle"
    /\ dangling' = dangling
         \cup (IF timer = "armed" \/ work \/ wpc = "run" THEN {"timer"} ELSE {})
         \cup (IF rpc # "idle" THEN {"rx"} ELSE {})
    /\ out' = <<>>
    /\ UNCHANGED <<envVars, ind_sn, rxVars, up, fault>>

(* Whoever holds the old pointer uses it.                                  *)
UseAfterFree ==
    /\ dangling # {}
    /\ fault' = "use_after_free"
    /\ UNCHANGED <<envVars, ctrlVars, timeVars, rxVars, staVars, indVars>>

DeinitStep == DeinitCancel \/ DeinitDrop \/ DeinitFree

BusStop ==
    /\ usb = "UP" /\ usb' = "DOWN"
    /\ UNCHANGED <<sent, air, got, dups, ctrlVars, timeVars, rxVars, staVars,
                   indVars, fault>>

BusStart ==
    /\ usb = "DOWN" /\ usb' = "UP"
    /\ UNCHANGED <<sent, air, got, dups, ctrlVars, timeVars, rxVars, staVars,
                   indVars, fault>>

-----------------------------------------------------------------------------
Next ==
    /\ fault = "none"
    /\ UNCHANGED setup
    /\ \/ Send
       \/ \E n \in air : RxBypass(n) \/ RxLookup(n) \/ RxFlushLookup(n)
       \/ RxStep \/ WorkStep
       \/ DeinitTimer \/ DeinitStep
       \/ UseAfterFree
       \/ BusStop \/ BusStart

Spec == Init /\ [][Next]_vars

(* An armed timer expires and a pending work item runs.                    *)
Fairness == WF_vars(fault = "none" /\ WorkStep /\ UNCHANGED setup)

FairSpec == Spec /\ Fairness

-----------------------------------------------------------------------------
TypeOK ==
    /\ setup \in Setups
    /\ sent \in First .. First + MaxFrames /\ air \subseteq Numbers
    /\ got \subseteq Numbers /\ dups \subseteq got /\ usb \in {"UP", "DOWN"}
    /\ present \in BOOLEAN /\ enable \in BOOLEAN
    /\ ind_sn \in 0 .. SnMod - 1 \cup {NoSn}
    /\ list \in Seq(Numbers) /\ out \in Seq(Numbers)
    /\ timer \in {"off", "armed", "missed"} /\ work \in BOOLEAN
    /\ wpc \in {"idle", "run"}
    /\ rpc \in {"idle", "process", "found", "flush", "cancel"} /\ hand \in Numbers
    /\ dpc \in {"idle", "cancel", "drop", "free"}
    /\ dangling \subseteq {"timer", "rx"}
    /\ up \subseteq Numbers /\ dropped \subseteq Numbers
    /\ fault \in {"none", "use_after_free"}

(* How far sequence number sn is ahead of ind_sn.                          *)
Ahead(sn) == (sn - ind_sn) % SnMod

(* The list is sorted, without duplicates and inside the window: whenever  *)
(* the lock is free, every frame on it is ahead of ind_sn by less than the *)
(* window size, across the wrap of the sequence numbers.                   *)
ListInWindow ==
    enable /\ ind_sn # NoSn /\ dpc = "idle" =>
        /\ \A i \in DOMAIN list : Ahead(Sn(list[i])) \in 1 .. WinSize - 1
        /\ \A i, j \in DOMAIN list :
             i < j => Ahead(Sn(list[i])) < Ahead(Sn(list[j]))

(* A frame that is taken for a late one, and goes up out of turn, was      *)
(* really passed: a later frame was received before it, or it went up      *)
(* itself before.  A frame dropped as a duplicate was received twice.      *)
PassedOrTwice ==
    /\ RxLate => hand < Top \/ hand \in up \cup dropped \/ dpc # "idle"
    /\ RxEnqueue /\ dropped' # dropped => hand \in dups

LateWasPassed == [][PassedOrTwice]_vars

(* Every frame received is on the list, in the hands of the receive        *)
(* thread, handed up, or dropped on purpose, and one received only once is *)
(* in one of these only.                                                   *)
NothingLost ==
    LET inHand == IF rpc = "idle" THEN {} ELSE {hand} IN
    /\ got = ToSet(list) \cup inHand \cup up \cup dropped
    /\ ToSet(list) \cap (up \cup dropped \cup inHand) \subseteq dups
    /\ inHand \cap (up \cup dropped) \subseteq dups
    /\ up \cap dropped \subseteq dups

(* No frame waits for ever: while frames are on the list the timer is      *)
(* armed or its work item is on its way, unless it expired while the bus   *)
(* was down.                                                               *)
TimerCovers ==
    enable /\ list # <<>> /\ dpc = "idle" =>
        timer \in {"armed", "missed"} \/ work \/ wpc = "run"

-----------------------------------------------------------------------------
(* The invariant that the proofs need besides these.  While the control    *)
(* block stays, only an enabled TID that has seen a frame has a list; the  *)
(* receive thread enables no TID before its flush is over.  What is on its *)
(* way was sent, and what is there again, on its way or on the list, is    *)
(* counted as arriving twice.                                              *)
Repeated(l) == {l[i] : i \in {i \in DOMAIN l : \E j \in DOMAIN l : i < j /\ l[i] = l[j]}}

ListOnlyEnabled ==
    /\ dpc = "idle" /\ (~enable \/ ind_sn = NoSn) => list = <<>>
    /\ rpc \in {"flush", "cancel"} => ~enable

FramesCounted ==
    /\ air \cup got \subseteq First .. sent - 1
    /\ air \cap got \subseteq dups /\ Repeated(list) \subseteq dups

RxInv ==
    TypeOK /\ ListInWindow /\ NothingLost /\ TimerCovers
           /\ ListOnlyEnabled /\ FramesCounted

(* In half of the sequence space ind_sn stands for one number n: all that  *)
(* left the list is below it, and it went no further than the frames did.  *)
IndNumber ==
    enable /\ dpc = "idle" =>
        IF ind_sn = NoSn THEN out = <<>>
        ELSE \E n \in First .. First + MaxFrames :
               /\ ind_sn = Sn(n) /\ \A i \in DOMAIN out : out[i] < n
               /\ n - 1 \in up \/ \E m \in got : n <= m

-----------------------------------------------------------------------------
(* No frame is held for ever: while the bus stays up and the station       *)
(* stays, the timer and its work item empty the list, whatever gaps there  *)
(* are in it and whatever the receive thread does meanwhile.               *)
Held == enable /\ list # <<>> /\ timer # "missed"
Freed == list = <<>> \/ usb = "DOWN" \/ dpc # "idle" \/ fault # "none"
HeldGoesUp == Held ~> Freed
=============================================================================
