------------------------------- MODULE TcpAck -------------------------------
(***************************************************************************)
(* The TCP acknowledgement filter (aicwf_tcp_ack.c).  Of a connection's    *)
(* pure acknowledgements the newest is kept back for up to 5 ms and the    *)
(* ones before it are dropped, so that fewer frames go on air.             *)
(*                                                                         *)
(* Acknowledgement numbers are the naturals; the code sees them modulo     *)
(* SeqMod (2^32).  Transmitting CPUs, the slots' timers and the receive    *)
(* thread interleave; each section under a slot's sequence lock is one     *)
(* action.                                                                 *)
(***************************************************************************)
EXTENDS Integers, Sequences, FiniteSets

CONSTANTS
    Flows,      \* connections
    Cpus,       \* CPUs that may be transmitting at one time
    Slots,      \* TCP_ACK_NUM
    MaxDrop,    \* TCP_ACK_DROP_CNT
    SeqMod,     \* 2^32
    Advance,    \* how far an acknowledgement may be past the newest
    Lag,        \* how far behind the newest a late one may be
    First,      \* first acknowledgement number of a connection
    MaxAcks     \* bound on the acknowledgements of a connection

TcpAckAssumption ==
    /\ Slots \in Nat \ {0} /\ MaxDrop \in Nat /\ SeqMod \in Nat \ {0}
    /\ First \in Nat /\ MaxAcks \in Nat
    /\ Advance \subseteq Nat /\ Lag \subseteq 0 .. First
    \* The window of TCP is at most 2^30.
    /\ \A d \in Advance : d <= SeqMod \div 2
    /\ \A l \in Lag : l < SeqMod \div 2 /\ \A d \in Advance : d + l <= SeqMod \div 2

VARIABLES
    slot,       \* ack_info[]
    pending,    \* slot's timer is pending
    handler,    \* slot's timer handler: "off", "run" (waits for the lock) or
                \* "send", with the message it sends
    maxNum, freeIdx,    \* max_num, free_index
    enable,
    cpu,        \* filter_send_tcp_ack and its caller, per CPU
    rx,         \* filter_rx_tcp_ack in the receive thread
    count,      \* acknowledgements of each connection so far
    newest,     \* ghost: the last one given to the filter
    sent        \* ghost: the highest one that went out

vars == <<slot, pending, handler, maxNum, freeIdx, enable, cpu, rx, count, newest,
          sent>>

Index == 0 .. (Slots - 1)
None == [f |-> "none", n |-> 0, k |-> 0]     \* no message
Idle == [pc |-> "idle"]
Off == [pc |-> "off", msg |-> None]
MaxOf(a, b) == IF a >= b THEN a ELSE b

(* Seeded fault for the mutation runs: numbers compared as they are.       *)
U32BeforeFlat(a, b) == a % SeqMod <= b % SeqMod
(* U32_BEFORE: the difference as a signed 32-bit number is not positive.   *)
U32Before(a, b) ==
    LET d == (a - b) % SeqMod IN d = 0 \/ d >= SeqMod \div 2

(* tcp_ack_init: memset, so the first free index is 0.                     *)
Init ==
    /\ slot = [i \in Index |->
                 [busy |-> FALSE, flow |-> None.f, seq |-> 0, drop |-> 0,
                  psh |-> FALSE, pshSeq |-> 0, msg |-> None, inSend |-> None]]
    /\ pending = [i \in Index |-> FALSE]
    /\ handler = [i \in Index |-> Off]
    /\ maxNum = 0 /\ freeIdx = 0 /\ enable = TRUE
    /\ cpu = [c \in Cpus |-> Idle]
    /\ rx = Idle
    /\ count = [f \in Flows |-> 0]
    /\ newest = [f \in Flows |-> First]
    /\ sent = [f \in Flows |-> First]

Set(i, r) == slot' = [slot EXCEPT ![i] = r]
CpuDo(c, r) == cpu' = [cpu EXCEPT ![c] = r]

(* Slots of a connection; tcp_ack_match takes the first.                   *)
Matches(f) == {i \in Index : slot[i].busy /\ slot[i].flow = f}
Least(S) == CHOOSE i \in S : \A j \in S : i <= j

-----------------------------------------------------------------------------
(* filter_send_tcp_ack.  A slot idle for ACK_OLD_TIME (4 s) may be freed   *)
(* first; what it kept back was sent long before that.                     *)
Aged(i) ==
    /\ slot[i].busy /\ slot[i].msg = None /\ slot[i].inSend = None
    /\ ~pending[i] /\ handler[i].pc = "off"

(* Seeded fault for the mutation runs: the slot stays counted.             *)
UpdateUncounted(A) ==
    /\ slot' = [i \in Index |-> IF i \in A THEN [slot[i] EXCEPT !.busy = FALSE]
                                           ELSE slot[i]]
    /\ freeIdx' = IF A = {} THEN freeIdx ELSE Least(A)
    /\ UNCHANGED maxNum

(* tcp_ack_update                                                          *)
Update(A) ==
    /\ slot' = [i \in Index |-> IF i \in A THEN [slot[i] EXCEPT !.busy = FALSE]
                                           ELSE slot[i]]
    /\ freeIdx' = IF A = {} THEN freeIdx ELSE Least(A)
    /\ maxNum' = maxNum - Cardinality(A)

(* A CPU transmits an acknowledgement of f, d past the newest one.  The    *)
(* frames of one connection are in one queue, hence on one CPU at a time.  *)
XmitAck(c, f, d) ==
    /\ enable /\ cpu[c].pc = "idle" /\ count[f] < MaxAcks
    /\ \A o \in Cpus : cpu[o].pc # "idle" => cpu[o].msg.f # f
    /\ count' = [count EXCEPT ![f] = @ + 1]
    /\ newest' = [newest EXCEPT ![f] = MaxOf(@, @ + d)]
    /\ CpuDo(c, [pc |-> "match",
                 msg |-> [f |-> f, n |-> newest[f] + d, k |-> count'[f]]])
    /\ \E A \in SUBSET {i \in Index : Aged(i)} : Update(A)
    /\ UNCHANGED <<pending, handler, enable, rx, sent>>

Match(c) ==
    /\ cpu[c].pc = "match"
    /\ LET S == Matches(cpu[c].msg.f) IN
         IF S = {} THEN CpuDo(c, [cpu[c] EXCEPT !.pc = "alloc"])
         ELSE CpuDo(c, [pc |-> IF enable THEN "handle" ELSE "send",
                        msg |-> cpu[c].msg, i |-> Least(S)])
    /\ UNCHANGED <<slot, pending, handler, maxNum, freeIdx, enable, rx, count, newest,
                   sent>>

(* tcp_ack_handle_new, for a number that is not older than the slot's:     *)
(* the kept one is superseded, and the new one is sent at once after a     *)
(* pushed segment or enough drops, and kept otherwise.                     *)
Quick(s, n) == s.psh /\ ~U32Before(n, s.pshSeq)
Drops(s, n) == IF Quick(s, n) THEN s.drop ELSE s.drop + 1
AtOnce(s, n) == Quick(s, n) \/ (s.inSend = None /\ Drops(s, n) >= MaxDrop)

HandleSend(c) ==
    LET i == cpu[c].i  s == slot[cpu[c].i]  m == cpu[c].msg IN
    /\ cpu[c].pc = "handle" /\ U32Before(s.seq, m.n) /\ AtOnce(s, m.n)
    /\ Set(i, [s EXCEPT !.msg = None, !.psh = @ /\ ~Quick(s, m.n), !.drop = 0,
                        !.seq = m.n % SeqMod, !.inSend = m])
    /\ pending' = [pending EXCEPT ![i] = FALSE]
    /\ CpuDo(c, [pc |-> "send", msg |-> m])
    /\ UNCHANGED <<handler, maxNum, freeIdx, enable, rx, count, newest, sent>>

(* Seeded fault for the mutation runs: the timer is left alone.            *)
HandleKeepNoTimer(c) ==
    LET i == cpu[c].i  s == slot[cpu[c].i]  m == cpu[c].msg IN
    /\ cpu[c].pc = "handle" /\ U32Before(s.seq, m.n) /\ ~AtOnce(s, m.n)
    /\ Set(i, [s EXCEPT !.msg = m, !.drop = Drops(s, m.n), !.seq = m.n % SeqMod])
    /\ CpuDo(c, Idle)
    /\ UNCHANGED <<pending, handler, maxNum, freeIdx, enable, rx, count, newest, sent>>

HandleKeep(c) ==
    LET i == cpu[c].i  s == slot[cpu[c].i]  m == cpu[c].msg IN
    /\ cpu[c].pc = "handle" /\ U32Before(s.seq, m.n) /\ ~AtOnce(s, m.n)
    /\ Set(i, [s EXCEPT !.msg = m, !.drop = Drops(s, m.n), !.seq = m.n % SeqMod])
    /\ pending' = [pending EXCEPT ![i] = TRUE]
    /\ CpuDo(c, Idle)
    /\ UNCHANGED <<handler, maxNum, freeIdx, enable, rx, count, newest, sent>>

(* An older number is dropped.                                             *)
HandleDrop(c) ==
    /\ cpu[c].pc = "handle" /\ ~U32Before(slot[cpu[c].i].seq, cpu[c].msg.n)
    /\ CpuDo(c, Idle)
    /\ UNCHANGED <<slot, pending, handler, maxNum, freeIdx, enable, rx, count, newest,
                   sent>>

(* tcp_ack_alloc_index: the slot is chosen under ack_m's lock and becomes  *)
(* busy later, under its own.                                              *)
Alloc(c) ==
    /\ cpu[c].pc = "alloc"
    /\ LET free == {i \in Index : ~slot[i].busy}
           ok   == maxNum # Slots /\ (freeIdx >= 0 \/ free # {})
       IN /\ maxNum' = IF ok THEN maxNum + 1 ELSE maxNum
          /\ freeIdx' = IF ok THEN -1 ELSE freeIdx
          /\ CpuDo(c, IF ok THEN [pc |-> "mark", msg |-> cpu[c].msg,
                                  i |-> IF freeIdx >= 0 THEN freeIdx ELSE Least(free)]
                            ELSE [pc |-> "send", msg |-> cpu[c].msg])
    /\ UNCHANGED <<slot, pending, handler, enable, rx, count, newest, sent>>

Mark(c) ==
    /\ cpu[c].pc = "mark"
    /\ Set(cpu[c].i, [slot[cpu[c].i] EXCEPT
                        !.busy = TRUE, !.flow = cpu[c].msg.f, !.psh = FALSE,
                        !.drop = MaxDrop, !.seq = cpu[c].msg.n % SeqMod])
    /\ CpuDo(c, [pc |-> "send", msg |-> cpu[c].msg])
    /\ UNCHANGED <<pending, handler, maxNum, freeIdx, enable, rx, count, newest, sent>>

(* move_tcpack_msg, then the frame is handed to the transmit path.         *)
Moved(m) == [i \in Index |->
               IF enable /\ slot[i].busy /\ slot[i].inSend = m
               THEN [slot[i] EXCEPT !.inSend = None] ELSE slot[i]]
Out(m) == sent' = [sent EXCEPT ![m.f] = MaxOf(@, m.n)]

Send(c) ==
    /\ cpu[c].pc = "send"
    /\ slot' = Moved(cpu[c].msg)
    /\ Out(cpu[c].msg)
    /\ CpuDo(c, Idle)
    /\ UNCHANGED <<pending, handler, maxNum, freeIdx, enable, rx, count, newest>>

-----------------------------------------------------------------------------
(* The slot's timer, 5 ms after it was started: longer than a CPU takes    *)
(* from in_send_msg to move_tcpack_msg.  del_timer does not stop a handler *)
(* that has begun and waits for the lock.                                  *)
Expire(i) ==
    /\ pending[i] /\ handler[i].pc = "off" /\ slot[i].inSend = None
    /\ pending' = [pending EXCEPT ![i] = FALSE]
    /\ handler' = [handler EXCEPT ![i] = [pc |-> "run", msg |-> None]]
    /\ UNCHANGED <<slot, maxNum, freeIdx, enable, cpu, rx, count, newest, sent>>

(* tcp_ack_timeout                                                         *)
TimeoutTakes(i) == slot[i].busy /\ slot[i].msg # None /\ slot[i].inSend = None
Timeout(i) ==
    /\ handler[i].pc = "run"
    /\ IF TimeoutTakes(i)
       THEN /\ Set(i, [slot[i] EXCEPT !.msg = None, !.drop = 0, !.inSend = slot[i].msg])
            /\ handler' = [handler EXCEPT ![i] = [pc |-> "send", msg |-> slot[i].msg]]
       ELSE handler' = [handler EXCEPT ![i] = Off] /\ UNCHANGED slot
    /\ UNCHANGED <<pending, maxNum, freeIdx, enable, cpu, rx, count, newest, sent>>

(* intf_tx                                                                 *)
TimeoutSend(i) ==
    /\ handler[i].pc = "send"
    /\ slot' = Moved(handler[i].msg)
    /\ Out(handler[i].msg)
    /\ handler' = [handler EXCEPT ![i] = Off]
    /\ UNCHANGED <<pending, maxNum, freeIdx, enable, cpu, rx, count, newest>>

(* filter_rx_tcp_ack: a pushed segment of the peer, whose acknowledgement  *)
(* should not wait.                                                        *)
RxPush(f, d) ==
    /\ rx.pc = "idle" /\ enable /\ Matches(f) # {}
    /\ rx' = [pc |-> "set", i |-> Least(Matches(f)), seq |-> (newest[f] + d) % SeqMod]
    /\ UNCHANGED <<slot, pending, handler, maxNum, freeIdx, enable, cpu, count, newest,
                   sent>>
RxSet ==
    /\ rx.pc = "set"
    /\ Set(rx.i, [slot[rx.i] EXCEPT !.psh = TRUE, !.pshSeq = rx.seq])
    /\ rx' = Idle
    /\ UNCHANGED <<pending, handler, maxNum, freeIdx, enable, cpu, count, newest, sent>>

(* tcp_ack_deinit, when the interfaces are gone.                           *)
Deinit ==
    /\ enable /\ \A c \in Cpus : cpu[c].pc = "idle"
    /\ enable' = FALSE
    /\ slot' = [i \in Index |-> [slot[i] EXCEPT !.msg = None]]
    /\ pending' = [i \in Index |-> FALSE]
    /\ UNCHANGED <<handler, maxNum, freeIdx, cpu, rx, count, newest, sent>>

Work(c) == \/ Match(c) \/ HandleSend(c) \/ HandleKeep(c) \/ HandleDrop(c)
           \/ Alloc(c) \/ Mark(c) \/ Send(c)
Timer(i) == Expire(i) \/ Timeout(i) \/ TimeoutSend(i)

Next ==
    \/ \E c \in Cpus, f \in Flows, d \in Advance \cup {-l : l \in Lag} : XmitAck(c, f, d)
    \/ \E c \in Cpus : Work(c)
    \/ \E i \in Index : Timer(i)
    \/ \E f \in Flows, d \in Advance : RxPush(f, d)
    \/ RxSet
    \/ Deinit

(* CPUs and timers run.                                                    *)
Spec == Init /\ [][Next]_vars
FairSpec == /\ Spec
            /\ \A c \in Cpus : WF_vars(Work(c))
            /\ \A i \in Index : WF_vars(Timer(i))

-----------------------------------------------------------------------------
(* Messages somewhere between the filter and the transmit path.            *)
Kept == {slot[i].msg : i \in Index} \cup {slot[i].inSend : i \in Index}
        \cup {handler[i].msg : i \in Index}
        \cup {cpu[c].msg : c \in {x \in Cpus : cpu[x].pc # "idle"}}

(* Whatever is dropped, the newest acknowledgement of every connection has *)
(* gone out or is still kept, and nothing older than it counts as newer    *)
(* when the numbers wrap (aicwf_tcp_ack.c, tcp_ack_handle_new).            *)
NewestKept ==
    enable => \A f \in Flows :
        sent[f] >= newest[f] \/ \E m \in Kept : m.f = f /\ m.n = newest[f]

(* The count of slots in use is exact when no CPU is between choosing a    *)
(* slot and marking it; a count that drifts up ends the filter's use, one  *)
(* that drifts down hands out no slot (aicwf_tcp_ack.c,                    *)
(* tcp_ack_alloc_index, tcp_ack_update).                                   *)
CountExact ==
    maxNum = Cardinality({i \in Index : slot[i].busy})
             + Cardinality({c \in Cpus : cpu[c].pc = "mark"})

(* A slot that has been handed out is handed out to one CPU and is not in  *)
(* use by another connection: "lock for tcp ack alloc and free"            *)
(* (aicwf_tcp_ack.h, struct tcp_ack_manage).                               *)
AllocExclusive ==
    \A c, o \in Cpus : cpu[c].pc = "mark" /\ cpu[o].pc = "mark" /\ c # o
                           => cpu[c].i # cpu[o].i

(* An acknowledgement that is kept back does not stay: again and again     *)
(* what went out has caught up with what was given to the filter           *)
(* (aicwf_tcp_ack.c, tcp_ack_timeout).                                     *)
AllOut == ~enable \/ \A f \in Flows : sent[f] >= newest[f]
AckGoesOut == []<>AllOut

-----------------------------------------------------------------------------
(**************************** Why they hold ********************************)
(* With one transmitting CPU, since two of them may take one slot.         *)

Msgs == [f : Flows, n : Nat, k : Nat \ {0}]
SeqNos == 0 .. (SeqMod - 1)
SlotType == [busy : BOOLEAN, flow : Flows \cup {None.f}, seq : SeqNos, drop : Nat,
             psh : BOOLEAN, pshSeq : SeqNos, msg : Msgs \cup {None},
             inSend : Msgs \cup {None}]
Job == {Idle} \cup [pc : {"match", "alloc", "send"}, msg : Msgs]
       \cup [pc : {"handle", "mark", "send"}, msg : Msgs, i : Index]

AckTypeOK ==
    /\ slot \in [Index -> SlotType] /\ pending \in [Index -> BOOLEAN]
    /\ handler \in [Index -> [pc : {"off", "run"}, msg : {None}]
                              \cup [pc : {"send"}, msg : Msgs]]
    /\ freeIdx \in Index \cup {-1} /\ enable \in BOOLEAN
    /\ cpu \in [Cpus -> Job]
    /\ rx \in {Idle} \cup [pc : {"set"}, i : Index, seq : SeqNos]
    /\ count \in [Flows -> Nat]
    /\ newest \in [Flows -> Nat] /\ \A f \in Flows : newest[f] >= First
    /\ sent \in [Flows -> Nat]

(* A free slot keeps nothing, the free index is one, and a slot that was   *)
(* chosen stays free until it is marked.                                   *)
FreeSlots ==
    /\ \A i \in Index : ~slot[i].busy => slot[i].msg = None
    /\ freeIdx # -1 => ~slot[freeIdx].busy
    /\ \A c \in Cpus : cpu[c].pc = "mark" => freeIdx = -1 /\ ~slot[cpu[c].i].busy

(* A connection has at most one slot, which is the one that a CPU with its *)
(* message found; the others found none.                                   *)
OneSlot ==
    /\ \A i, j \in Index :
         slot[i].busy /\ slot[j].busy /\ slot[i].flow = slot[j].flow => i = j
    /\ \A i \in Index : slot[i].busy => slot[i].flow \in Flows
    /\ \A c \in Cpus :
         /\ cpu[c].pc = "handle" => cpu[c].i \in Matches(cpu[c].msg.f)
         /\ cpu[c].pc \in {"alloc", "mark"} => Matches(cpu[c].msg.f) = {}
         /\ cpu[c].pc # "idle" => enable

(* The message of a CPU is the newest of its connection, or late.          *)
Late(m) == \E l \in Lag \cup {0} : m.n = newest[m.f] - l
Newest(m) == m.n = newest[m.f]
JobsLate == \A c \in Cpus : cpu[c].pc # "idle" => Late(cpu[c].msg)

(* The number of a slot is as late; a newest message that has yet to be    *)
(* handled is half the numbers ahead of it at most.                        *)
Ahead(f) == \E c \in Cpus : /\ cpu[c].pc \in {"match", "handle"}
                            /\ cpu[c].msg.f = f /\ Newest(cpu[c].msg)
NumberNear(s) ==
    \E k \in 0 .. newest[s.flow] :
        /\ s.seq = (newest[s.flow] - k) % SeqMod
        /\ k \in Lag \cup {0} \/ (Ahead(s.flow) /\ k <= SeqMod \div 2)
NumbersNear == \A i \in Index : slot[i].busy => NumberNear(slot[i])

(* A message kept back is the one whose number the slot has.               *)
KeptIsSlots ==
    \A i \in Index : slot[i].msg # None =>
        slot[i].msg.f = slot[i].flow /\ slot[i].seq = slot[i].msg.n % SeqMod

(* Somebody has the newest one who will not drop it.                       *)
Has(m, f) == m \in Msgs /\ m.f = f /\ m.n = newest[f]
InHand(f) ==
    \/ sent[f] >= newest[f]
    \/ \E c \in Cpus : cpu[c].pc # "idle" /\ Has(cpu[c].msg, f)
    \/ \E i \in Index : handler[i].pc = "send" /\ Has(handler[i].msg, f)
    \/ \E i \in Index : Has(slot[i].msg, f)

AckInv ==
    /\ AckTypeOK /\ FreeSlots /\ OneSlot /\ JobsLate /\ NumbersNear /\ KeptIsSlots
    /\ enable => \A f \in Flows : InHand(f)
    /\ CountExact
=============================================================================
