-------------------------------- MODULE MCTx --------------------------------
(* What the driver sends, for TLC, one part in each behaviour: frames      *)
(* through the USB transmit path, acknowledgements through the filter in   *)
(* front of it, frames through a transmit queue, and commands through the  *)
(* command manager while the bus stays up.                                 *)
EXTENDS UsbTx, Sequences

CONSTANTS
    b1, b2, s1, s2,
    Flows, Cpus, AckSlots, MaxDrop, SeqMod, Advance, Lag, First, MaxAcks

VARIABLES
    which,      \* the part that runs
    slot, pending, handler, maxNum, freeIdx, enable, cpu, rx, count, newest, sent,
    active, stop, sk, credits, push_limit, nb_retry, last_retry, list, need, task,
    todo, cur, empty, flow, ndstop, q_tbusy, ps_active, pkt_ready, sp_cnt, fwps,
    vstop, q_spc, pm, dq, tested, cnt, fw, up,
    state, cmds, next_tkn, queue_sz, work, used, tkn, req, waitPush, waitCfm, done,
    complete, msgs, sends, pc, c_slot, wpc, c_cur, cmd_buf, c_usb, c_fw, loose,
    drained, c_fault

Ack == INSTANCE TcpAck WITH Slots <- AckSlots
ASSUME AckAssumption == Ack!TcpAckAssumption

(* One queue with the credits for its frames.                              *)
Queue == INSTANCE TxQueue WITH
           NTxq <- 1, Uapsd <- TRUE, InitCredits <- 3, S8Half <- 128, FlowStop <- 9,
           FlowRestart <- 9, NeedCfm <- {}, Reasons <- {"CHAN", "VIF_PS"},
           MaxRetry <- 0, Interrupts <- TRUE, SmpCfm <- FALSE, Leaves <- FALSE,
           Busies <- FALSE, tbusy <- q_tbusy, spc <- q_spc

(* Two callers, with a request that is answered into a buffer and one that *)
(* is always deferred.                                                     *)
Cmd == INSTANCE CmdMgr WITH
         Callers <- {"a", "b"}, PoolSize <- 5, MaxQueued <- 2, MaxSend <- 3,
         Requests <- {"buf", "defer"}, ReqId <- [r \in {"buf", "defer"} |-> r],
         NoCfm <- {}, WithBuf <- {"buf"}, AlwaysDeferred <- {"defer"},
         ForceDefer <- {}, Killable <- {}, slot <- c_slot, cur <- c_cur,
         usb <- c_usb, fw <- c_fw, fault <- c_fault

ackVars == <<slot, pending, handler, maxNum, freeIdx, enable, cpu, rx, count, newest,
             sent>>
queueVars == <<active, stop, sk, credits, push_limit, nb_retry, last_retry, list,
               need, task, todo, cur, empty, flow, ndstop, q_tbusy, ps_active,
               pkt_ready, sp_cnt, fwps, vstop, q_spc, pm, dq, tested, cnt, fw, up>>
cmdVars == <<state, cmds, next_tkn, queue_sz, work, used, tkn, req, waitPush,
             waitCfm, done, complete, msgs, sends, pc, c_slot, wpc, c_cur, cmd_buf,
             c_usb, c_fw, loose, drained, c_fault>>
allVars == <<which, vars, ackVars, queueVars, cmdVars>>
Usb(act) == which = "usb" /\ act
Filter(act) == which = "filter" /\ act
InQueue(act) == which = "queue" /\ act
InCmd(act) == which = "cmd" /\ act

MCInit ==
    /\ which \in {"usb", "filter", "queue", "cmd"}
    /\ Init /\ Ack!Init /\ Queue!Init /\ Cmd!Init
    /\ (which # "usb" => tbuf = b1)

MCNext ==
    /\ \/ Usb(Next) /\ UNCHANGED <<ackVars, queueVars, cmdVars>>
       \/ Filter(Ack!Next) /\ UNCHANGED <<vars, queueVars, cmdVars>>
       \/ InQueue(Queue!Next) /\ UNCHANGED <<vars, ackVars, cmdVars>>
       \/ InCmd(Cmd!Next /\ c_usb' = "UP") /\ UNCHANGED <<vars, ackVars, queueVars>>
    /\ UNCHANGED which

MCSpec ==
    /\ MCInit /\ [][MCNext]_allVars
    /\ \A s \in Senders : WF_vars(Usb(fault = "none" /\ SenderStep(s)))
    /\ WF_vars(Usb(fault = "none" /\ ThreadStep))
    /\ \A b \in Bufs : WF_vars(Usb(fault = "none" /\ TxComplete(b)))
    /\ WF_vars(Usb(fault = "none" /\ TxCompleteFlow))
    /\ WF_vars(Usb(fault = "none" /\ PowerStep))
    /\ \A c \in Cpus : WF_ackVars(Filter(Ack!Work(c)))
    /\ \A i \in Ack!Index : WF_ackVars(Filter(Ack!Timer(i)))
    /\ WF_queueVars(InQueue(Queue!Process))
    /\ \A c \in {"a", "b"} : WF_cmdVars(InCmd(c_fault = "none" /\ Cmd!CallerStep(c)))
    /\ WF_cmdVars(InCmd(c_fault = "none" /\ Cmd!WorkerStep))

(* The filter for acknowledgements keeps the newest one of a connection,   *)
(* and counts its slots right.                                             *)
FilterKeeps == which = "filter" => Ack!NewestKept /\ Ack!CountExact

(* What waits to be sent, and what is to become of it (PostedSubmitted of  *)
(* UsbTx, AckGoesOut of TcpAck, Drains of TxQueue and CallsServed of       *)
(* CmdMgr; which never changes).                                           *)
Waits ==
    \/ Usb(post # {}) \/ Filter(~Ack!AllOut) \/ InQueue(Queue!Waiting(1))
    \/ InCmd(Cmd!Unserved)

Gone ==
    /\ Usb(TRUE) => PostDone
    /\ Filter(TRUE) => Ack!AllOut
    /\ InQueue(TRUE) => Queue!Served(1)
    /\ InCmd(TRUE) => ~Cmd!Unserved

(* What is to be sent moves on: posted buffers are submitted while the bus *)
(* is up, an acknowledgement the filter holds back goes out in the end, a  *)
(* queue that may send does not keep its frames; and while the bus stays   *)
(* up every command's caller returns and deferred commands are pushed.     *)
AllMovesOn == Waits ~> Gone
=============================================================================
