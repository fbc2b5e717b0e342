------------------------------- MODULE CmdMgr -------------------------------
(***************************************************************************)
(* The command manager of the Wi-Fi driver (rwnx_cmds.c) with its callers  *)
(* in rwnx_send_msg/rwnx_send_msg1 (rwnx_msg_tx.c).                        *)
(*                                                                         *)
(* A caller takes a command slot from a static array, queues it under      *)
(* cmd_mgr->lock, and either pushes the message itself and waits for the   *)
(* firmware's confirmation, or leaves the command on the list for the      *)
(* cmd_wq work item to push.  One step of this module is one lock section, *)
(* or one stretch of code between two lock sections.                       *)
(*                                                                         *)
(* The list cmd_mgr->cmds is the set of its slots: the code appends under  *)
(* the lock with cmd->tkn = next_tkn++, so list order is token order.      *)
(* A flag of cmd->flags is the set of the slots that carry it.             *)
(***************************************************************************)
EXTENDS Integers, FiniteSets

CONSTANTS
    Callers,        \* threads that call rwnx_send_msg / rwnx_send_msg1
    PoolSize,       \* RWNX_CMD_ARRAY_SIZE
    MaxQueued,      \* RWNX_CMD_MAX_QUEUED
    MaxSend,        \* bound on the calls of rwnx_send_msg in a behaviour
    Requests,       \* the kinds of request the driver sends
    ReqId,          \* ReqId[r]: the confirmation id (cmd->reqid) of r
    NoCfm,          \* requests sent with reqcfm = 0
    WithBuf,        \* requests whose caller passes a cfm buffer (e2a_msg)
    AlwaysDeferred, \* ME_TRAFFIC_IND_REQ, MM_SET_ARPOFFLOAD_REQ
    ForceDefer,     \* requests sent by rwnx_send_msg1 with defer
    Killable        \* callers in a process that can be sent SIGKILL

Slots == 0 .. PoolSize - 1

ASSUME SizesAssumption ==
    /\ PoolSize \in Nat \ {0}
    /\ MaxQueued \in Nat \ {0}
    /\ MaxSend \in Nat
    /\ IsFiniteSet(Callers)

(* Every call in rwnx_msg_tx.c with one of the deferred ids passes NULL as *)
(* cfm, and so does the only deferred rwnx_send_msg1.                      *)
ASSUME RequestsAssumption ==
    /\ Requests # {}
    /\ NoCfm \subseteq Requests
    /\ WithBuf \subseteq Requests
    /\ AlwaysDeferred \subseteq Requests
    /\ ForceDefer \subseteq Requests
    /\ DOMAIN ReqId = Requests
    /\ WithBuf \cap (AlwaysDeferred \cup ForceDefer \cup NoCfm) = {}
    /\ NoCfm \cap (AlwaysDeferred \cup ForceDefer) = {}
    /\ Killable \subseteq Callers

VARIABLES
    state,      \* cmd_mgr->state
    cmds,       \* cmd_mgr->cmds, the slots on the list
    next_tkn,   \* cmd_mgr->next_tkn
    queue_sz,   \* cmd_mgr->queue_sz
    work,       \* cmdWork is pending on cmd_wq
    used,       \* slots of cmd_array with used = 1
    tkn,        \* cmd->tkn
    req,        \* what cmd->id, cmd->reqid and cmd->e2a_msg say
    waitPush,   \* RWNX_CMD_FLAG_WAIT_PUSH
    waitCfm,    \* RWNX_CMD_FLAG_WAIT_CFM
    done,       \* RWNX_CMD_FLAG_DONE
    complete,   \* slots whose completion has been signalled
    msgs,       \* number of lmac_msg allocated and not yet freed
    sends,      \* number of calls so far, bounded by MaxSend
    pc, slot,   \* where each caller is, and the command it holds
    wpc, cur,   \* where the work item is, and its local "next"
    cmd_buf,    \* the slot whose message is in bus->cmd_buf
    usb,        \* usbdev->state
    fw,         \* messages the firmware holds and has not confirmed
    loose,      \* callers that pushed and did not wait for the answer:
                \* no confirmation asked for, or a wait ended by a signal
    drained,    \* cmd_mgr_drain has run
    fault       \* what would be a kernel fault

mgrVars == <<state, cmds, next_tkn, queue_sz>>
cmdVars == <<used, tkn, req, waitPush, waitCfm, done, complete>>
envVars == <<usb, fw, loose, drained>>
msgVars == <<msgs, sends>>
vars == <<mgrVars, work, cmdVars, msgVars, pc, slot, wpc, cur, cmd_buf,
          envVars, fault>>

CallerPC == {"idle", "queue", "force", "direct", "directing", "push",
             "pushing", "wait", "timedout", "fail", "free", "wake"}
WorkerPC == {"idle", "scan", "push", "pushing", "wait", "timedout", "free"}

Init ==
    /\ state = "INITED"
    /\ cmds = {} /\ next_tkn = 0 /\ queue_sz = 0
    /\ work = "idle"
    /\ used = {}
    /\ tkn = [s \in Slots |-> 0]
    /\ req = [s \in Slots |-> CHOOSE r \in Requests : TRUE]
    /\ waitPush = {} /\ waitCfm = {} /\ done = {} /\ complete = {}
    /\ msgs = 0 /\ sends = 0
    /\ pc = [c \in Callers |-> "idle"]
    /\ slot = [c \in Callers |-> 0]
    /\ wpc = "idle" /\ cur = 0
    /\ cmd_buf = 0
    /\ usb = "UP" /\ fw = {} /\ loose = {} /\ drained = FALSE
    /\ fault = "none"

-----------------------------------------------------------------------------
(* Helpers shared by the caller, the worker and the receive path.          *)

IsHead(s) == s \in cmds /\ \A t \in cmds : tkn[s] <= tkn[t]
IsLast(s) == s \in cmds /\ \A t \in cmds : tkn[t] <= tkn[s]

Goto(c, where) == pc' = [pc EXCEPT ![c] = where]

(* Mutant: queue_sz is not counted down.                                   *)
ListDelUncounted(s) ==
    /\ cmds' = cmds \ {s}
    /\ UNCHANGED <<state, next_tkn, queue_sz, fault>>

(* list_del and queue_sz-- in one lock section; taking an entry off the    *)
(* list a second time dereferences the list poison.                        *)
ListDel(s) ==
    /\ \/ /\ s \in cmds
          /\ cmds' = cmds \ {s}
          /\ queue_sz' = queue_sz - 1
          /\ UNCHANGED fault
       \/ /\ s \notin cmds
          /\ fault' = "list_del"
          /\ UNCHANGED <<cmds, queue_sz>>
    /\ UNCHANGED <<state, next_tkn>>

(* rwnx_cmd_free: used = 0 and flags = 0.                                  *)
CmdFree(s) ==
    /\ used' = used \ {s}
    /\ waitPush' = waitPush \ {s}
    /\ waitCfm' = waitCfm \ {s}
    /\ done' = done \ {s}
    /\ UNCHANGED <<tkn, req, complete>>

(* cmd_complete, for the commands the driver creates (never NONBLOCK).     *)
CmdComplete(s, stillWaits) ==
    /\ done' = done \cup {s}
    /\ complete' = IF s \in stillWaits THEN complete ELSE complete \cup {s}

(* aicwf_set_cmd_tx copies the message into bus->cmd_buf ...               *)
FillCmdBuf(s) == cmd_buf' = s

(* ... and aicwf_usb_bus_txmsg hands the buffer to the firmware, unless    *)
(* the bus is not up, the submission fails or it times out: the result is  *)
(* ignored by aicwf_set_cmd_tx and its callers.                            *)
BusTxMsg ==
    \/ /\ usb = "UP"
       /\ fw' = IF req[cmd_buf] \in NoCfm THEN fw
                ELSE fw \cup {[tkn |-> tkn[cmd_buf], req |-> req[cmd_buf]]}
    \/ UNCHANGED fw

-----------------------------------------------------------------------------
(* The caller: rwnx_send_msg and rwnx_send_msg1.                           *)

(* With the bus down the message is freed and the call returns 0, which    *)
(* changes nothing.  Otherwise the first free slot is taken; a full array  *)
(* gives a NULL command, which is written to without a check.              *)
SendMsg(c, r) ==
    /\ pc[c] = "idle"
    /\ usb # "DOWN"
    /\ sends < MaxSend
    /\ sends' = sends + 1
    /\ msgs' = msgs + 1
    /\ \/ /\ Slots \subseteq used
          /\ fault' = "null_cmd"
          /\ UNCHANGED <<pc, slot, used, req>>
       \/ \E s \in Slots \ used :
            /\ \A t \in Slots \ used : s <= t
            /\ used' = used \cup {s}
            /\ req' = [req EXCEPT ![s] = r]
            /\ slot' = [slot EXCEPT ![c] = s]
            /\ Goto(c, IF r \in NoCfm THEN "direct"
                       ELSE IF r \in ForceDefer THEN "force" ELSE "queue")
            /\ UNCHANGED fault
    /\ UNCHANGED <<mgrVars, work, tkn, waitPush, waitCfm, done, complete,
                   wpc, cur, cmd_buf, envVars>>

(* The errors of the first lock section, -EPIPE and -ENOMEM.  A caller     *)
(* with a cfm buffer finds the list empty before it looks at queue_sz.     *)
QueueRefused(c) ==
    /\ pc[c] \in {"queue", "force"}
    /\ \/ state = "CRASHED"
       \/ /\ state = "INITED"
          /\ req[slot[c]] \notin WithBuf
          /\ cmds # {}
          /\ queue_sz = MaxQueued
    /\ Goto(c, "fail")
    /\ UNCHANGED <<mgrVars, work, cmdVars, msgVars, slot, wpc, cur, cmd_buf,
                   envVars, fault>>

(* list_add_tail, with the flags the command starts with.                  *)
Enqueue(s, deferred) ==
    /\ cmds' = cmds \cup {s}
    /\ tkn' = [tkn EXCEPT ![s] = next_tkn]
    /\ next_tkn' = next_tkn + 1
    /\ queue_sz' = queue_sz + 1
    /\ waitPush' = IF deferred THEN waitPush \cup {s} ELSE waitPush
    /\ waitCfm' = waitCfm \cup {s}
    /\ complete' = complete \ {s}
    /\ UNCHANGED <<state, used, req, done>>

(* Mutants: only the two deferred ids are deferred; a last command that    *)
(* waits for its confirmation is not waited for.                           *)
MustDeferById(s) == req[s] \in AlwaysDeferred
MustDeferUnpushed(s) ==
    req[s] \in AlwaysDeferred \/ \E t \in cmds : IsLast(t) /\ t \in waitPush

(* cmd_mgr_queue defers behind a last command that still waits.            *)
MustDefer(s) ==
    \/ req[s] \in AlwaysDeferred
    \/ \E t \in cmds : IsLast(t) /\ t \in waitPush \cup waitCfm

(* Mutant: a caller with a cfm buffer does not wait for an empty list.     *)
MayQueueBehind(s) == cmds # {} => queue_sz # MaxQueued

(* A caller with a cfm buffer polls until the list is empty.               *)
MayQueue(s) == cmds # {} => req[s] \notin WithBuf /\ queue_sz # MaxQueued

(* Mutant: the caller of a deferred command waits for it as well.          *)
AfterQueueWaits(s) == IF MustDefer(s) THEN "wait" ELSE "push"

(* A deferred command leaves its caller; only a first one wakes the worker. *)
AfterQueue(s) ==
    IF ~MustDefer(s) THEN "push"
    ELSE IF queue_sz + 1 <= 1 THEN "wake" ELSE "idle"

(* The lock section of cmd_mgr_queue when it accepts.                      *)
CmdMgrQueue(c) ==
    /\ pc[c] = "queue"
    /\ state = "INITED"
    /\ MayQueue(slot[c])
    /\ Enqueue(slot[c], MustDefer(slot[c]))
    /\ Goto(c, AfterQueue(slot[c]))
    /\ UNCHANGED <<work, msgVars, slot, wpc, cur, cmd_buf, envVars, fault>>

(* cmd_mgr_queue_force_defer: always deferred, always wakes the worker.    *)
CmdMgrQueueForceDefer(c) ==
    /\ pc[c] = "force"
    /\ state = "INITED"
    /\ cmds # {} => queue_sz # MaxQueued
    /\ Enqueue(slot[c], TRUE)
    /\ Goto(c, "wake")
    /\ UNCHANGED <<work, msgVars, slot, wpc, cur, cmd_buf, envVars, fault>>

(* A caller that is still in the manager when it has been cleared and      *)
(* freed takes a lock, or calls through a pointer, that is gone.           *)
UseAfterDeinit(c) ==
    /\ pc[c] \in {"queue", "force", "wake", "wait", "timedout"}
    /\ state = "DEINIT"
    /\ fault' = "use_after_deinit"
    /\ UNCHANGED <<mgrVars, work, cmdVars, msgVars, pc, slot, wpc, cur,
                   cmd_buf, envVars>>

(* WAKE_CMD_WORK after the lock of a deferred command is released.         *)
WakeCmdWork(c) ==
    /\ pc[c] = "wake"
    /\ state # "DEINIT"
    /\ work' = "pending"
    /\ Goto(c, "idle")
    /\ UNCHANGED <<mgrVars, cmdVars, msgVars, slot, wpc, cur, cmd_buf, envVars,
                   fault>>

(* The message is copied and pushed outside the lock, unless the bus is    *)
(* down: then aicwf_set_cmd_tx returns at once.                            *)
PushBegin(c) ==
    /\ pc[c] \in {"push", "direct"}
    /\ usb = "UP"
    /\ FillCmdBuf(slot[c])
    /\ Goto(c, IF pc[c] = "push" THEN "pushing" ELSE "directing")
    /\ loose' = IF pc[c] = "push" THEN loose ELSE loose \cup {c}
    /\ UNCHANGED <<mgrVars, work, cmdVars, msgVars, slot, wpc, cur, usb, fw,
                   drained, fault>>

PushEnd(c) ==
    /\ \/ pc[c] = "pushing" /\ BusTxMsg
       \/ pc[c] = "push" /\ usb = "DOWN" /\ UNCHANGED fw
    /\ msgs' = msgs - 1
    /\ Goto(c, "wait")
    /\ UNCHANGED <<mgrVars, work, cmdVars, sends, slot, wpc, cur, cmd_buf, usb,
                   loose, drained, fault>>

(* reqcfm = 0: pushed without the lock or the list, then only the command  *)
(* is freed.                                                               *)
DirectEnd(c) ==
    /\ \/ pc[c] = "directing" /\ BusTxMsg
       \/ pc[c] = "direct" /\ usb = "DOWN" /\ UNCHANGED fw
    /\ CmdFree(slot[c])
    /\ Goto(c, "idle")
    /\ UNCHANGED <<mgrVars, work, msgVars, slot, wpc, cur, cmd_buf, usb, loose,
                   drained, fault>>

(* wait_for_completion_killable_timeout returned non-zero: completed, or   *)
(* interrupted by a fatal signal, which the code does not tell apart.      *)
WaitEnd(c) ==
    /\ pc[c] = "wait"
    /\ state # "DEINIT"
    /\ \/ slot[c] \in complete /\ UNCHANGED loose
       \/ c \in Killable /\ loose' = loose \cup {c}
    /\ ListDel(slot[c])
    /\ Goto(c, "free")
    /\ UNCHANGED <<work, cmdVars, msgVars, slot, wpc, cur, cmd_buf, usb, fw,
                   drained>>

(* Mutant: the caller counts itself among the commands left.               *)
MoreToPushOffByOne == queue_sz > 1 /\ usb = "UP"

(* What the caller reads, without the lock, to wake the worker.            *)
MoreToPush == cmds # {} /\ usb = "UP"

FreeAndWake(c) ==
    /\ pc[c] = "free"
    /\ CmdFree(slot[c])
    /\ work' = IF MoreToPush THEN "pending" ELSE work
    /\ Goto(c, "idle")
    /\ UNCHANGED <<mgrVars, msgVars, slot, wpc, cur, cmd_buf, envVars, fault>>

(* Mutant: the wait has no timeout (the CONFIG_RWNX_FHOST variant).        *)
WaitForever(c) == pc[c] = "wait" /\ slot[c] \notin complete /\ UNCHANGED vars

(* It returned 0; the lock is taken only afterwards.                       *)
WaitTimeout(c) ==
    /\ pc[c] = "wait"
    /\ slot[c] \notin complete
    /\ Goto(c, "timedout")
    /\ UNCHANGED <<mgrVars, work, cmdVars, msgVars, slot, wpc, cur, cmd_buf,
                   envVars, fault>>

(* Mutant: a timeout does not stop the manager.                            *)
CrashContinues(s) ==
    /\ IF s \in done THEN UNCHANGED <<done, complete>>
                     ELSE CmdComplete(s, waitCfm)
    /\ UNCHANGED <<mgrVars, used, tkn, req, waitPush, waitCfm>>

(* The lock section of a timeout.  The command stays on the list.          *)
Crash(s) ==
    /\ state' = "CRASHED"
    /\ IF s \in done THEN UNCHANGED <<done, complete>>
                     ELSE CmdComplete(s, waitCfm)
    /\ UNCHANGED <<cmds, next_tkn, queue_sz, used, tkn, req, waitPush,
                   waitCfm>>

TimeoutLocked(c) ==
    /\ pc[c] = "timedout"
    /\ state # "DEINIT"
    /\ Crash(slot[c])
    /\ Goto(c, "fail")
    /\ UNCHANGED <<work, msgVars, slot, wpc, cur, cmd_buf, envVars, fault>>

(* Mutant: the command of a call that failed is not freed.                 *)
FreeFailedLeaks(c) ==
    /\ pc[c] = "fail"
    /\ Goto(c, "idle")
    /\ UNCHANGED <<mgrVars, work, cmdVars, msgVars, slot, wpc, cur, cmd_buf,
                   envVars, fault>>

(* rwnx_send_msg frees the command of a call that failed.                  *)
FreeFailed(c) ==
    /\ pc[c] = "fail"
    /\ CmdFree(slot[c])
    /\ Goto(c, "idle")
    /\ UNCHANGED <<mgrVars, work, msgVars, slot, wpc, cur, cmd_buf, envVars,
                   fault>>

-----------------------------------------------------------------------------
(* The work item: cmd_mgr_task_process.                                    *)

WorkStart ==
    /\ wpc = "idle"
    /\ work = "pending"
    /\ work' = "idle"
    /\ wpc' = "scan"
    /\ UNCHANGED <<mgrVars, cmdVars, msgVars, pc, slot, cur, cmd_buf, envVars,
                   fault>>

(* Only the first command is judged.                                       *)
WorkScan ==
    /\ wpc = "scan"
    /\ \/ \E s \in cmds :
            /\ IsHead(s) /\ s \in waitPush
            /\ cur' = s
            /\ wpc' = "push"
       \/ /\ \A s \in cmds : IsHead(s) => s \notin waitPush
          /\ wpc' = "idle"
          /\ UNCHANGED cur
    /\ UNCHANGED <<mgrVars, work, cmdVars, msgVars, pc, slot, cmd_buf, envVars,
                   fault>>

WorkPushBegin ==
    /\ wpc = "push"
    /\ usb = "UP"
    /\ waitPush' = waitPush \ {cur}
    /\ FillCmdBuf(cur)
    /\ wpc' = "pushing"
    /\ UNCHANGED <<mgrVars, work, used, tkn, req, waitCfm, done, complete,
                   msgVars, pc, slot, cur, envVars, fault>>

WorkPushEnd ==
    /\ \/ wpc = "pushing" /\ BusTxMsg /\ UNCHANGED waitPush
       \/ /\ wpc = "push" /\ usb = "DOWN"
          /\ waitPush' = waitPush \ {cur}
          /\ UNCHANGED fw
    /\ msgs' = msgs - 1
    /\ wpc' = "wait"
    /\ UNCHANGED <<mgrVars, work, used, tkn, req, waitCfm, done, complete,
                   sends, pc, slot, cur, cmd_buf, usb, loose, drained, fault>>

WorkWaitEnd ==
    /\ wpc = "wait"
    /\ cur \in complete
    /\ ListDel(cur)
    /\ wpc' = "free"
    /\ UNCHANGED <<work, cmdVars, msgVars, pc, slot, cur, cmd_buf, envVars>>

WorkFree ==
    /\ wpc = "free"
    /\ CmdFree(cur)
    /\ wpc' = "scan"
    /\ UNCHANGED <<mgrVars, work, msgVars, pc, slot, cur, cmd_buf, envVars,
                   fault>>

WorkWaitTimeout ==
    /\ wpc = "wait"
    /\ cur \notin complete
    /\ wpc' = "timedout"
    /\ UNCHANGED <<mgrVars, work, cmdVars, msgVars, pc, slot, cur, cmd_buf,
                   envVars, fault>>

WorkTimeoutLocked ==
    /\ wpc = "timedout"
    /\ Crash(cur)
    /\ wpc' = "scan"
    /\ UNCHANGED <<work, msgVars, pc, slot, cur, cmd_buf, envVars, fault>>

-----------------------------------------------------------------------------
(* The receive path: cmd_mgr_msgind for the confirmation of message m.     *)

(* Mutant: a command that was already confirmed matches again.             *)
MatchesConfirmed(id) == {s \in cmds : ReqId[req[s]] = id}

(* Commands that the confirmation id matches.                              *)
Matches(id) == {s \in cmds : s \in waitCfm /\ ReqId[req[s]] = id}

Msgind(m) ==
    /\ m \in fw
    /\ usb = "UP"
    /\ fw' = fw \ {m}
    /\ \/ \E s \in Matches(ReqId[m.req]) :
            /\ \A t \in Matches(ReqId[m.req]) : tkn[s] <= tkn[t]
            /\ waitCfm' = waitCfm \ {s}
            /\ CmdComplete(s, waitCfm \ {s})
       \/ /\ Matches(ReqId[m.req]) = {}
          /\ UNCHANGED <<waitCfm, done, complete>>
    /\ UNCHANGED <<mgrVars, work, used, tkn, req, waitPush, msgVars, pc, slot,
                   wpc, cur, cmd_buf, usb, loose, drained, fault>>

-----------------------------------------------------------------------------
(* The bus: stopped by a suspend or a disconnect, started by a resume.     *)
(* While it is down no confirmation is received.                           *)
BusStop ==
    /\ usb = "UP"
    /\ usb' = "DOWN"
    /\ UNCHANGED <<mgrVars, work, cmdVars, msgVars, pc, slot, wpc, cur, cmd_buf,
                   fw, loose, drained, fault>>

BusStart ==
    /\ usb = "DOWN"
    /\ ~drained
    /\ usb' = "UP"
    /\ UNCHANGED <<mgrVars, work, cmdVars, msgVars, pc, slot, wpc, cur, cmd_buf,
                   fw, loose, drained, fault>>

(* cmd_mgr_drain: every entry is taken off and completed; queue_sz stays.  *)
Drain ==
    /\ usb = "DOWN"
    /\ ~drained
    /\ drained' = TRUE
    /\ cmds' = {}
    /\ complete' = complete \cup cmds
    /\ UNCHANGED <<state, next_tkn, queue_sz, work, used, tkn, req, waitPush,
                   waitCfm, done, msgVars, pc, slot, wpc, cur, cmd_buf, usb, fw,
                   loose, fault>>

(* flush_workqueue waits for the work item; then the manager is cleared.   *)
Deinit ==
    /\ drained
    /\ state # "DEINIT"
    /\ wpc = "idle" /\ work = "idle"
    /\ state' = "DEINIT"
    /\ queue_sz' = 0 /\ next_tkn' = 0 /\ cmds' = {}
    /\ UNCHANGED <<work, cmdVars, msgVars, pc, slot, wpc, cur, cmd_buf, envVars,
                   fault>>

-----------------------------------------------------------------------------
CallerStep(c) ==
    \/ QueueRefused(c) \/ CmdMgrQueue(c) \/ CmdMgrQueueForceDefer(c)
    \/ UseAfterDeinit(c) \/ WakeCmdWork(c) \/ PushBegin(c) \/ PushEnd(c)
    \/ DirectEnd(c) \/ WaitEnd(c) \/ FreeAndWake(c) \/ WaitTimeout(c)
    \/ TimeoutLocked(c) \/ FreeFailed(c)

WorkerStep ==
    \/ WorkStart \/ WorkScan \/ WorkPushBegin \/ WorkPushEnd \/ WorkWaitEnd
    \/ WorkFree \/ WorkWaitTimeout \/ WorkTimeoutLocked

(* What happens once the calls have begun.                                 *)
Served ==
    \/ \E c \in Callers : CallerStep(c)
    \/ WorkerStep
    \/ \E m \in fw : Msgind(m)
    \/ BusStop \/ BusStart \/ Drain \/ Deinit

(* Nothing is said of what follows a kernel fault.                         *)
Next ==
    /\ fault = "none"
    /\ (\E c \in Callers, r \in Requests : SendMsg(c, r)) \/ Served

Spec == Init /\ [][Next]_vars

(* The threads of the driver and its work item run; a wait ends at the     *)
(* latest with its timeout.  Nothing is assumed of the firmware, the bus,  *)
(* the signals or the arrival of new calls.                                *)
Fairness ==
    /\ \A c \in Callers : WF_vars(fault = "none" /\ CallerStep(c))
    /\ WF_vars(fault = "none" /\ WorkerStep)

FairSpec == Spec /\ Fairness

-----------------------------------------------------------------------------
TypeOK ==
    /\ state \in {"INITED", "CRASHED", "DEINIT"}
    /\ cmds \subseteq Slots
    /\ next_tkn \in Nat
    /\ queue_sz \in Nat
    /\ work \in {"idle", "pending"}
    /\ used \subseteq Slots
    /\ tkn \in [Slots -> Nat]
    /\ req \in [Slots -> Requests]
    /\ waitPush \subseteq Slots /\ waitCfm \subseteq Slots
    /\ done \subseteq Slots /\ complete \subseteq Slots
    /\ msgs \in Int /\ sends \in Nat
    /\ pc \in [Callers -> CallerPC]
    /\ slot \in [Callers -> Slots]
    /\ wpc \in WorkerPC /\ cur \in Slots
    /\ cmd_buf \in Slots
    /\ usb \in {"UP", "DOWN"}
    /\ fw \subseteq [tkn : Nat, req : Requests]
    /\ loose \subseteq Callers
    /\ drained \in BOOLEAN
    /\ fault \in {"none", "list_del", "null_cmd", "use_after_deinit"}

(* queue_sz is the length of the list and never passes RWNX_CMD_MAX_QUEUED *)
(* (rwnx_cmds.c: every path that takes an entry off counts it down, except *)
(* the drain).                                                             *)
QueueAccounting ==
    ~drained => queue_sz = Cardinality(cmds) /\ queue_sz <= MaxQueued

(* Until the manager is torn down no entry is taken off the list twice:    *)
(* a caller and the work item never both own a command.                    *)
ListDelOnce == ~drained => fault # "list_del"

(* While the manager runs, no free slot is on the list and no command      *)
(* about to be queued is already on it: a timed-out command is freed while *)
(* still linked, which only the CRASHED state keeps harmless.              *)
NoReuseOnList ==
    state = "INITED" =>
        /\ cmds \subseteq used
        /\ \A c \in Callers : pc[c] \in {"queue", "force"} =>
              slot[c] \notin cmds

(* A confirmation is copied to cmd->e2a_msg, which is a local variable of  *)
(* the caller: whenever a listed command with a buffer can still be        *)
(* confirmed, its caller has not returned.                                 *)
BufferLive ==
    \A s \in cmds \cap waitCfm : req[s] \in WithBuf =>
        \E c \in Callers :
            /\ slot[c] = s
            /\ pc[c] \in {"push", "pushing", "wait", "timedout", "fail"}

(* Commands are pushed in the order they were queued: behind a command     *)
(* that waits to be pushed there are only such commands.                   *)
PushOrder ==
    \A s, t \in cmds :
        s \in waitPush /\ tkn[s] < tkn[t] => t \in waitPush

(* The list of commands is sound until the teardown: it is counted, no     *)
(* entry leaves it twice or is reused on it, no confirmation is written to *)
(* a caller that has returned, and commands leave in the order they came.  *)
CommandsSound ==
    QueueAccounting /\ ListDelOnce /\ NoReuseOnList /\ BufferLive /\ PushOrder

(* bus->cmd_buf has no lock.  As long as every request asks for a          *)
(* confirmation and no wait is killed, two pushes never overlap before the *)
(* teardown: whoever is pushing finds its own message in the buffer.       *)
SerialPush ==
    loose = {} /\ ~drained =>
        /\ \A c \in Callers : pc[c] = "pushing" => cmd_buf = slot[c]
        /\ wpc = "pushing" => cmd_buf = cur

(* Confirmations carry only an id.  Under the same conditions, until a     *)
(* command times out, each one still to come will be matched with the      *)
(* command it answers and not with another of the same id.                 *)
ConfirmsOwnCommand ==
    loose = {} /\ state = "INITED" /\ ~drained =>
        \A m \in fw : \E s \in Matches(ReqId[m.req]) :
            /\ tkn[s] = m.tkn
            /\ \A t \in Matches(ReqId[m.req]) : tkn[s] <= tkn[t]

(* The message pushed and the confirmation matched are of one command.     *)
OneCommand == SerialPush /\ ConfirmsOwnCommand

(* rwnx_cmd_malloc never finds the array empty when it is larger than the  *)
(* queue and the callers together.                                         *)
PoolSuffices ==
    PoolSize > MaxQueued + Cardinality(Callers) => fault # "null_cmd"

(* While the bus stays up, every call returns, and a deferred command is   *)
(* pushed unless the manager crashes: no wake-up of the work item is lost. *)
Unserved ==
    \/ \E c \in Callers : pc[c] # "idle"
    \/ cmds \cap waitPush # {} /\ state # "CRASHED"
CallsServed == [](usb = "UP") => (Unserved ~> ~Unserved)

(* The comment on rwnx_msg_zalloc: the memory is freed after the message   *)
(* has been sent, or else explicitly.  When nothing is in progress, no     *)
(* message is allocated.                                                   *)
MsgFreed ==
    (\A c \in Callers : pc[c] = "idle") /\ wpc = "idle" /\ cmds = {}
    /\ ~drained => msgs = 0

(***************************************************************************)
(* The inductive invariant: who owns a command slot.  A slot is held by    *)
(* the caller that took it until the caller frees it or leaves it deferred *)
(* on the list, then by the work item once it has picked it up.            *)
(***************************************************************************)
Held(c) == pc[c] \notin {"idle", "wake"}
WorkerHolds == wpc \notin {"idle", "scan"}

(* No two threads hold one slot, and what they hold is allocated.          *)
OneHolder ==
    /\ \A c, d \in Callers : Held(c) /\ Held(d) /\ slot[c] = slot[d] => c = d
    /\ \A c \in Callers : Held(c) /\ WorkerHolds => slot[c] # cur
    /\ \A c \in Callers : Held(c) => slot[c] \in used
    /\ WorkerHolds => cur \in used

(* rwnx_cmd_free clears the flags, so a free slot carries none.            *)
FlagsAllocated == waitPush \subseteq used /\ waitCfm \subseteq used

(* WAIT_PUSH is only carried by slots that wait for the work item.         *)
DeferredUnheld ==
    /\ \A c \in Callers : Held(c) => slot[c] \notin waitPush
    /\ WorkerHolds /\ wpc # "push" => cur \notin waitPush

(* Before the teardown, what is being pushed or awaited is on the list.    *)
AwaitedListed ==
    ~drained =>
        /\ \A c \in Callers :
             pc[c] \in {"push", "pushing", "wait", "timedout"} =>
                slot[c] \in cmds
        /\ wpc \in {"push", "pushing", "wait", "timedout"} => cur \in cmds

(* What is about to be freed is off the list, unless the manager crashed.  *)
FreedUnlisted ==
    /\ \A c \in Callers : pc[c] = "free" => slot[c] \notin cmds
    /\ wpc = "free" => cur \notin cmds
    /\ state = "INITED" =>
         \A c \in Callers : pc[c] \in {"fail", "direct", "directing"} =>
            slot[c] \notin cmds

(* Tokens of listed commands are past ones and differ, and the work item   *)
(* pushes the first of them.                                               *)
TokensPast ==
    /\ \A s \in cmds : tkn[s] < next_tkn
    /\ \A s, t \in cmds : tkn[s] = tkn[t] => s = t
    /\ wpc = "push" /\ cur \in cmds => \A t \in cmds : tkn[cur] <= tkn[t]

(* The counter never falls behind the list, the teardown included.         *)
QueueCounted ==
    /\ Cardinality(cmds) <= queue_sz
    /\ state = "DEINIT" => drained /\ cmds = {}

ForcedKind ==
    \A c \in Callers : pc[c] = "force" => req[slot[c]] \in ForceDefer

IndInv ==
    /\ TypeOK
    /\ OneHolder
    /\ FlagsAllocated
    /\ DeferredUnheld
    /\ AwaitedListed
    /\ FreedUnlisted
    /\ TokensPast
    /\ QueueCounted
    /\ ForcedKind
    /\ QueueAccounting
    /\ NoReuseOnList
    /\ BufferLive
    /\ PushOrder
    /\ ListDelOnce

-----------------------------------------------------------------------------
(* One push at a time, as long as no caller gives up its answer.           *)
Serial == loose = {} /\ ~drained

Pushes(c) == pc[c] \in {"push", "pushing"}
WorkerPushes == wpc \in {"push", "pushing"}
NobodyPushes == (\A c \in Callers : ~Pushes(c)) /\ ~WorkerPushes

(* Behind a command that waits for its confirmation all are deferred.      *)
OneInFlight ==
    Serial => \A s, t \in cmds :
        s \in waitCfm /\ tkn[s] < tkn[t] => t \in waitPush

(* A command is not confirmed before it has been pushed.                   *)
UnpushedAwaited ==
    /\ \A c \in Callers : pc[c] \in {"queue", "force"} => slot[c] \notin waitCfm
    /\ ~drained => complete \cap waitCfm = {}
    /\ Serial =>
         /\ \A c \in Callers :
              /\ pc[c] # "directing"
              /\ Pushes(c) => slot[c] \in waitCfm
         /\ WorkerPushes => cur \in waitCfm
         /\ state = "INITED" => cmds \cap waitPush \subseteq waitCfm

(* A command whose wait timed out stays on the list, with nobody to take   *)
(* it off, in front of what is deferred.                                   *)
CrashStaysListed ==
    state = "CRASHED" /\ ~drained =>
        \E s \in cmds \ waitPush :
            /\ \A c \in Callers :
                 pc[c] \in {"push", "pushing", "wait", "timedout"} => slot[c] # s
            /\ wpc \in {"push", "pushing", "wait", "timedout"} => cur # s

(* The command that message m of the firmware answers.                     *)
Answers(m, s) ==
    /\ tkn[s] = m.tkn /\ req[s] = m.req
    /\ s \in waitCfm \ waitPush
    /\ \A c \in Callers : Pushes(c) => slot[c] # s
    /\ WorkerPushes => cur # s

(* What the firmware has not confirmed is awaited; only a crash, after     *)
(* which nothing is pushed, leaves an answer without a command.            *)
AnswersAwaited ==
    Serial =>
        \/ state = "CRASHED" /\ NobodyPushes
        \/ /\ \A m \in fw : \E s \in cmds : Answers(m, s)
           /\ \A c \in Callers : pc[c] = "fail" => slot[c] \notin waitCfm

(* Every allocated slot is on the list or in the hands of a thread.        *)
UsedAccounted ==
    ~drained => \A s \in used :
        \/ s \in cmds
        \/ \E c \in Callers : Held(c) /\ slot[c] = s
        \/ wpc = "free" /\ cur = s

(* After the drain no call begins, because the bus stays down.             *)
DrainedDown == drained => usb = "DOWN"

PushInv ==
    /\ OneInFlight
    /\ UnpushedAwaited
    /\ CrashStaysListed
    /\ AnswersAwaited
    /\ SerialPush
    /\ UsedAccounted
    /\ DrainedDown
    /\ PoolSuffices

(* Who owns a command slot, and whose message and answer are under way.    *)
SlotsOwned == IndInv /\ PushInv
=============================================================================
