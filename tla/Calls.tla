------------------------------- MODULE Calls -------------------------------
(***************************************************************************)
(* The threads of the driver running the calls of CfgOps, DevCmds and      *)
(* DebugFs, over the command list of rwnx_cmds.c.  CmdMgr.tla has the      *)
(* command manager in full, for arbitrary callers; here it is reduced to   *)
(* the rules that make a caller wait, and the callers are the real ones,   *)
(* with the locks they hold and the thread they run on.                    *)
(***************************************************************************)
EXTENDS DevCmds, DebugFs, Naturals, FiniteSets

CONSTANTS
    Programs,   \* thread -> the set of paths of the calls it makes
    MaxCalls    \* bound: calls that begin from outside the driver

Worker == "worker"             \* cmd_mgr_task_process
Queued == {"staloss", "csa", "probe", "cac", "radar", "rc"}   \* run when queued
Thread == DOMAIN Programs
SoftIrq == {"timer", "xmit"}   \* contexts that must not sleep
Spin == {"cb", "tx", "reord", "defrag", "radar"}
Lock == Spin \cup {"wiphy", "rtnl"}
Free == "none"

ASSUME ProgramsAssumption ==
  {Worker, Free} \cap Thread = {} /\ Queued \cup {"rx"} \subseteq Thread
ASSUME BoundAssumption == MaxCalls \in Nat

VARIABLES
    todo,     \* thread -> what is left of its call
    holder,   \* lock -> the thread that holds it
    cmds,     \* cmd_mgr->cmds: [from, by, msg, ph]; `by' waits for it
    pend,     \* work items that are queued
    crashed,  \* cmd_mgr->state is CRASHED
    calls     \* calls that have begun

vars == <<todo, holder, cmds, pend, crashed, calls>>

Phase == {"wait", "sent", "done"}

(***************************************************************************)
(* The list of commands.  "wait": RWNX_CMD_FLAG_WAIT_PUSH; "sent": given   *)
(* to the bus, the sender sleeps through the transfer and then for the     *)
(* confirmation; "done": confirmed, and not yet taken off the list by the  *)
(* thread that waits.                                                      *)
(***************************************************************************)
Busy == {t \in Thread : todo[t] # <<>>}
At(t, op) == todo[t] # <<>> /\ Head(todo[t]).op = op
Arg(t) == Head(todo[t]).arg

Advance(t) == todo' = [todo EXCEPT ![t] = Tail(@)]
Become(t, op) ==
  todo' = [todo EXCEPT ![t] = <<[op |-> op, arg |-> Arg(t)]>> \o Tail(@)]

NeverDeferred(m) == FALSE  \* a plausible bug: the list of exceptions is lost
(* The two commands that are always left to the worker.                    *)
Deferred == {"ME_TRAFFIC_IND", "MM_SET_ARPOFFLOAD"}
AlwaysDeferred(m) == m \in Deferred

LastPending == cmds # <<>> /\ cmds[Len(cmds)].ph # "done"

Append1(t, by, ph) ==
  cmds' = Append(cmds, [from |-> t, by |-> by, msg |-> Arg(t), ph |-> ph])

Without(i) == SubSeq(cmds, 1, i - 1) \o SubSeq(cmds, i + 1, Len(cmds))

TypeOK ==
  /\ todo \in [Thread -> Seq([op : STRING, arg : STRING])]
  /\ holder \in [Lock -> Thread \cup {Free}]
  /\ \A i \in DOMAIN cmds : cmds[i].by \in Thread \cup {Worker} /\ cmds[i].ph \in Phase
  /\ pend \subseteq Queued /\ crashed \in BOOLEAN /\ calls \in 0..MaxCalls

Init ==
  /\ todo = [t \in Thread |-> <<>>]
  /\ holder = [l \in Lock |-> Free]
  /\ cmds = <<>> /\ pend = {} /\ crashed = FALSE /\ calls = 0

(* ------------------------------ a call begins -------------------------- *)

(* User space, the network stack, the firmware or a timer calls.           *)
Begin(t) ==
  /\ t \notin Queued /\ todo[t] = <<>> /\ calls < MaxCalls
  /\ \E p \in Programs[t] \ {<<>>} : todo' = [todo EXCEPT ![t] = p]
  /\ calls' = calls + 1
  /\ UNCHANGED <<holder, cmds, pend, crashed>>

(* A work item that was queued is taken by a kernel worker.                *)
RunWork(w) ==
  /\ w \in pend /\ todo[w] = <<>>
  /\ pend' = pend \ {w}
  /\ \E p \in Programs[w] : todo' = [todo EXCEPT ![w] = p]
  /\ UNCHANGED <<holder, cmds, crashed, calls>>

(* --------------------------------- locks ------------------------------- *)

Acquire(t) ==
  /\ At(t, "lock") /\ holder[Arg(t)] = Free
  /\ holder' = [holder EXCEPT ![Arg(t)] = t]
  /\ Advance(t)
  /\ UNCHANGED <<cmds, pend, crashed, calls>>

Release(t) ==
  /\ At(t, "unlock")
  /\ holder' = [holder EXCEPT ![Arg(t)] = Free]
  /\ Advance(t)
  /\ UNCHANGED <<cmds, pend, crashed, calls>>

(* A critical section with nothing in it that another thread could meet.   *)
Pass(t) ==
  /\ At(t, "touch") /\ holder[Arg(t)] = Free
  /\ Advance(t)
  /\ UNCHANGED <<holder, cmds, pend, crashed, calls>>

(* ------------------------------ work items ----------------------------- *)

QueueWork(t) ==
  /\ At(t, "queue")
  /\ pend' = pend \cup {Arg(t)}
  /\ Advance(t)
  /\ UNCHANGED <<holder, cmds, crashed, calls>>

Idle(w) == w \notin pend /\ todo[w] = <<>>
FlushWork(t) ==
  /\ At(t, "flush") /\ Idle(Arg(t))
  /\ Advance(t)
  /\ UNCHANGED <<holder, cmds, pend, crashed, calls>>

(* cancel_delayed_work: when the work had already begun, the command that  *)
(* follows is left out.                                                    *)
CancelWork(t) ==
  /\ At(t, "cancel")
  /\ IF Arg(t) \in pend
     THEN pend' = pend \ {Arg(t)} /\ Advance(t)
     ELSE todo' = [todo EXCEPT ![t] = Tail(Tail(@))] /\ UNCHANGED pend
  /\ UNCHANGED <<holder, cmds, crashed, calls>>

(* ------------------------------- commands ------------------------------ *)

(* The crashed manager refuses (-EPIPE) and the call goes on.              *)
Refused(t) ==
  /\ crashed /\ (At(t, "ask") \/ At(t, "tell") \/ At(t, "defer"))
  /\ Advance(t)
  /\ UNCHANGED <<holder, cmds, pend, crashed, calls>>

(* cmd_mgr_queue with a buffer polls until the list is empty.              *)
QueueAsk(t) ==
  /\ ~crashed /\ At(t, "ask") /\ cmds = <<>>
  /\ Append1(t, t, "sent") /\ Become(t, "pushing")
  /\ UNCHANGED <<holder, pend, crashed, calls>>

(* Without a buffer the command is pushed at once when nothing is under    *)
(* way, and is deferred otherwise: the caller goes on.                     *)
QueueTell(t) ==
  /\ ~crashed /\ At(t, "tell")
  /\ IF LastPending \/ AlwaysDeferred(Arg(t))
     THEN Append1(t, Worker, "wait") /\ Advance(t)
     ELSE Append1(t, t, "sent") /\ Become(t, "pushing")
  /\ UNCHANGED <<holder, pend, crashed, calls>>

(* cmd_mgr_queue_force_defer.                                              *)
QueueDefer(t) ==
  /\ ~crashed /\ At(t, "defer")
  /\ Append1(t, Worker, "wait") /\ Advance(t)
  /\ UNCHANGED <<holder, pend, crashed, calls>>

(* The worker takes the first command of the list when it waits for its    *)
(* push, and stays with it until it is confirmed.                          *)
WorkerPush ==
  /\ cmds # <<>> /\ cmds[1].ph = "wait"
  /\ cmds' = [cmds EXCEPT ![1].ph = "sent"]
  /\ UNCHANGED <<todo, holder, pend, crashed, calls>>

(* The receive thread hands the confirmation to cmd_mgr_msgind, unless it  *)
(* is inside the handler of an indication.                                 *)
Confirmed(i) ==
  /\ cmds[i].ph = "sent" /\ todo["rx"] = <<>>
  /\ cmds' = [cmds EXCEPT ![i].ph = "done"]
  /\ UNCHANGED <<todo, holder, pend, crashed, calls>>

(* A plausible bug: the worker leaves its command on the list.             *)
TakenUnlessDeferred(i) ==
  /\ cmds[i].ph = "done" /\ cmds[i].by # Worker
  /\ cmds' = Without(i)
  /\ Advance(cmds[i].by)
  /\ UNCHANGED <<holder, pend, crashed, calls>>
(* The thread that waited takes the command off the list.                  *)
Taken(i) ==
  /\ cmds[i].ph = "done"
  /\ cmds' = Without(i)
  /\ IF cmds[i].by = Worker THEN UNCHANGED todo ELSE Advance(cmds[i].by)
  /\ UNCHANGED <<holder, pend, crashed, calls>>

(* A message without confirmation goes to the bus at once; its sender      *)
(* sleeps until the transfer has ended.                                    *)
PostBegin(t) ==
  /\ At(t, "post") /\ Become(t, "posting")
  /\ UNCHANGED <<holder, cmds, pend, crashed, calls>>
PostEnd(t) ==
  /\ At(t, "posting") /\ Advance(t)
  /\ UNCHANGED <<holder, cmds, pend, crashed, calls>>

(***************************************************************************)
(* Who waits for whom.  A wait for a confirmation is a wait for the        *)
(* receive thread while that one is busy.                                  *)
(***************************************************************************)
ForConfirmation(i) ==
  IF cmds[i].ph = "sent" /\ todo["rx"] # <<>> THEN {"rx"} ELSE {}
WorkerWaits ==
  IF cmds # <<>> /\ cmds[1].by = Worker THEN ForConfirmation(1)
  ELSE IF cmds # <<>> THEN {cmds[1].by} ELSE {}
ThreadWaits(t) ==
  CASE At(t, "lock") \/ At(t, "touch") -> {holder[Arg(t)]} \ {Free}
    [] At(t, "flush") -> {Arg(t)} \cap Busy
    [] At(t, "pushing") ->
         UNION {ForConfirmation(i) : i \in {j \in DOMAIN cmds : cmds[j].by = t}}
    [] At(t, "ask") -> {cmds[i].by : i \in DOMAIN cmds}
    [] OTHER -> {}
WaitsFor(t) == IF t = Worker THEN WorkerWaits ELSE ThreadWaits(t)

(* The threads that are part of a wait no member can leave.                *)
InCycle(t) ==
  \E S \in SUBSET (Busy \cup {Worker}) :
     t \in S /\ \A u \in S : WaitsFor(u) \cap S # {}

(* RWNX_80211_CMD_TIMEOUT_MS passes only when the confirmation cannot be   *)
(* delivered: the manager is crashed from then on.                         *)
Timeout(i) ==
  /\ cmds[i].ph = "sent" /\ InCycle(cmds[i].by)
  /\ crashed' = TRUE
  /\ cmds' = Without(i)
  /\ IF cmds[i].by = Worker THEN UNCHANGED todo ELSE Advance(cmds[i].by)
  /\ UNCHANGED <<holder, pend, calls>>

Step(t) ==
  /\ todo[t] # <<>>
  /\ \/ Acquire(t) \/ Release(t) \/ Pass(t)
     \/ QueueWork(t) \/ FlushWork(t) \/ CancelWork(t)
     \/ Refused(t) \/ QueueAsk(t) \/ QueueTell(t) \/ QueueDefer(t)
     \/ PostBegin(t) \/ PostEnd(t)

Command(i) == Confirmed(i) \/ Taken(i) \/ Timeout(i)

Next ==
  \/ \E t \in Thread : Begin(t) \/ RunWork(t) \/ Step(t)
  \/ \E i \in DOMAIN cmds : Command(i)
  \/ WorkerPush

Spec == Init /\ [][Next]_vars

(* While a thread, the worker or a work queue can go on, one of them does: *)
(* the scheduler runs what is runnable, the bus completes every transfer   *)
(* and the firmware answers every command.                                 *)
GoOn ==
  \/ \E t \in Thread : RunWork(t) \/ Step(t)
  \/ \E i \in DOMAIN cmds : Command(i)
  \/ WorkerPush

FairSpec == Spec /\ WF_vars(GoOn)

(***************************************************************************)
(* How the calls are written.  What may be left of a call of thread t, a   *)
(* command that waits included.                                            *)
(***************************************************************************)
Suffixes(P, t) == UNION {{SubSeq(p, k, Len(p)) : k \in 1 .. Len(p) + 1} : p \in P[t]}
Turned(q, op) == <<[op |-> op, arg |-> Head(q).arg]>> \o Tail(q)
Pushes(s) == s.op = "ask" \/ (s.op = "tell" /\ s.arg \notin Deferred)
Rests(P, t) ==
  LET R == Suffixes(P, t) \ {<<>>} IN
  Suffixes(P, t) \cup {Turned(q, "pushing") : q \in {r \in R : Pushes(Head(r))}}
                 \cup {Turned(q, "posting") : q \in {r \in R : Head(r).op = "post"}}

(* The locks the rest q of a call will give back, and how deep in a wait   *)
(* its next step may be: locks are taken, work items waited for and        *)
(* commands sent in the order of these levels, downwards.                  *)
Holds(q) ==
  {l \in Lock : \E k \in DOMAIN q :
      /\ q[k].op = "unlock" /\ q[k].arg = l
      /\ \A j \in 1 .. k - 1 : q[j].op \in {"lock", "unlock"} => q[j].arg # l}
PushLevel == 4
WorkerLevel == 5
LockLevel(l) == CASE l = "rtnl" -> 8 [] l = "wiphy" -> 7 [] l = "cb" -> 2 [] OTHER -> 1
Level(s) == CASE s.op \in {"lock", "touch"} -> LockLevel(s.arg)
              [] s.op = "flush" -> 3
              [] s.op = "pushing" -> PushLevel
              [] s.op = "ask" -> WorkerLevel + 1
              [] OTHER -> 0

(* ------------------------------ properties ----------------------------- *)

(* The two calls that do wait for themselves.  The handler of an external  *)
(* authentication request sends a confirmed command from the receive       *)
(* thread (rwnx_msg_rx.c:1328); leave_mesh sends one with cb_lock held     *)
(* (rwnx_main.c:6622).                                                     *)
KnownWait ==
  \E i \in DOMAIN cmds :
     \/ cmds[i].by = "rx" /\ cmds[i].msg = "SM_EXTERNAL_AUTH_REQUIRED_RSP"
     \/ cmds[i].msg = "APM_STOP_CAC" /\ holder["cb"] = cmds[i].by

(* The step s of thread t, with lock l held, is one of those two.          *)
KnownStep(t, s, l) ==
  /\ s.op = "pushing"
  /\ \/ t = "rx" /\ s.arg = "SM_EXTERNAL_AUTH_REQUIRED_RSP"
     \/ l = "cb" /\ s.arg = "APM_STOP_CAC"

(* No set of threads waits for one another, through locks, work items, the *)
(* command list and the receive thread that delivers confirmations: no     *)
(* command of the driver ever times out because of the driver itself.      *)
NoWaitCycle ==
  ~crashed /\ ~KnownWait => \A t \in Busy \cup {Worker} : ~InCycle(t)

(* A thread that would sleep in its next step, or that sleeps.             *)
Sleeps(t) ==
  \/ At(t, "pushing") \/ At(t, "posting") \/ At(t, "flush")
  \/ At(t, "ask") /\ ~crashed
  \/ At(t, "lock") /\ Arg(t) \notin Spin
Atomic(t) == t \in SoftIrq \/ \E l \in Spin : holder[l] = t
SleepsAtomic(t) == Atomic(t) /\ Sleeps(t)
(* The messages that are sent that way: without confirmation, from         *)
(* ndo_select_queue or under tx_lock, and leave_mesh's.                    *)
KnownSleeps ==
  {"TDLS_PEER_TRAFFIC_IND", "MESH_PROXY_ADD", "MESH_PATH_CREATE", "APM_STOP_CAC"}

(* Nothing sleeps with a spin lock held or in softirq context: the         *)
(* commands that are sent there are the ones the list of exceptions in     *)
(* cmd_mgr_queue, or the defer flag, leaves to the worker.                 *)
AtomicNeverSleeps ==
  \A t \in Busy : SleepsAtomic(t) => Arg(t) \in KnownSleeps

(* Every path takes and gives back its locks in pairs, goes down the       *)
(* levels, and has nothing that sleeps in an atomic part, but for the      *)
(* steps that are known; the receive thread stays below a command, and a   *)
(* work item below the one that waits for it.                              *)
Sleepy(s) == \/ s.op \in {"pushing", "posting", "flush", "ask"}
             \/ s.op = "lock" /\ s.arg \notin Spin
Paired(P, t, q) ==
  LET s == Head(q) IN
  /\ s \in [op : STRING, arg : STRING] /\ Tail(q) \in Rests(P, t)
  /\ Tail(q) # <<>> => Head(Tail(q)).op # "pushing"
  /\ s.op \in {"lock", "touch"} => s.arg \in Lock
  /\ s.op = "lock" => s.arg \notin Holds(q) /\ Holds(Tail(q)) = Holds(q) \cup {s.arg}
  /\ s.op = "unlock" => s.arg \in Holds(q) /\ Holds(Tail(q)) = Holds(q) \ {s.arg}
  /\ s.op \notin {"lock", "unlock"} => Holds(Tail(q)) = Holds(q)
  /\ s.op = "cancel" => Tail(q) # <<>> /\ Head(Tail(q)).op = "tell"
  /\ Pushes(s) => Turned(q, "pushing") \in Rests(P, t) /\ Holds(Turned(q, "pushing")) = Holds(q)
  /\ s.op = "post" => Turned(q, "posting") \in Rests(P, t) /\ Holds(Turned(q, "posting")) = Holds(q)
Downwards(P, t, q) ==
  LET s == Head(q) IN
  /\ \A l \in Holds(q) : Level(s) < LockLevel(l) \/ KnownStep(t, s, l)
  /\ t = "rx" => Level(s) < PushLevel \/ KnownStep(t, s, "none")
  /\ s.op = "flush" => s.arg \in DOMAIN P
                        /\ \A r \in Rests(P, s.arg) \ {<<>>} : Level(Head(r)) < Level(s)
AwakeIn(t, q) ==
  (t \in SoftIrq \/ Holds(q) \cap Spin # {}) /\ Sleepy(Head(q)) => Head(q).arg \in KnownSleeps

WellWritten(P) ==
  \A t \in DOMAIN P :
    /\ \A p \in P[t] \cup {<<>>} :
          p \in Rests(P, t) /\ Holds(p) = {} /\ (p # <<>> => Head(p).op # "pushing")
    /\ \A q \in Rests(P, t) \ {<<>>} : Paired(P, t, q) /\ Downwards(P, t, q) /\ AwakeIn(t, q)
ASSUME CallsWritten == WellWritten(Programs)

(* Neither a wait cycle nor a sleep in atomic context.                     *)
CallsSafe == NoWaitCycle /\ AtomicNeverSleeps

(* Every call returns: no order of calls, handlers and work items leaves   *)
(* one of them, or a command on the list, waiting for ever.                *)
CallsReturn == (Busy # {} \/ cmds # <<>>) ~> (Busy = {} /\ cmds = <<>>)
=============================================================================
