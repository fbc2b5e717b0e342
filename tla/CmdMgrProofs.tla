---------------------------- MODULE CmdMgrProofs ----------------------------
(***************************************************************************)
(* Proofs about CmdMgr, for every number of callers, slots and requests:   *)
(* IndInv of CmdMgr is inductive, and the safety properties follow.        *)
(***************************************************************************)
EXTENDS CmdMgr, FiniteSetTheorems, WellFoundedInduction, TLAPS

(* The command array is finite, and so is any set of its slots: adding or  *)
(* removing one entry of the list changes its length by one.               *)
LEMMA SlotSets ==
    ASSUME NEW S \in SUBSET Slots, NEW s \in Slots
    PROVE  /\ IsFiniteSet(S)
           /\ Cardinality(S) \in Nat
           /\ s \notin S => Cardinality(S \cup {s}) = Cardinality(S) + 1
           /\ s \in S => /\ Cardinality(S \ {s}) = Cardinality(S) - 1
                         /\ Cardinality(S) > 0
           /\ Cardinality({}) = 0
<1>1. IsFiniteSet(Slots)
  BY SizesAssumption, FS_Interval, 0 \in Int, PoolSize - 1 \in Int DEF Slots
<1>2. IsFiniteSet(S) /\ Cardinality(S) \in Nat
  BY <1>1, FS_Subset, FS_CardinalityType
<1>3. s \notin S => Cardinality(S \cup {s}) = Cardinality(S) + 1
  BY <1>2, FS_AddElement
<1>4. s \in S => Cardinality(S \ {s}) = Cardinality(S) - 1
  BY <1>2, FS_RemoveElement
<1>5. s \in S => Cardinality(S) > 0
  BY <1>2, FS_EmptySet
<1> QED
  BY <1>2, <1>3, <1>4, <1>5, FS_EmptySet

(* The list has a last entry: its tokens are bounded by next_tkn.          *)
LEMMA LastExists ==
    ASSUME TypeOK, TokensPast, cmds # {}
    PROVE  \E s \in cmds : IsLast(s)
<1> DEFINE Bounds == {n \in Nat : \A t \in cmds : tkn[t] <= n}
<1>1. next_tkn \in Bounds
  BY DEF TypeOK, TokensPast
<1>2. PICK n \in Bounds : \A k \in Bounds : ~(<<k, n>> \in OpToRel(<, Nat))
  <2>1. Bounds \subseteq Nat /\ Bounds # {}
    BY <1>1
  <2> QED
    BY <2>1, NatLessThanWellFounded, WFMin, Zenon
<1>3. \A k \in Bounds : ~(k < n)
  BY <1>2, Zenon DEF OpToRel
<1>4. CASE n = 0
  BY <1>4 DEF TypeOK, IsLast
<1>5. CASE n > 0
  <2>1. n - 1 \notin Bounds
    BY <1>3, <1>5
  <2>2. PICK s \in cmds : ~(tkn[s] <= n - 1)
    BY <2>1, <1>5
  <2>3. tkn[s] = n
    BY <2>2 DEF TypeOK
  <2> QED
    BY <2>3 DEF IsLast
<1> QED
  BY <1>4, <1>5

(* A command is pushed by its caller only when nothing waits to be pushed. *)
LEMMA NotDeferred ==
    ASSUME IndInv, NEW s \in Slots, ~MustDefer(s)
    PROVE  cmds \cap waitPush = {}
<1>1. CASE cmds = {}
  BY <1>1
<1>2. CASE cmds # {}
  <2>1. PICK t \in cmds : IsLast(t)
    BY <1>2, LastExists DEF IndInv
  <2>2. t \notin waitPush
    BY <2>1 DEF MustDefer
  <2>3. \A u \in cmds : tkn[u] <= tkn[t] /\ tkn[u] \in Nat /\ tkn[t] \in Nat
    BY <2>1 DEF IsLast, IndInv, TypeOK
  <2>4. \A u \in cmds : tkn[u] = tkn[t] => u = t
    BY <2>1 DEF IndInv, TokensPast
  <2> QED
    BY <2>1, <2>2, <2>3, <2>4 DEF IndInv, PushOrder
<1> QED
  BY <1>1, <1>2

(* A manager set up by rwnx_cmd_mgr_init satisfies the invariant.          *)
THEOREM InitIndInv == Init => IndInv
<1> SUFFICES ASSUME Init PROVE IndInv
  OBVIOUS
<1>1. Cardinality({}) = 0
  BY FS_EmptySet
<1>2. 0 \in Slots
  BY SizesAssumption DEF Slots
<1>3. (CHOOSE r \in Requests : TRUE) \in Requests
  BY RequestsAssumption
<1>4. TypeOK
  <2>1. req \in [Slots -> Requests]
    BY <1>3, Zenon DEF Init
  <2>2. drained \in BOOLEAN
    BY DEF Init
  <2> QED
    BY <1>2, <2>1, <2>2 DEF Init, TypeOK, CallerPC, WorkerPC
<1> QED
  BY <1>1, <1>4, SizesAssumption
     DEF Init, Held, WorkerHolds, IndInv, OneHolder, FlagsAllocated,
         DeferredUnheld, AwaitedListed, FreedUnlisted, TokensPast,
         QueueCounted, ForcedKind, QueueAccounting, NoReuseOnList,
         BufferLive, PushOrder, ListDelOnce

(* Every step of every thread keeps the invariant.                         *)
THEOREM NextIndInv == IndInv /\ [Next]_vars => IndInv'
<1> SUFFICES ASSUME IndInv, [Next]_vars PROVE IndInv'
  OBVIOUS
<1> USE RequestsAssumption
<1> USE DEF vars, mgrVars, cmdVars, msgVars, envVars, CallerPC, WorkerPC,
            Held, WorkerHolds, Goto,
            IndInv, TypeOK, OneHolder, FlagsAllocated, DeferredUnheld,
            AwaitedListed, FreedUnlisted, TokensPast, QueueCounted,
            ForcedKind, QueueAccounting, NoReuseOnList, BufferLive,
            PushOrder, ListDelOnce
<1>1. ASSUME NEW c \in Callers, NEW r \in Requests, SendMsg(c, r), fault = "none"
      PROVE  IndInv'
  BY <1>1 DEF SendMsg
<1>2. ASSUME NEW c \in Callers, QueueRefused(c), fault = "none"
      PROVE  IndInv'
  BY <1>2 DEF QueueRefused
<1>3. ASSUME NEW c \in Callers, CmdMgrQueue(c), fault = "none"
      PROVE  IndInv'
  <2>1. /\ Cardinality(cmds) \in Nat
        /\ slot[c] \notin cmds
        /\ Cardinality(cmds') = Cardinality(cmds) + 1
        /\ cmds = {} => Cardinality(cmds) = 0
    BY <1>3, SlotSets, FS_EmptySet DEF CmdMgrQueue, MayQueue, AfterQueue, Enqueue
  <2>2. ~MustDefer(slot[c]) => cmds \cap waitPush = {}
    BY NotDeferred
  <2>3. TypeOK'
    BY <1>3 DEF CmdMgrQueue, MayQueue, AfterQueue, Enqueue
  <2>4. (OneHolder /\ FlagsAllocated /\ DeferredUnheld)'
    BY <1>3 DEF CmdMgrQueue, MayQueue, AfterQueue, Enqueue
  <2>5. (AwaitedListed /\ FreedUnlisted /\ NoReuseOnList /\ ListDelOnce)'
    BY <1>3 DEF CmdMgrQueue, MayQueue, AfterQueue, Enqueue
  <2>6. (TokensPast /\ PushOrder)'
    BY <1>3, <2>2 DEF CmdMgrQueue, MayQueue, AfterQueue, Enqueue
  <2>7. (QueueCounted /\ QueueAccounting)'
    BY <1>3, <2>1, SizesAssumption DEF CmdMgrQueue, MayQueue, AfterQueue, Enqueue
  <2>8. (ForcedKind /\ BufferLive)'
    BY <1>3 DEF CmdMgrQueue, MayQueue, AfterQueue, Enqueue, MustDefer
  <2> QED
    BY <2>3, <2>4, <2>5, <2>6, <2>7, <2>8
<1>4. ASSUME NEW c \in Callers, CmdMgrQueueForceDefer(c), fault = "none"
      PROVE  IndInv'
  <2>1. /\ Cardinality(cmds) \in Nat
        /\ slot[c] \notin cmds
        /\ Cardinality(cmds') = Cardinality(cmds) + 1
        /\ cmds = {} => Cardinality(cmds) = 0
    BY <1>4, SlotSets, FS_EmptySet DEF CmdMgrQueueForceDefer, Enqueue
  <2>2. TypeOK'
    BY <1>4 DEF CmdMgrQueueForceDefer, Enqueue
  <2>3. (OneHolder /\ FlagsAllocated /\ DeferredUnheld)'
    BY <1>4 DEF CmdMgrQueueForceDefer, Enqueue
  <2>4. (AwaitedListed /\ FreedUnlisted /\ NoReuseOnList /\ ListDelOnce)'
    BY <1>4 DEF CmdMgrQueueForceDefer, Enqueue
  <2>5. (TokensPast /\ PushOrder)'
    BY <1>4 DEF CmdMgrQueueForceDefer, Enqueue
  <2>6. (QueueCounted /\ QueueAccounting)'
    BY <1>4, <2>1, SizesAssumption DEF CmdMgrQueueForceDefer, Enqueue
  <2>7. (ForcedKind /\ BufferLive)'
    BY <1>4 DEF CmdMgrQueueForceDefer, Enqueue
  <2> QED
    BY <2>2, <2>3, <2>4, <2>5, <2>6, <2>7
<1>5. ASSUME NEW c \in Callers, UseAfterDeinit(c), fault = "none"
      PROVE  IndInv'
  BY <1>5 DEF UseAfterDeinit
<1>6. ASSUME NEW c \in Callers, WakeCmdWork(c), fault = "none"
      PROVE  IndInv'
  BY <1>6 DEF WakeCmdWork
<1>7. ASSUME NEW c \in Callers, PushBegin(c), fault = "none"
      PROVE  IndInv'
  BY <1>7 DEF PushBegin, FillCmdBuf
<1>8. ASSUME NEW c \in Callers, PushEnd(c), fault = "none"
      PROVE  IndInv'
  BY <1>8 DEF PushEnd, BusTxMsg
<1>9. ASSUME NEW c \in Callers, DirectEnd(c), fault = "none"
      PROVE  IndInv'
  BY <1>9 DEF DirectEnd, BusTxMsg, CmdFree
<1>10. ASSUME NEW c \in Callers, WaitEnd(c), fault = "none"
      PROVE  IndInv'
  <2>1. cmds \in SUBSET Slots /\ slot[c] \in Slots
    OBVIOUS
  <2>2. slot[c] \in cmds =>
          /\ Cardinality(cmds) \in Nat \ {0}
          /\ Cardinality(cmds \ {slot[c]}) = Cardinality(cmds) - 1
    BY ONLY <2>1, SlotSets
  <2>3. TypeOK'
    BY <1>10, <2>2 DEF WaitEnd, ListDel
  <2>4. (OneHolder /\ FlagsAllocated /\ DeferredUnheld)'
    BY <1>10 DEF WaitEnd, ListDel
  <2>5. (AwaitedListed /\ FreedUnlisted /\ NoReuseOnList /\ ListDelOnce)'
    BY <1>10 DEF WaitEnd, ListDel
  <2>6. (TokensPast /\ PushOrder)'
    BY <1>10 DEF WaitEnd, ListDel
  <2>7. (QueueCounted /\ QueueAccounting)'
    <3>1. CASE slot[c] \in cmds
      <4>1. cmds' = cmds \ {slot[c]} /\ queue_sz' = queue_sz - 1
        BY <1>10, <3>1 DEF WaitEnd, ListDel
      <4>2. UNCHANGED <<state, drained>>
        BY <1>10 DEF WaitEnd, ListDel
      <4> QED
        BY <2>2, <3>1, <4>1, <4>2, SizesAssumption
    <3>2. CASE slot[c] \notin cmds
      BY <1>10, <3>2 DEF WaitEnd, ListDel
    <3> QED
      BY <3>1, <3>2
  <2>8. (ForcedKind /\ BufferLive)'
    BY <1>10 DEF WaitEnd, ListDel
  <2> QED
    BY <2>3, <2>4, <2>5, <2>6, <2>7, <2>8
<1>11. ASSUME NEW c \in Callers, FreeAndWake(c), fault = "none"
      PROVE  IndInv'
  BY <1>11 DEF FreeAndWake, CmdFree
<1>12. ASSUME NEW c \in Callers, WaitTimeout(c), fault = "none"
      PROVE  IndInv'
  BY <1>12 DEF WaitTimeout
<1>13. ASSUME NEW c \in Callers, TimeoutLocked(c), fault = "none"
      PROVE  IndInv'
  BY <1>13 DEF TimeoutLocked, Crash, CmdComplete
<1>14. ASSUME NEW c \in Callers, FreeFailed(c), fault = "none"
      PROVE  IndInv'
  BY <1>14 DEF FreeFailed, CmdFree
<1>15. ASSUME WorkStart, fault = "none"
      PROVE  IndInv'
  BY <1>15 DEF WorkStart
<1>16. ASSUME WorkScan, fault = "none"
      PROVE  IndInv'
  BY <1>16 DEF WorkScan, IsHead
<1>17. ASSUME WorkPushBegin, fault = "none"
      PROVE  IndInv'
  BY <1>17 DEF WorkPushBegin, FillCmdBuf
<1>18. ASSUME WorkPushEnd, fault = "none"
      PROVE  IndInv'
  BY <1>18 DEF WorkPushEnd, BusTxMsg
<1>19. ASSUME WorkWaitEnd, fault = "none"
      PROVE  IndInv'
  <2>1. cmds \in SUBSET Slots /\ cur \in Slots
    OBVIOUS
  <2>2. cur \in cmds =>
          /\ Cardinality(cmds) \in Nat \ {0}
          /\ Cardinality(cmds \ {cur}) = Cardinality(cmds) - 1
    BY ONLY <2>1, SlotSets
  <2>3. TypeOK'
    BY <1>19, <2>2 DEF WorkWaitEnd, ListDel
  <2>4. (OneHolder /\ FlagsAllocated /\ DeferredUnheld)'
    BY <1>19 DEF WorkWaitEnd, ListDel
  <2>5. (AwaitedListed /\ FreedUnlisted /\ NoReuseOnList /\ ListDelOnce)'
    BY <1>19 DEF WorkWaitEnd, ListDel
  <2>6. (TokensPast /\ PushOrder)'
    BY <1>19 DEF WorkWaitEnd, ListDel
  <2>7. (QueueCounted /\ QueueAccounting)'
    <3>1. CASE cur \in cmds
      <4>1. cmds' = cmds \ {cur} /\ queue_sz' = queue_sz - 1
        BY <1>19, <3>1 DEF WorkWaitEnd, ListDel
      <4>2. UNCHANGED <<state, drained>>
        BY <1>19 DEF WorkWaitEnd, ListDel
      <4> QED
        BY <2>2, <3>1, <4>1, <4>2, SizesAssumption
    <3>2. CASE cur \notin cmds
      BY <1>19, <3>2 DEF WorkWaitEnd, ListDel
    <3> QED
      BY <3>1, <3>2
  <2>8. (ForcedKind /\ BufferLive)'
    BY <1>19 DEF WorkWaitEnd, ListDel
  <2> QED
    BY <2>3, <2>4, <2>5, <2>6, <2>7, <2>8
<1>20. ASSUME WorkFree, fault = "none"
      PROVE  IndInv'
  BY <1>20 DEF WorkFree, CmdFree
<1>21. ASSUME WorkWaitTimeout, fault = "none"
      PROVE  IndInv'
  BY <1>21 DEF WorkWaitTimeout
<1>22. ASSUME WorkTimeoutLocked, fault = "none"
      PROVE  IndInv'
  BY <1>22 DEF WorkTimeoutLocked, Crash, CmdComplete
<1>23. ASSUME NEW m \in fw, Msgind(m), fault = "none"
      PROVE  IndInv'
  BY <1>23 DEF Msgind, CmdComplete, Matches
<1>24. ASSUME BusStop, fault = "none"
      PROVE  IndInv'
  BY <1>24 DEF BusStop
<1>25. ASSUME BusStart, fault = "none"
      PROVE  IndInv'
  BY <1>25 DEF BusStart
<1>26. ASSUME Drain, fault = "none"
      PROVE  IndInv'
  <2>1. Cardinality({}) = 0
    BY SlotSets
  <2>2. TypeOK'
    BY <1>26 DEF Drain
  <2>3. (OneHolder /\ FlagsAllocated /\ DeferredUnheld)'
    BY <1>26 DEF Drain
  <2>4. (AwaitedListed /\ FreedUnlisted /\ NoReuseOnList /\ ListDelOnce)'
    BY <1>26 DEF Drain
  <2>5. (TokensPast /\ PushOrder)'
    BY <1>26 DEF Drain
  <2>6. (QueueCounted /\ QueueAccounting)'
    BY <1>26, <2>1, SizesAssumption DEF Drain
  <2>7. (ForcedKind /\ BufferLive)'
    BY <1>26 DEF Drain
  <2> QED
    BY <2>2, <2>3, <2>4, <2>5, <2>6, <2>7
<1>27. ASSUME Deinit, fault = "none"
      PROVE  IndInv'
  <2>1. Cardinality({}) = 0
    BY SlotSets
  <2>2. TypeOK'
    BY <1>27 DEF Deinit
  <2>3. (OneHolder /\ FlagsAllocated /\ DeferredUnheld)'
    BY <1>27 DEF Deinit
  <2>4. (AwaitedListed /\ FreedUnlisted /\ NoReuseOnList /\ ListDelOnce)'
    BY <1>27 DEF Deinit
  <2>5. (TokensPast /\ PushOrder)'
    BY <1>27 DEF Deinit
  <2>6. (QueueCounted /\ QueueAccounting)'
    BY <1>27, <2>1, SizesAssumption DEF Deinit
  <2>7. (ForcedKind /\ BufferLive)'
    BY <1>27 DEF Deinit
  <2> QED
    BY <2>2, <2>3, <2>4, <2>5, <2>6, <2>7
<1>28. CASE UNCHANGED vars
  BY <1>28
<1> QED
  BY <1>1, <1>2, <1>3, <1>4, <1>5, <1>6, <1>7, <1>8, <1>9, <1>10, <1>11,
     <1>12, <1>13, <1>14, <1>15, <1>16, <1>17, <1>18, <1>19, <1>20, <1>21,
     <1>22, <1>23, <1>24, <1>25, <1>26, <1>27, <1>28
     DEF Next, Served, CallerStep, WorkerStep

(* In every state of the command manager each slot has the owner that       *)
(* IndInv says.                                                            *)
THEOREM SpecIndInv == Spec => []IndInv
  BY InitIndInv, NextIndInv, PTL DEF Spec

(* It is pushed only when nothing on the list waits for a confirmation.    *)
LEMMA NothingInFlight ==
    ASSUME IndInv, OneInFlight, Serial, NEW s \in Slots, ~MustDefer(s)
    PROVE  cmds \cap waitCfm = {}
<1>1. CASE cmds = {}
  BY <1>1
<1>2. CASE cmds # {}
  <2>1. PICK t \in cmds : IsLast(t)
    BY <1>2, LastExists DEF IndInv
  <2>2. t \notin waitPush /\ t \notin waitCfm
    BY <2>1 DEF MustDefer
  <2>3. \A u \in cmds : tkn[u] <= tkn[t] /\ tkn[u] \in Nat /\ tkn[t] \in Nat
    BY <2>1 DEF IsLast, IndInv, TypeOK
  <2>4. \A u \in cmds : tkn[u] = tkn[t] => u = t
    BY <2>1 DEF IndInv, TokensPast
  <2> QED
    BY <2>1, <2>2, <2>3, <2>4 DEF OneInFlight
<1> QED
  BY <1>1, <1>2

(* An array larger than the queue and the callers together is never used   *)
(* up when a caller comes: the other callers, the list and the work item   *)
(* account for every slot that is used.                                    *)
LEMMA ArrayNotUsedUp ==
    ASSUME IndInv, UsedAccounted, ~drained,
           NEW c \in Callers, ~Held(c),
           PoolSize > MaxQueued + Cardinality(Callers)
    PROVE  ~(Slots \subseteq used)
<1> DEFINE Others == Callers \ {c}
           f == [d \in Others |-> slot[d]]
           H == {f[d] : d \in Others}
<1>1. /\ IsFiniteSet(Callers) /\ Cardinality(Callers) \in Nat
      /\ IsFiniteSet(Others) /\ Cardinality(Others) = Cardinality(Callers) - 1
  BY SizesAssumption, FS_RemoveElement, FS_CardinalityType
<1>2. IsFiniteSet(H) /\ Cardinality(H) <= Cardinality(Others)
  <2>1. f \in Surjection(Others, H)
    BY Zenon DEF Surjection
  <2> QED
    BY <2>1, <1>1, FS_Surjection
<1>3. IsFiniteSet(cmds) /\ Cardinality(cmds) <= MaxQueued
  BY SlotSets, SizesAssumption DEF IndInv, TypeOK, QueueAccounting, Slots
<1>4. IsFiniteSet({cur}) /\ Cardinality({cur}) = 1
  BY FS_Singleton
<1>5. /\ IsFiniteSet(H \cup cmds)
      /\ Cardinality(H \cup cmds) <= Cardinality(H) + Cardinality(cmds)
  <2>1. IsFiniteSet(H \cap cmds)
    BY <1>3, FS_Subset
  <2>2. Cardinality(H \cap cmds) \in Nat /\ Cardinality(H) \in Nat
        /\ Cardinality(cmds) \in Nat
    BY <2>1, <1>2, <1>3, FS_CardinalityType
  <2> HIDE DEF H
  <2>3. /\ IsFiniteSet(H \cup cmds)
        /\ Cardinality(H \cup cmds)
             = Cardinality(H) + Cardinality(cmds) - Cardinality(H \cap cmds)
    BY <1>2, <1>3, FS_Union
  <2> QED
    BY <2>2, <2>3
<1>6. /\ IsFiniteSet((H \cup cmds) \cup {cur})
      /\ Cardinality((H \cup cmds) \cup {cur}) <= Cardinality(H \cup cmds) + 1
  <2>1. IsFiniteSet((H \cup cmds) \cap {cur})
    BY <1>4, FS_Subset
  <2>2. /\ Cardinality((H \cup cmds) \cap {cur}) \in Nat
        /\ Cardinality(H \cup cmds) \in Nat
    BY <2>1, <1>5, FS_CardinalityType
  <2> HIDE DEF H
  <2>3. /\ IsFiniteSet((H \cup cmds) \cup {cur})
        /\ Cardinality((H \cup cmds) \cup {cur})
             = Cardinality(H \cup cmds) + Cardinality({cur})
               - Cardinality((H \cup cmds) \cap {cur})
    BY <1>4, <1>5, FS_Union
  <2> QED
    BY <2>2, <2>3, <1>4
<1>7. used \subseteq (H \cup cmds) \cup {cur}
  BY DEF UsedAccounted
<1>8. Cardinality(Slots) = PoolSize /\ PoolSize \in Nat
  BY SizesAssumption, FS_Interval DEF Slots
<1>9. Cardinality((H \cup cmds) \cup {cur}) < PoolSize
  <2>1. /\ Cardinality(H) \in Nat /\ Cardinality(cmds) \in Nat
        /\ Cardinality(H \cup cmds) \in Nat
        /\ Cardinality((H \cup cmds) \cup {cur}) \in Nat
    BY <1>2, <1>3, <1>5, <1>6, FS_CardinalityType
  <2> HIDE DEF H
  <2> QED
    BY <2>1, <1>1, <1>2, <1>3, <1>5, <1>6, <1>8, SizesAssumption
<1> HIDE DEF H
<1>10. ASSUME Slots \subseteq used PROVE FALSE
  <2>1. Slots \subseteq (H \cup cmds) \cup {cur}
    BY <1>7, <1>10
  <2>2. Cardinality(Slots) <= Cardinality((H \cup cmds) \cup {cur})
    BY <2>1, <1>6, FS_Subset
  <2>3. Cardinality((H \cup cmds) \cup {cur}) \in Nat
    BY <1>6, FS_CardinalityType
  <2> QED
    BY <2>2, <2>3, <1>8, <1>9
<1> QED
  BY <1>10

(* The second invariant holds of a new manager, ...                        *)
THEOREM InitPushInv == Init => PushInv
  BY DEF Init, PushInv, Serial, Pushes, WorkerPushes, NobodyPushes, OneInFlight,
         UnpushedAwaited, CrashStaysListed, AnswersAwaited, SerialPush,
         UsedAccounted, DrainedDown, PoolSuffices

(* ... and every step of every thread keeps it.                            *)
THEOREM NextPushInv == IndInv /\ PushInv /\ [Next]_vars => PushInv'
<1> SUFFICES ASSUME IndInv, PushInv, [Next]_vars PROVE PushInv'
  OBVIOUS
<1> USE RequestsAssumption
<1> USE DEF vars, mgrVars, cmdVars, msgVars, envVars, CallerPC, WorkerPC,
            Held, WorkerHolds, Goto, Serial, Pushes, WorkerPushes,
            NobodyPushes, PushInv,
            IndInv, TypeOK, OneHolder, FlagsAllocated, DeferredUnheld,
            AwaitedListed, FreedUnlisted, TokensPast, QueueCounted,
            NoReuseOnList, PushOrder,
            OneInFlight, UnpushedAwaited, CrashStaysListed,
            AnswersAwaited, Answers, SerialPush, UsedAccounted, DrainedDown,
            PoolSuffices
<1>1. ASSUME NEW c \in Callers, NEW r \in Requests, SendMsg(c, r), fault = "none"
      PROVE  PushInv'
  <2>1. OneInFlight'
    BY <1>1 DEF SendMsg
  <2>2. UnpushedAwaited'
    BY <1>1 DEF SendMsg
  <2>3. CrashStaysListed'
    BY <1>1 DEF SendMsg
  <2>4. AnswersAwaited'
    BY <1>1 DEF SendMsg
  <2>5. SerialPush'
    BY <1>1 DEF SendMsg
  <2>6. (UsedAccounted /\ DrainedDown /\ PoolSuffices)'
    <3>1. (UsedAccounted /\ DrainedDown)'
      BY <1>1 DEF SendMsg
    <3>2. PoolSuffices'
      <4>1. ~drained /\ ~Held(c)
        BY <1>1 DEF SendMsg
      <4>2. PoolSize > MaxQueued + Cardinality(Callers) => ~(Slots \subseteq used)
        BY <4>1, ArrayNotUsedUp
      <4> QED
        BY <1>1, <4>2 DEF SendMsg
    <3> QED
      BY <3>1, <3>2
  <2> QED
    BY <2>1, <2>2, <2>3, <2>4, <2>5, <2>6
<1>2. ASSUME NEW c \in Callers, QueueRefused(c), fault = "none"
      PROVE  PushInv'
  BY <1>2 DEF QueueRefused
<1>3. ASSUME NEW c \in Callers, CmdMgrQueue(c), fault = "none"
      PROVE  PushInv'
  <2>1. OneInFlight'
    <3>1. Serial /\ ~MustDefer(slot[c]) => cmds \cap waitCfm = {}
      BY NothingInFlight
    <3>2. slot[c] \notin cmds
      BY <1>3 DEF CmdMgrQueue
    <3> QED
      BY <1>3, <3>1, <3>2 DEF CmdMgrQueue, Enqueue
  <2>2. UnpushedAwaited'
    BY <1>3 DEF CmdMgrQueue, Enqueue, MayQueue, AfterQueue, MustDefer, IsLast
  <2>3. CrashStaysListed'
    BY <1>3 DEF CmdMgrQueue, Enqueue, MayQueue, AfterQueue, MustDefer, IsLast
  <2>4. AnswersAwaited'
    BY <1>3 DEF CmdMgrQueue, Enqueue, MayQueue, AfterQueue, MustDefer, IsLast
  <2>5. SerialPush'
    BY <1>3 DEF CmdMgrQueue, Enqueue, MayQueue, AfterQueue, MustDefer, IsLast
  <2>6. (UsedAccounted /\ DrainedDown /\ PoolSuffices)'
    BY <1>3 DEF CmdMgrQueue, Enqueue, MayQueue, AfterQueue, MustDefer, IsLast
  <2> QED
    BY <2>1, <2>2, <2>3, <2>4, <2>5, <2>6
<1>4. ASSUME NEW c \in Callers, CmdMgrQueueForceDefer(c), fault = "none"
      PROVE  PushInv'
  BY <1>4 DEF CmdMgrQueueForceDefer, Enqueue, MayQueue, AfterQueue, MustDefer, IsLast
<1>5. ASSUME NEW c \in Callers, UseAfterDeinit(c), fault = "none"
      PROVE  PushInv'
  BY <1>5 DEF UseAfterDeinit
<1>6. ASSUME NEW c \in Callers, WakeCmdWork(c), fault = "none"
      PROVE  PushInv'
  BY <1>6 DEF WakeCmdWork
<1>7. ASSUME NEW c \in Callers, PushBegin(c), fault = "none"
      PROVE  PushInv'
  BY <1>7, SMTT(30) DEF PushBegin, FillCmdBuf
<1>8. ASSUME NEW c \in Callers, PushEnd(c), fault = "none"
      PROVE  PushInv'
  BY <1>8 DEF PushEnd, BusTxMsg
<1>9. ASSUME NEW c \in Callers, DirectEnd(c), fault = "none"
      PROVE  PushInv'
  BY <1>9 DEF DirectEnd, BusTxMsg, CmdFree
<1>10. ASSUME NEW c \in Callers, WaitEnd(c), fault = "none"
      PROVE  PushInv'
  BY <1>10, SMTT(30) DEF WaitEnd, ListDel
<1>11. ASSUME NEW c \in Callers, FreeAndWake(c), fault = "none"
      PROVE  PushInv'
  BY <1>11 DEF FreeAndWake, CmdFree
<1>12. ASSUME NEW c \in Callers, WaitTimeout(c), fault = "none"
      PROVE  PushInv'
  BY <1>12 DEF WaitTimeout
<1>13. ASSUME NEW c \in Callers, TimeoutLocked(c), fault = "none"
      PROVE  PushInv'
  BY <1>13 DEF TimeoutLocked, Crash, CmdComplete
<1>14. ASSUME NEW c \in Callers, FreeFailed(c), fault = "none"
      PROVE  PushInv'
  BY <1>14 DEF FreeFailed, CmdFree
<1>15. ASSUME WorkStart, fault = "none"
      PROVE  PushInv'
  BY <1>15 DEF WorkStart
<1>16. ASSUME WorkScan, fault = "none"
      PROVE  PushInv'
  BY <1>16 DEF WorkScan, IsHead
<1>17. ASSUME WorkPushBegin, fault = "none"
      PROVE  PushInv'
  BY <1>17 DEF WorkPushBegin, FillCmdBuf
<1>18. ASSUME WorkPushEnd, fault = "none"
      PROVE  PushInv'
  BY <1>18 DEF WorkPushEnd, BusTxMsg
<1>19. ASSUME WorkWaitEnd, fault = "none"
      PROVE  PushInv'
  BY <1>19 DEF WorkWaitEnd, ListDel
<1>20. ASSUME WorkFree, fault = "none"
      PROVE  PushInv'
  BY <1>20 DEF WorkFree, CmdFree
<1>21. ASSUME WorkWaitTimeout, fault = "none"
      PROVE  PushInv'
  BY <1>21 DEF WorkWaitTimeout
<1>22. ASSUME WorkTimeoutLocked, fault = "none"
      PROVE  PushInv'
  BY <1>22 DEF WorkTimeoutLocked, Crash, CmdComplete
<1>23. ASSUME NEW m \in fw, Msgind(m), fault = "none"
      PROVE  PushInv'
  BY <1>23 DEF Msgind, CmdComplete, Matches
<1>24. ASSUME BusStop, fault = "none"
      PROVE  PushInv'
  BY <1>24 DEF BusStop
<1>25. ASSUME BusStart, fault = "none"
      PROVE  PushInv'
  BY <1>25 DEF BusStart
<1>26. ASSUME Drain, fault = "none"
      PROVE  PushInv'
  BY <1>26 DEF Drain
<1>27. ASSUME Deinit, fault = "none"
      PROVE  PushInv'
  BY <1>27 DEF Deinit
<1>28. CASE UNCHANGED vars
  BY <1>28
<1> QED
  BY <1>1, <1>2, <1>3, <1>4, <1>5, <1>6, <1>7, <1>8, <1>9, <1>10, <1>11, <1>12, <1>13, <1>14, <1>15, <1>16, <1>17, <1>18, <1>19, <1>20, <1>21, <1>22, <1>23, <1>24, <1>25, <1>26, <1>27, <1>28
     DEF Next, Served, CallerStep, WorkerStep

(* Type correctness of the command manager.                                *)
THEOREM TypeCorrect == Spec => []TypeOK
<1>1. IndInv => TypeOK
  BY DEF IndInv
<1> QED
  BY <1>1, SpecIndInv, PTL

(* queue_sz counts the list and respects RWNX_CMD_MAX_QUEUED, and no entry *)
(* is taken off it twice, until the manager is torn down.                  *)
THEOREM ListSound == Spec => [](QueueAccounting /\ ListDelOnce)
<1>1. IndInv => QueueAccounting /\ ListDelOnce
  BY DEF IndInv
<1> QED
  BY <1>1, SpecIndInv, PTL

(* A command freed by its timed-out caller while still linked is never     *)
(* linked again.                                                           *)
THEOREM NoReuse == Spec => []NoReuseOnList
<1>1. IndInv => NoReuseOnList
  BY DEF IndInv
<1> QED
  BY <1>1, SpecIndInv, PTL

(* No confirmation is copied to the stack of a caller that has returned.   *)
THEOREM BufferSafe == Spec => []BufferLive
<1>1. IndInv => BufferLive
  BY DEF IndInv
<1> QED
  BY <1>1, SpecIndInv, PTL

(* Commands are pushed in the order in which they were queued.             *)
THEOREM PushedInOrder == Spec => []PushOrder
<1>1. IndInv => PushOrder
  BY DEF IndInv
<1> QED
  BY <1>1, SpecIndInv, PTL

(* The list of commands is sound, for any callers, sizes and requests.     *)
THEOREM SpecCommandsSound == Spec => []CommandsSound
<1>1. IndInv => CommandsSound
  BY DEF IndInv, CommandsSound
<1> QED
  BY <1>1, SpecIndInv, PTL
(* In every state of the command manager the second invariant holds too.   *)
THEOREM SpecSlotsOwned == Spec => []SlotsOwned
<1>1. Init => SlotsOwned
  BY InitIndInv, InitPushInv DEF SlotsOwned
<1>2. SlotsOwned /\ [Next]_vars => SlotsOwned'
  BY NextIndInv, NextPushInv DEF SlotsOwned
<1> QED
  BY <1>1, <1>2, PTL DEF Spec

(* The message that answers a command is matched with it: it is the first  *)
(* on the list that waits for a confirmation.                              *)
LEMMA FirstAwaited ==
    ASSUME IndInv, PushInv, Serial, state = "INITED", NEW m \in fw
    PROVE  \E s \in Matches(ReqId[m.req]) :
             /\ tkn[s] = m.tkn
             /\ \A t \in Matches(ReqId[m.req]) : tkn[s] <= tkn[t]
<1>1. PICK s \in cmds : Answers(m, s)
  BY DEF PushInv, AnswersAwaited
<1>2. s \in Matches(ReqId[m.req]) /\ tkn[s] = m.tkn
  BY <1>1 DEF Answers, Matches
<1>3. \A t \in cmds : t \in waitCfm => ~(tkn[t] < tkn[s])
  BY <1>1 DEF PushInv, OneInFlight, Answers
<1>4. \A t \in Matches(ReqId[m.req]) : tkn[s] <= tkn[t]
  BY <1>3 DEF Matches, IndInv, TypeOK
<1> QED
  BY <1>2, <1>4

(* Whoever pushes finds its own message in bus->cmd_buf, and every         *)
(* confirmation still to come is matched with the command it answers, for  *)
(* any callers, sizes and requests, until a caller gives up its answer.    *)
THEOREM SpecOneCommand == Spec => []OneCommand
<1>1. SlotsOwned => SerialPush
  BY DEF SlotsOwned, PushInv
<1>2. SlotsOwned => ConfirmsOwnCommand
  BY FirstAwaited DEF SlotsOwned, ConfirmsOwnCommand, Serial
<1>3. SlotsOwned => OneCommand
  BY <1>1, <1>2 DEF OneCommand
<1> QED
  BY <1>3, SpecSlotsOwned, PTL

(* rwnx_cmd_malloc never finds the array used up when it has more entries  *)
(* than the queue and the callers together.                                *)
THEOREM SpecPoolSuffices == Spec => []PoolSuffices
<1>1. SlotsOwned => PoolSuffices
  BY DEF SlotsOwned, PushInv
<1> QED
  BY <1>1, SpecSlotsOwned, PTL
=============================================================================
