------------------------------ MODULE TxProofs ------------------------------
(***************************************************************************)
(* Proofs about what the driver sends: the USB transmit path (UsbTx), for  *)
(* any number of buffers and senders and any water marks with Low <= High, *)
(* where TxInv is inductive, and the filter for TCP acknowledgements in    *)
(* front of it (TcpAck), where AckInv is inductive when one CPU transmits. *)
(***************************************************************************)
EXTENDS MCTx, FiniteSetTheorems, TLAPS

(* The free list is finite; taking a buffer shortens it by one.            *)
LEMMA FreeCount ==
    ASSUME NEW S \in SUBSET Bufs
    PROVE  /\ Cardinality(S) \in Nat
           /\ \A b \in S : Cardinality(S \ {b}) = Cardinality(S) - 1
           /\ Cardinality({}) = 0
<1>1. IsFiniteSet(S)
  BY TxAssumption, FS_Subset
<1>2. Cardinality(S) \in Nat
  BY <1>1, FS_CardinalityType
<1>3. \A b \in S : Cardinality(S \ {b}) = Cardinality(S) - 1
  BY <1>1, FS_RemoveElement
<1> QED
  BY <1>2, <1>3, FS_EmptySet

(* All buffers are free when the driver starts.                            *)
THEOREM InitTxInv == Init => TxInv
<1> SUFFICES ASSUME Init PROVE TxInv
  OBVIOUS
<1>1. TypeOK
  BY TxAssumption DEF Init, TypeOK, ThreadPC, SenderPC, PowerPC
<1>2. BufsConserved /\ FramesLive
  BY DEF Init, BufsConserved, FramesLive, SenderHolds, ThreadHolds
<1>3. PowerPhase /\ BusyWillBeSeen /\ StoppedOnlyWhenBusy /\ TriggerPending
  BY DEF Init, PowerPhase, BusyWillBeSeen, StoppedOnlyWhenBusy, TriggerPending
<1> QED
  BY <1>1, <1>2, <1>3 DEF TxInv

(* Every step of the senders, the thread, the completions and the power    *)
(* management keeps the invariant.                                         *)
THEOREM NextTxInv == TxInv /\ [Next]_vars => TxInv'
<1> SUFFICES ASSUME TxInv, [Next]_vars PROVE TxInv'
  OBVIOUS
<1> USE TxAssumption
<1> USE DEF vars, listVars, flowVars, sendVars, threadVars, powerVars, Goto,
            TxInv, TypeOK, SenderPC, ThreadPC, PowerPC, PowerPhase
<1>c. /\ Cardinality(free) \in Nat
      /\ \A b \in free : Cardinality(free \ {b}) = Cardinality(free) - 1
      /\ Cardinality({}) = 0
  BY FreeCount
<1>1. ASSUME NEW s \in Senders, FrameDropped(s) PROVE TxInv'
  <2>1. (TypeOK /\ PowerPhase)'
    BY <1>1 DEF FrameDropped
  <2>2. (BufsConserved /\ FramesLive)'
    BY <1>1 DEF FrameDropped, BufsConserved, FramesLive, SenderHolds,
       ThreadHolds
  <2>3. (BusyWillBeSeen /\ StoppedOnlyWhenBusy)'
    BY <1>1, <1>c DEF FrameDropped, BusyWillBeSeen, StoppedOnlyWhenBusy
  <2>4. TriggerPending'
    BY <1>1 DEF FrameDropped, TriggerPending
  <2> QED
    BY <2>1, <2>2, <2>3, <2>4
<1>2. ASSUME NEW s \in Senders, TxData(s) PROVE TxInv'
  <2>1. (TypeOK /\ PowerPhase)'
    BY <1>2 DEF TxData
  <2>2. (BufsConserved /\ FramesLive)'
    BY <1>2 DEF TxData, BufsConserved, FramesLive, SenderHolds,
       ThreadHolds
  <2>3. (BusyWillBeSeen /\ StoppedOnlyWhenBusy)'
    BY <1>2, <1>c DEF TxData, BusyWillBeSeen, StoppedOnlyWhenBusy
  <2>4. TriggerPending'
    BY <1>2 DEF TxData, TriggerPending
  <2> QED
    BY <2>1, <2>2, <2>3, <2>4
<1>3. ASSUME NEW s \in Senders, NEW k \in {"skb", "kbuf"}, TxPost(s, k) PROVE TxInv'
  <2>1. (TypeOK /\ PowerPhase)'
    BY <1>3 DEF TxPost
  <2>2. (BufsConserved /\ FramesLive)'
    BY <1>3 DEF TxPost, BufsConserved, FramesLive, SenderHolds,
       ThreadHolds
  <2>3. (BusyWillBeSeen /\ StoppedOnlyWhenBusy)'
    BY <1>3, <1>c DEF TxPost, BusyWillBeSeen, StoppedOnlyWhenBusy
  <2>4. TriggerPending'
    BY <1>3 DEF TxPost, TriggerPending
  <2> QED
    BY <2>1, <2>2, <2>3, <2>4
<1>4. ASSUME NEW s \in Senders, TxTrigger(s) PROVE TxInv'
  <2>1. (TypeOK /\ PowerPhase)'
    BY <1>4 DEF TxTrigger
  <2>2. (BufsConserved /\ FramesLive)'
    BY <1>4 DEF TxTrigger, BufsConserved, FramesLive, SenderHolds,
       ThreadHolds
  <2>3. (BusyWillBeSeen /\ StoppedOnlyWhenBusy)'
    BY <1>4, <1>c DEF TxTrigger, BusyWillBeSeen, StoppedOnlyWhenBusy
  <2>4. TriggerPending'
    BY <1>4 DEF TxTrigger, TriggerPending
  <2> QED
    BY <2>1, <2>2, <2>3, <2>4
<1>5. ASSUME NEW s \in Senders, TxFlow(s) PROVE TxInv'
  <2>1. (TypeOK /\ PowerPhase)'
    BY <1>5 DEF TxFlow, BelowLowWater
  <2>2. (BufsConserved /\ FramesLive)'
    BY <1>5 DEF TxFlow, BelowLowWater, BufsConserved, FramesLive, SenderHolds,
       ThreadHolds
  <2>3. (BusyWillBeSeen /\ StoppedOnlyWhenBusy)'
    BY <1>5, <1>c DEF TxFlow, BelowLowWater, BusyWillBeSeen, StoppedOnlyWhenBusy
  <2>4. TriggerPending'
    BY <1>5 DEF TxFlow, BelowLowWater, TriggerPending
  <2> QED
    BY <2>1, <2>2, <2>3, <2>4
<1>6. ASSUME ThreadWake PROVE TxInv'
  <2>1. (TypeOK /\ PowerPhase)'
    BY <1>6 DEF ThreadWake
  <2>2. (BufsConserved /\ FramesLive)'
    BY <1>6 DEF ThreadWake, BufsConserved, FramesLive, SenderHolds,
       ThreadHolds
  <2>3. (BusyWillBeSeen /\ StoppedOnlyWhenBusy)'
    BY <1>6, <1>c DEF ThreadWake, BusyWillBeSeen, StoppedOnlyWhenBusy
  <2>4. TriggerPending'
    BY <1>6 DEF ThreadWake, TriggerPending
  <2> QED
    BY <2>1, <2>2, <2>3, <2>4
<1>7. ASSUME ThreadLoop PROVE TxInv'
  <2>1. (TypeOK /\ PowerPhase)'
    BY <1>7 DEF ThreadLoop
  <2>2. (BufsConserved /\ FramesLive)'
    BY <1>7 DEF ThreadLoop, BufsConserved, FramesLive, SenderHolds,
       ThreadHolds
  <2>3. (BusyWillBeSeen /\ StoppedOnlyWhenBusy)'
    BY <1>7, <1>c DEF ThreadLoop, BusyWillBeSeen, StoppedOnlyWhenBusy
  <2>4. TriggerPending'
    BY <1>7 DEF ThreadLoop, TriggerPending
  <2> QED
    BY <2>1, <2>2, <2>3, <2>4
<1>8. ASSUME ThreadDequeue PROVE TxInv'
  <2>1. (TypeOK /\ PowerPhase)'
    BY <1>8 DEF ThreadDequeue
  <2>2. (BufsConserved /\ FramesLive)'
    BY <1>8 DEF ThreadDequeue, BufsConserved, FramesLive, SenderHolds,
       ThreadHolds
  <2>3. (BusyWillBeSeen /\ StoppedOnlyWhenBusy)'
    BY <1>8, <1>c DEF ThreadDequeue, BusyWillBeSeen, StoppedOnlyWhenBusy
  <2>4. TriggerPending'
    BY <1>8 DEF ThreadDequeue, TriggerPending
  <2> QED
    BY <2>1, <2>2, <2>3, <2>4
<1>9. ASSUME Submitted PROVE TxInv'
  <2>1. (TypeOK /\ PowerPhase)'
    BY <1>9 DEF Submitted
  <2>2. (BufsConserved /\ FramesLive)'
    BY <1>9 DEF Submitted, BufsConserved, FramesLive, SenderHolds,
       ThreadHolds
  <2>3. (BusyWillBeSeen /\ StoppedOnlyWhenBusy)'
    BY <1>9, <1>c DEF Submitted, BusyWillBeSeen, StoppedOnlyWhenBusy
  <2>4. TriggerPending'
    BY <1>9 DEF Submitted, TriggerPending
  <2> QED
    BY <2>1, <2>2, <2>3, <2>4
<1>10. ASSUME SubmitFails PROVE TxInv'
  <2>1. (TypeOK /\ PowerPhase)'
    BY <1>10 DEF SubmitFails, FreeSkb
  <2>2. (BufsConserved /\ FramesLive)'
    BY <1>10 DEF SubmitFails, FreeSkb, BufsConserved, FramesLive, SenderHolds,
       ThreadHolds
  <2>3. (BusyWillBeSeen /\ StoppedOnlyWhenBusy)'
    BY <1>10, <1>c DEF SubmitFails, FreeSkb, BusyWillBeSeen, StoppedOnlyWhenBusy
  <2>4. TriggerPending'
    BY <1>10 DEF SubmitFails, FreeSkb, TriggerPending
  <2> QED
    BY <2>1, <2>2, <2>3, <2>4
<1>11. ASSUME NEW b \in Bufs, TxComplete(b) PROVE TxInv'
  <2>1. (TypeOK /\ PowerPhase)'
    BY <1>11 DEF TxComplete
  <2>2. (BufsConserved /\ FramesLive)'
    BY <1>11 DEF TxComplete, BufsConserved, FramesLive, SenderHolds,
       ThreadHolds
  <2>3. (BusyWillBeSeen /\ StoppedOnlyWhenBusy)'
    BY <1>11, <1>c DEF TxComplete, BusyWillBeSeen, StoppedOnlyWhenBusy
  <2>4. TriggerPending'
    BY <1>11 DEF TxComplete, TriggerPending
  <2> QED
    BY <2>1, <2>2, <2>3, <2>4
<1>12. ASSUME TxCompleteFlow PROVE TxInv'
  <2>1. (TypeOK /\ PowerPhase)'
    BY <1>12 DEF TxCompleteFlow, AboveHighWater
  <2>2. (BufsConserved /\ FramesLive)'
    BY <1>12 DEF TxCompleteFlow, AboveHighWater, BufsConserved, FramesLive, SenderHolds,
       ThreadHolds
  <2>3. (BusyWillBeSeen /\ StoppedOnlyWhenBusy)'
    BY <1>12, <1>c DEF TxCompleteFlow, AboveHighWater, BusyWillBeSeen, StoppedOnlyWhenBusy
  <2>4. TriggerPending'
    BY <1>12 DEF TxCompleteFlow, AboveHighWater, TriggerPending
  <2> QED
    BY <2>1, <2>2, <2>3, <2>4
<1>13. ASSUME SuspendQueues PROVE TxInv'
  <2>1. (TypeOK /\ PowerPhase)'
    BY <1>13 DEF SuspendQueues
  <2>2. (BufsConserved /\ FramesLive)'
    BY <1>13 DEF SuspendQueues, BufsConserved, FramesLive, SenderHolds,
       ThreadHolds
  <2>3. (BusyWillBeSeen /\ StoppedOnlyWhenBusy)'
    BY <1>13, <1>c DEF SuspendQueues, BusyWillBeSeen, StoppedOnlyWhenBusy
  <2>4. TriggerPending'
    BY <1>13 DEF SuspendQueues, TriggerPending
  <2> QED
    BY <2>1, <2>2, <2>3, <2>4
<1>14. ASSUME BusStart PROVE TxInv'
  <2>1. (TypeOK /\ PowerPhase)'
    BY <1>14 DEF BusStart
  <2>2. (BufsConserved /\ FramesLive)'
    BY <1>14 DEF BusStart, BufsConserved, FramesLive, SenderHolds,
       ThreadHolds
  <2>3. (BusyWillBeSeen /\ StoppedOnlyWhenBusy)'
    BY <1>14, <1>c DEF BusStart, BusyWillBeSeen, StoppedOnlyWhenBusy
  <2>4. TriggerPending'
    BY <1>14 DEF BusStart, TriggerPending
  <2> QED
    BY <2>1, <2>2, <2>3, <2>4
<1>15. ASSUME Disconnect PROVE TxInv'
  <2>1. (TypeOK /\ PowerPhase)'
    BY <1>15 DEF Disconnect
  <2>2. (BufsConserved /\ FramesLive)'
    BY <1>15 DEF Disconnect, BufsConserved, FramesLive, SenderHolds,
       ThreadHolds
  <2>3. (BusyWillBeSeen /\ StoppedOnlyWhenBusy)'
    BY <1>15, <1>c DEF Disconnect, BusyWillBeSeen, StoppedOnlyWhenBusy
  <2>4. TriggerPending'
    BY <1>15 DEF Disconnect, TriggerPending
  <2> QED
    BY <2>1, <2>2, <2>3, <2>4
<1>16. ASSUME SuspendSleep PROVE TxInv'
  <2>1. (TypeOK /\ PowerPhase)'
    BY <1>16 DEF SuspendSleep
  <2>2. (BufsConserved /\ FramesLive)'
    BY <1>16 DEF SuspendSleep, BufsConserved, FramesLive, SenderHolds,
       ThreadHolds
  <2>3. (BusyWillBeSeen /\ StoppedOnlyWhenBusy)'
    BY <1>16, <1>c DEF SuspendSleep, BusyWillBeSeen, StoppedOnlyWhenBusy
  <2>4. TriggerPending'
    BY <1>16 DEF SuspendSleep, TriggerPending
  <2> QED
    BY <2>1, <2>2, <2>3, <2>4
<1>17. ASSUME SuspendStop PROVE TxInv'
  <2>1. (TypeOK /\ PowerPhase)'
    BY <1>17 DEF SuspendStop
  <2>2. (BufsConserved /\ FramesLive)'
    BY <1>17 DEF SuspendStop, BufsConserved, FramesLive, SenderHolds,
       ThreadHolds
  <2>3. (BusyWillBeSeen /\ StoppedOnlyWhenBusy)'
    BY <1>17, <1>c DEF SuspendStop, BusyWillBeSeen, StoppedOnlyWhenBusy
  <2>4. TriggerPending'
    BY <1>17 DEF SuspendStop, TriggerPending
  <2> QED
    BY <2>1, <2>2, <2>3, <2>4
<1>18. ASSUME TxPrepareTest PROVE TxInv'
  <2>1. (TypeOK /\ PowerPhase)'
    BY <1>18 DEF TxPrepareTest
  <2>2. (BufsConserved /\ FramesLive)'
    BY <1>18 DEF TxPrepareTest, BufsConserved, FramesLive, SenderHolds,
       ThreadHolds
  <2>3. (BusyWillBeSeen /\ StoppedOnlyWhenBusy)'
    BY <1>18, <1>c DEF TxPrepareTest, BusyWillBeSeen, StoppedOnlyWhenBusy
  <2>4. TriggerPending'
    BY <1>18 DEF TxPrepareTest, TriggerPending
  <2> QED
    BY <2>1, <2>2, <2>3, <2>4
<1>19. ASSUME TxPrepareTake PROVE TxInv'
  <2>1. (TypeOK /\ PowerPhase)'
    BY <1>19 DEF TxPrepareTake, FreeSkb
  <2>2. (BufsConserved /\ FramesLive)'
    BY <1>19 DEF TxPrepareTake, FreeSkb, BufsConserved, FramesLive, SenderHolds,
       ThreadHolds
  <2>3. (BusyWillBeSeen /\ StoppedOnlyWhenBusy)'
    BY <1>19, <1>c DEF TxPrepareTake, FreeSkb, BusyWillBeSeen, StoppedOnlyWhenBusy
  <2>4. TriggerPending'
    BY <1>19 DEF TxPrepareTake, FreeSkb, TriggerPending
  <2> QED
    BY <2>1, <2>2, <2>3, <2>4
<1>20. ASSUME ResumeWake PROVE TxInv'
  <2>1. (TypeOK /\ PowerPhase)'
    BY <1>20 DEF ResumeWake
  <2>2. (BufsConserved /\ FramesLive)'
    BY <1>20 DEF ResumeWake, BufsConserved, FramesLive, SenderHolds,
       ThreadHolds
  <2>3. (BusyWillBeSeen /\ StoppedOnlyWhenBusy)'
    BY <1>20, <1>c DEF ResumeWake, BusyWillBeSeen, StoppedOnlyWhenBusy
  <2>4. TriggerPending'
    BY <1>20 DEF ResumeWake, TriggerPending
  <2> QED
    BY <2>1, <2>2, <2>3, <2>4
<1>21. ASSUME StopThread PROVE TxInv'
  <2>1. (TypeOK /\ PowerPhase)'
    BY <1>21 DEF StopThread
  <2>2. (BufsConserved /\ FramesLive)'
    BY <1>21 DEF StopThread, BufsConserved, FramesLive, SenderHolds,
       ThreadHolds
  <2>3. (BusyWillBeSeen /\ StoppedOnlyWhenBusy)'
    BY <1>21, <1>c DEF StopThread, BusyWillBeSeen, StoppedOnlyWhenBusy
  <2>4. TriggerPending'
    BY <1>21 DEF StopThread, TriggerPending
  <2> QED
    BY <2>1, <2>2, <2>3, <2>4
<1>22. ASSUME UsbDeinit PROVE TxInv'
  <2>1. (TypeOK /\ PowerPhase)'
    BY <1>22 DEF UsbDeinit
  <2>2. (BufsConserved /\ FramesLive)'
    BY <1>22 DEF UsbDeinit, BufsConserved, FramesLive, SenderHolds,
       ThreadHolds
  <2>3. (BusyWillBeSeen /\ StoppedOnlyWhenBusy)'
    BY <1>22, <1>c DEF UsbDeinit, BusyWillBeSeen, StoppedOnlyWhenBusy
  <2>4. TriggerPending'
    BY <1>22 DEF UsbDeinit, TriggerPending
  <2> QED
    BY <2>1, <2>2, <2>3, <2>4
<1>23. CASE UNCHANGED vars
  BY <1>23 DEF BufsConserved, FramesLive, SenderHolds, ThreadHolds,
     BusyWillBeSeen, StoppedOnlyWhenBusy, TriggerPending
<1> QED
  BY <1>1, <1>2, <1>3, <1>4, <1>5, <1>6, <1>7, <1>8, <1>9, <1>10,
     <1>11, <1>12, <1>13, <1>14, <1>15, <1>16, <1>17, <1>18, <1>19, <1>20,
     <1>21, <1>22, <1>23
     DEF Next, SenderStep, ThreadStep, PowerStep

(* TxInv holds in every state of the transmit path.                        *)
THEOREM SpecTxInv == Spec => []TxInv
  BY InitTxInv, NextTxInv, PTL DEF Spec

(* Type correctness of the transmit path.                                  *)
THEOREM TxTypeCorrect == Spec => []TypeOK
<1>1. TxInv => TypeOK
  BY DEF TxInv
<1> QED
  BY <1>1, SpecTxInv, PTL

(* No transmit buffer is lost or in two places, and no frame is leaked or  *)
(* freed twice, by any interleaving of senders, thread and completions.    *)
THEOREM BuffersSound == Spec => [](BufsConserved /\ FramesLive)
<1>1. TxInv => BufsConserved /\ FramesLive
  BY DEF TxInv
<1> QED
  BY <1>1, SpecTxInv, PTL

(* Flow control that is on will be looked at by a completion.              *)
THEOREM FlowControlSound == Spec => [](BusyWillBeSeen /\ StoppedOnlyWhenBusy)
<1>1. TxInv => BusyWillBeSeen /\ StoppedOnlyWhenBusy
  BY DEF TxInv
<1> QED
  BY <1>1, SpecTxInv, PTL

(* The bustx thread never sleeps on a posted buffer while the bus is up.   *)
THEOREM NoLostTrigger == Spec => []TriggerPending
<1>1. TxInv => TriggerPending
  BY DEF TxInv
<1> QED
  BY <1>1, SpecTxInv, PTL

(* The transmit path is sound, for any number of buffers and senders.      *)
THEOREM SpecTxSound == Spec => []TxSound
<1>1. TxInv => TxSound
  BY DEF TxInv, TxSound
<1> QED
  BY <1>1, SpecTxInv, PTL

(* ------------------- the filter for acknowledgements ------------------- *)

(* A remainder is known by its quotient.                                   *)
LEMMA Remainder ==
    ASSUME NEW a \in Int, NEW n \in Nat \ {0}, NEW q \in Int, NEW r \in 0..(n - 1),
           a = n * q + r
    PROVE  a % n = r
<1> DEFINE p == a \div n
           s == a % n
<1>1. a = n * p + s /\ s \in 0..(n - 1) /\ p \in Int
  OBVIOUS
<1> HIDE DEF p, s
<1>2. n * (p - q) = r - s /\ p - q \in Int /\ r - s < n /\ s - r < n
  BY <1>1
<1>3. CASE p - q >= 1
  <2>1. n * (p - q) >= n
    BY <1>2, <1>3
  <2> QED BY <2>1, <1>2
<1>4. CASE p - q <= -1
  <2>1. n * (p - q) <= -n
    BY <1>2, <1>4
  <2> QED BY <2>1, <1>2
<1>5. CASE p - q = 0
  BY <1>5, <1>2, <1>1 DEF s
<1> QED BY <1>2, <1>3, <1>4, <1>5

(* A remainder is a number the code compares.                              *)
LEMMA SeqNo == ASSUME Ack!TcpAckAssumption, NEW n \in Int PROVE n % SeqMod \in Ack!SeqNos
  BY DEF Ack!TcpAckAssumption, Ack!SeqNos

(* A number less than half the numbers behind is older ...                 *)
LEMMA Older ==
    ASSUME Ack!TcpAckAssumption, NEW n \in Nat, NEW j \in Nat \ {0}, j < SeqMod \div 2
    PROVE  ~Ack!U32Before(n % SeqMod, n - j)
<1> DEFINE M == SeqMod
           q == n \div M
           r == n % M
           h == M \div 2
<1>1. M \in Nat \ {0} /\ n = M * q + r /\ r \in 0..(M - 1) /\ q \in Nat
  BY DEF Ack!TcpAckAssumption
<1>2. h \in Nat /\ h <= M /\ (h = M => FALSE) /\ j < h
  BY <1>1
<1> HIDE DEF M, q, r, h
<1>3. r - (n - j) = M * (-q) + j /\ -q \in Int /\ j \in 0..(M - 1) /\ r - (n - j) \in Int
  BY <1>1, <1>2
<1>4. (r - (n - j)) % M = j
  BY <1>1, <1>3, Remainder
<1> QED BY <1>2, <1>4 DEF Ack!U32Before, M, r, h

(* ... and one up to half the numbers ahead is not.                        *)
LEMMA Newer ==
    ASSUME Ack!TcpAckAssumption, NEW n \in Nat, NEW k \in 0..n, k <= SeqMod \div 2
    PROVE  Ack!U32Before((n - k) % SeqMod, n)
<1> DEFINE M == SeqMod
           q == (n - k) \div M
           r == (n - k) % M
           h == M \div 2
<1>1. M \in Nat \ {0} /\ n - k = M * q + r /\ r \in 0..(M - 1) /\ q \in Nat
  BY DEF Ack!TcpAckAssumption
<1>2. h \in Nat /\ M - h >= h /\ k <= h
  BY <1>1
<1> HIDE DEF M, q, r, h
<1>3. CASE k = 0
  <2>1. r - n = M * (-q) + 0 /\ -q \in Int /\ 0 \in 0..(M - 1) /\ r - n \in Int
    BY <1>1, <1>3
  <2>2. (r - n) % M = 0
    BY <1>1, <2>1, Remainder
  <2> QED BY <2>2 DEF Ack!U32Before, M, r
<1>4. CASE k # 0
  <2>1. r - n = M * (-q - 1) + (M - k) /\ -q - 1 \in Int /\ M - k \in 0..(M - 1)
        /\ r - n \in Int
    BY <1>1, <1>2, <1>4
  <2>2. (r - n) % M = M - k
    BY <1>1, <2>1, Remainder
  <2>3. M - k >= h
    BY <1>1, <1>2
  <2> QED BY <2>2, <2>3 DEF Ack!U32Before, M, r, h
<1> QED BY <1>3, <1>4

(* tcp_ack_match and tcp_ack_alloc_index find a slot if there is one.      *)
LEMMA LeastIn ==
    ASSUME NEW S \in SUBSET Ack!Index, S # {}, Ack!TcpAckAssumption
    PROVE  Ack!Least(S) \in S
<1>1. S \subseteq Nat
  BY DEF Ack!Index, Ack!TcpAckAssumption
<1>2. PICK i \in S : \A j \in S : ~(<<j, i>> \in OpToRel(<, Nat))
  BY <1>1, NatLessThanWellFounded, WFMin
<1>3. \A j \in S : i <= j
  <2> SUFFICES ASSUME NEW j \in S PROVE i <= j
    OBVIOUS
  <2>1. j \in Nat /\ i \in Nat /\ <<j, i>> \in Nat \X Nat
    BY <1>1
  <2>2. ~(j < i)
    BY <1>2, <2>1 DEF OpToRel
  <2> QED BY <2>1, <2>2
<1> QED BY <1>3 DEF Ack!Least

(* No message is none.                                                     *)
LEMMA NoneIsNoMsg == Ack!None \notin Ack!Msgs /\ Ack!None.f = "none"
  BY DEF Ack!None, Ack!Msgs

-----------------------------------------------------------------------------
(* The work of a CPU on its message.                                       *)
LEMMA JobIs ==
    ASSUME Ack!AckTypeOK, NEW c \in Cpus
    PROVE  /\ cpu[c].pc \in {"idle", "match", "alloc", "send", "handle", "mark"}
           /\ cpu[c].pc # "idle" => cpu[c].msg \in Ack!Msgs
           /\ cpu[c].pc \in {"handle", "mark"} => cpu[c].i \in Ack!Index
           /\ cpu[c].pc = "match" => cpu[c] = [pc |-> "match", msg |-> cpu[c].msg]
<1>1. cpu[c] \in Ack!Job
  BY DEF Ack!AckTypeOK
<1> QED BY <1>1 DEF Ack!Job, Ack!Idle

(* A step of a CPU gives its next job.                                     *)
LEMMA JobGiven ==
    ASSUME Ack!AckTypeOK, NEW c \in Cpus, NEW r \in Ack!Job, Ack!CpuDo(c, r)
    PROVE  cpu' \in [Cpus -> Ack!Job] /\ cpu'[c] = r
  BY DEF Ack!AckTypeOK, Ack!CpuDo

(* A step writes one slot.                                                 *)
LEMMA SlotGiven ==
    ASSUME Ack!AckTypeOK, NEW i \in Ack!Index, NEW r \in Ack!SlotType, Ack!Set(i, r)
    PROVE  /\ slot' \in [Ack!Index -> Ack!SlotType] /\ slot'[i] = r
           /\ \A j \in Ack!Index : j # i => slot'[j] = slot[j]
  BY DEF Ack!AckTypeOK, Ack!Set

(* What a message's way out does to the slots and to what was sent.        *)
LEMMA MovedKeeps ==
    ASSUME Ack!AckTypeOK, NEW m \in Ack!Msgs, slot' = Ack!Moved(m), Ack!Out(m)
    PROVE  /\ slot' \in [Ack!Index -> Ack!SlotType] /\ sent' \in [Flows -> Nat]
           /\ \A i \in Ack!Index : /\ slot'[i].busy = slot[i].busy /\ slot'[i].flow = slot[i].flow
                                   /\ slot'[i].seq = slot[i].seq /\ slot'[i].msg = slot[i].msg
           /\ sent'[m.f] >= m.n /\ \A f \in Flows : sent'[f] >= sent[f]
<1>1. \A i \in Ack!Index : slot[i] \in Ack!SlotType
  BY DEF Ack!AckTypeOK
<1>2. ASSUME NEW i \in Ack!Index
      PROVE  /\ slot'[i] \in Ack!SlotType
             /\ slot'[i].busy = slot[i].busy /\ slot'[i].flow = slot[i].flow
             /\ slot'[i].seq = slot[i].seq /\ slot'[i].msg = slot[i].msg
  <2> DEFINE t == [slot[i] EXCEPT !.inSend = Ack!None]
  <2>1. t \in Ack!SlotType /\ t.busy = slot[i].busy /\ t.flow = slot[i].flow
        /\ t.seq = slot[i].seq /\ t.msg = slot[i].msg
    BY <1>1 DEF Ack!SlotType
  <2>2. slot'[i] = t \/ slot'[i] = slot[i]
    BY DEF Ack!Moved
  <2> HIDE DEF t
  <2> QED BY <1>1, <2>1, <2>2
<1>3. slot' \in [Ack!Index -> Ack!SlotType]
  BY <1>2 DEF Ack!Moved
<1>4. m.f \in Flows /\ m.n \in Nat /\ sent[m.f] \in Nat
  BY DEF Ack!Msgs, Ack!AckTypeOK
<1>5. sent' = [sent EXCEPT ![m.f] = Ack!MaxOf(sent[m.f], m.n)]
  BY DEF Ack!Out
<1>6. Ack!MaxOf(sent[m.f], m.n) \in Nat /\ Ack!MaxOf(sent[m.f], m.n) >= m.n
      /\ Ack!MaxOf(sent[m.f], m.n) >= sent[m.f]
  BY <1>4 DEF Ack!MaxOf
<1>7. sent' \in [Flows -> Nat] /\ sent'[m.f] >= m.n
      /\ \A f \in Flows : sent'[f] >= sent[f]
  BY <1>4, <1>5, <1>6 DEF Ack!AckTypeOK
<1> QED BY <1>2, <1>3, <1>7

-----------------------------------------------------------------------------
(* The part of the invariant that is about the messages.                   *)
KeepInv ==
    /\ Ack!AckTypeOK /\ Ack!FreeSlots /\ Ack!OneSlot /\ Ack!JobsLate /\ Ack!NumbersNear /\ Ack!KeptIsSlots
    /\ enable => \A f \in Flows : Ack!InHand(f)

(* What a slot says of its message, its number and its connection.         *)
Alike(s, t) == /\ s.busy = t.busy /\ s.flow = t.flow /\ s.seq = t.seq
               /\ s.msg = t.msg

(* Steps that leave CPUs, connections and numbers alone.                   *)
LEMMA AlikeKept ==
    ASSUME KeepInv, Ack!AckTypeOK', UNCHANGED <<newest, cpu, freeIdx, enable>>,
           \A i \in Ack!Index : Alike(slot'[i], slot[i])
    PROVE  Ack!FreeSlots' /\ Ack!OneSlot' /\ Ack!JobsLate' /\ Ack!NumbersNear' /\ Ack!KeptIsSlots'
<1>1. Ack!FreeSlots'
  <2>1. \A c \in Cpus : cpu[c].pc = "mark" => cpu[c].i \in Ack!Index
    BY JobIs DEF KeepInv
  <2> QED BY <2>1 DEF KeepInv, Ack!AckTypeOK, Ack!FreeSlots, Alike
<1>2. Ack!OneSlot'
  <2>1. \A f : Ack!Matches(f)' = Ack!Matches(f)
    BY DEF Ack!Matches, Alike
  <2> QED BY <2>1 DEF KeepInv, Ack!OneSlot, Alike
<1>3. Ack!JobsLate'
  BY DEF KeepInv, Ack!JobsLate, Ack!Late
<1>4. Ack!NumbersNear'
  <2> SUFFICES ASSUME NEW i \in Ack!Index, slot'[i].busy PROVE Ack!NumberNear(slot[i])'
    BY DEF Ack!NumbersNear
  <2>1. slot[i].busy /\ slot'[i].flow = slot[i].flow /\ slot'[i].seq = slot[i].seq
    BY DEF Alike
  <2>2. Ack!NumberNear(slot[i])
    BY <2>1 DEF KeepInv, Ack!NumbersNear
  <2> QED BY <2>1, <2>2 DEF Ack!NumberNear, Ack!Ahead, Ack!Newest
<1>5. Ack!KeptIsSlots'
  BY DEF KeepInv, Ack!KeptIsSlots, Alike
<1> QED BY <1>1, <1>2, <1>3, <1>4, <1>5

(* The timers and the receive thread.                                      *)
LEMMA TimerKeeps ==
    ASSUME Ack!TcpAckAssumption, KeepInv, NEW i \in Ack!Index, Ack!Timer(i)
    PROVE  KeepInv'
<1>0. Ack!AckTypeOK /\ slot[i] \in Ack!SlotType
  BY DEF KeepInv, Ack!AckTypeOK
<1>1. CASE Ack!Expire(i)
  <2>1. Ack!AckTypeOK'
    <3>1. [pc |-> "run", msg |-> Ack!None] \in [pc : {"off", "run"}, msg : {Ack!None}]
      OBVIOUS
    <3> QED BY <1>0, <1>1, <3>1 DEF Ack!Expire, Ack!AckTypeOK
  <2>2. UNCHANGED <<newest, cpu, freeIdx, enable, slot, sent>>
    BY <1>1 DEF Ack!Expire
  <2>3. Ack!FreeSlots' /\ Ack!OneSlot' /\ Ack!JobsLate' /\ Ack!NumbersNear' /\ Ack!KeptIsSlots'
    BY <2>1, <2>2, AlikeKept DEF Alike
  <2>4. \A j \in Ack!Index : handler[j].pc = "send" => handler'[j] = handler[j]
    BY <1>0, <1>1 DEF Ack!Expire, Ack!AckTypeOK
  <2>5. \A f \in Flows : Ack!InHand(f) => Ack!InHand(f)'
    BY <2>2, <2>4 DEF Ack!InHand, Ack!Has
  <2> QED BY <2>1, <2>2, <2>3, <2>5 DEF KeepInv
<1>2. CASE Ack!Timeout(i) /\ ~Ack!TimeoutTakes(i)
  <2>1. Ack!AckTypeOK'
    <3>1. Ack!Off \in [pc : {"off", "run"}, msg : {Ack!None}]
      BY DEF Ack!Off
    <3> QED BY <1>0, <1>2, <3>1 DEF Ack!Timeout, Ack!AckTypeOK
  <2>2. UNCHANGED <<newest, cpu, freeIdx, enable, slot, sent>>
    BY <1>2 DEF Ack!Timeout
  <2>3. Ack!FreeSlots' /\ Ack!OneSlot' /\ Ack!JobsLate' /\ Ack!NumbersNear' /\ Ack!KeptIsSlots'
    BY <2>1, <2>2, AlikeKept DEF Alike
  <2>4. \A j \in Ack!Index : handler[j].pc = "send" => handler'[j] = handler[j]
    BY <1>0, <1>2 DEF Ack!Timeout, Ack!AckTypeOK
  <2>5. \A f \in Flows : Ack!InHand(f) => Ack!InHand(f)'
    BY <2>2, <2>4 DEF Ack!InHand, Ack!Has
  <2> QED BY <2>1, <2>2, <2>3, <2>5 DEF KeepInv
<1>3. CASE Ack!Timeout(i) /\ Ack!TimeoutTakes(i)
  <2> DEFINE m == slot[i].msg
             t == [slot[i] EXCEPT !.msg = Ack!None, !.drop = 0, !.inSend = m]
  <2>1. m \in Ack!Msgs /\ t \in Ack!SlotType /\ t.busy = slot[i].busy /\ t.flow = slot[i].flow
        /\ t.seq = slot[i].seq /\ t.msg = Ack!None
    BY <1>0, <1>3 DEF Ack!TimeoutTakes, Ack!SlotType
  <2>2. Ack!Set(i, t) /\ handler' = [handler EXCEPT ![i] = [pc |-> "send", msg |-> m]]
        /\ UNCHANGED <<pending, freeIdx, enable, cpu, rx, count, newest, sent>>
    BY <1>3 DEF Ack!Timeout
  <2> HIDE DEF t
  <2>3. /\ slot' \in [Ack!Index -> Ack!SlotType] /\ slot'[i] = t
        /\ \A j \in Ack!Index : j # i => slot'[j] = slot[j]
    BY <1>0, <2>1, <2>2, SlotGiven
  <2>4. Ack!AckTypeOK'
    <3>1. [pc |-> "send", msg |-> m] \in [pc : {"send"}, msg : Ack!Msgs]
      BY <2>1
    <3> HIDE DEF m
    <3> QED BY <1>0, <2>2, <2>3, <3>1 DEF Ack!AckTypeOK
  <2>5. \A j \in Ack!Index : slot'[j].busy = slot[j].busy /\ slot'[j].flow = slot[j].flow
                         /\ slot'[j].seq = slot[j].seq
                         /\ (slot'[j].msg = slot[j].msg \/ slot'[j].msg = Ack!None)
    BY <2>1, <2>3
  <2>6. Ack!FreeSlots'
    <3>1. \A c \in Cpus : cpu[c].pc = "mark" => cpu[c].i \in Ack!Index
      BY <1>0, JobIs
    <3> QED BY <2>2, <2>5, <3>1 DEF KeepInv, Ack!AckTypeOK, Ack!FreeSlots
  <2>7. Ack!OneSlot'
    <3>1. \A f : Ack!Matches(f)' = Ack!Matches(f)
      BY <2>5 DEF Ack!Matches
    <3> QED BY <2>2, <2>5, <3>1 DEF KeepInv, Ack!OneSlot
  <2>8. Ack!JobsLate'
    BY <2>2 DEF KeepInv, Ack!JobsLate, Ack!Late
  <2>9. Ack!NumbersNear'
    <3> SUFFICES ASSUME NEW j \in Ack!Index, slot'[j].busy PROVE Ack!NumberNear(slot[j])'
      BY DEF Ack!NumbersNear
    <3>1. slot[j].busy /\ slot'[j].flow = slot[j].flow /\ slot'[j].seq = slot[j].seq
      BY <2>5
    <3>2. Ack!NumberNear(slot[j])
      BY <3>1 DEF KeepInv, Ack!NumbersNear
    <3> QED BY <2>2, <3>1, <3>2 DEF Ack!NumberNear, Ack!Ahead, Ack!Newest
  <2>10. Ack!KeptIsSlots'
    BY <2>5 DEF KeepInv, Ack!KeptIsSlots
  <2>11. ASSUME NEW f \in Flows, Ack!InHand(f) PROVE Ack!InHand(f)'
    <3>1. handler'[i].pc = "send" /\ handler'[i].msg = m
      BY <1>0, <2>2 DEF Ack!AckTypeOK
    <3>2. \A j \in Ack!Index : handler[j].pc = "send" => handler'[j] = handler[j]
      BY <1>0, <1>3, <2>2 DEF Ack!Timeout, Ack!AckTypeOK
    <3>3. CASE \E j \in Ack!Index : Ack!Has(slot[j].msg, f)
      <4>1. PICK j \in Ack!Index : Ack!Has(slot[j].msg, f)
        BY <3>3
      <4>2. CASE j = i
        BY <2>2, <3>1, <4>1, <4>2 DEF Ack!InHand, Ack!Has
      <4>3. CASE j # i
        BY <2>2, <2>3, <4>1, <4>3 DEF Ack!InHand, Ack!Has
      <4> QED BY <4>2, <4>3
    <3>4. CASE ~\E j \in Ack!Index : Ack!Has(slot[j].msg, f)
      BY <2>2, <2>11, <3>2, <3>4 DEF Ack!InHand, Ack!Has
    <3> QED BY <3>3, <3>4
  <2> QED BY <2>2, <2>4, <2>6, <2>7, <2>8, <2>9, <2>10, <2>11 DEF KeepInv
<1>4. CASE Ack!TimeoutSend(i)
  <2> DEFINE m == handler[i].msg
  <2>1. m \in Ack!Msgs
    BY <1>0, <1>4 DEF Ack!TimeoutSend, Ack!AckTypeOK
  <2>2. slot' = Ack!Moved(m) /\ Ack!Out(m) /\ handler' = [handler EXCEPT ![i] = Ack!Off]
        /\ UNCHANGED <<pending, freeIdx, enable, cpu, rx, count, newest>>
    BY <1>4 DEF Ack!TimeoutSend
  <2> HIDE DEF m
  <2>3. /\ slot' \in [Ack!Index -> Ack!SlotType] /\ sent' \in [Flows -> Nat]
        /\ \A j \in Ack!Index : Alike(slot'[j], slot[j])
        /\ sent'[m.f] >= m.n /\ \A f \in Flows : sent'[f] >= sent[f]
    BY <1>0, <2>1, <2>2, MovedKeeps DEF Alike
  <2>4. Ack!AckTypeOK'
    <3>1. Ack!Off \in [pc : {"off", "run"}, msg : {Ack!None}]
      BY DEF Ack!Off
    <3> QED BY <1>0, <2>2, <2>3, <3>1 DEF Ack!AckTypeOK
  <2>5. Ack!FreeSlots' /\ Ack!OneSlot' /\ Ack!JobsLate' /\ Ack!NumbersNear' /\ Ack!KeptIsSlots'
    BY <2>2, <2>3, <2>4, AlikeKept
  <2>6. ASSUME NEW f \in Flows, Ack!InHand(f) PROVE Ack!InHand(f)'
    <3>1. \A j \in Ack!Index : j # i => handler'[j] = handler[j]
      BY <1>0, <2>2 DEF Ack!AckTypeOK
    <3>2. CASE Ack!Has(handler[i].msg, f)
      BY <2>2, <2>3, <3>2 DEF Ack!InHand, Ack!Has, m
    <3>3. CASE sent[f] >= newest[f]
      <4>1. sent[f] \in Nat /\ newest[f] \in Nat /\ sent'[f] \in Nat
        BY <1>0, <2>3 DEF Ack!AckTypeOK
      <4> QED BY <2>2, <2>3, <3>3, <4>1 DEF Ack!InHand
    <3>4. CASE ~Ack!Has(handler[i].msg, f) /\ ~(sent[f] >= newest[f])
      BY <2>2, <2>3, <2>6, <3>1, <3>4 DEF Ack!InHand, Ack!Has, Alike
    <3> QED BY <3>2, <3>3, <3>4
  <2> QED BY <2>2, <2>4, <2>5, <2>6 DEF KeepInv
<1> QED BY <1>1, <1>2, <1>3, <1>4 DEF Ack!Timer

(* The receive thread notes a pushed segment, and the filter ends.         *)
LEMMA RxKeeps ==
    ASSUME Ack!TcpAckAssumption, KeepInv,
           Ack!RxSet \/ Ack!Deinit \/ \E f \in Flows, d \in Advance : Ack!RxPush(f, d)
    PROVE  KeepInv'
<1>0. Ack!AckTypeOK
  BY DEF KeepInv
<1>1. CASE Ack!RxSet
  <2> DEFINE i == rx.i
             t == [slot[i] EXCEPT !.psh = TRUE, !.pshSeq = rx.seq]
  <2>1. i \in Ack!Index /\ rx.seq \in Ack!SeqNos /\ slot[i] \in Ack!SlotType
    BY <1>0, <1>1 DEF Ack!RxSet, Ack!AckTypeOK, Ack!Idle
  <2>2. t \in Ack!SlotType /\ Alike(t, slot[i])
    BY <2>1 DEF Ack!SlotType, Alike
  <2>3. Ack!Set(i, t) /\ rx' = Ack!Idle
        /\ UNCHANGED <<pending, handler, freeIdx, enable, cpu, count, newest, sent>>
    BY <1>1 DEF Ack!RxSet
  <2> HIDE DEF i, t
  <2>4. /\ slot' \in [Ack!Index -> Ack!SlotType] /\ slot'[i] = t
        /\ \A j \in Ack!Index : j # i => slot'[j] = slot[j]
    BY <1>0, <2>1, <2>2, <2>3, SlotGiven
  <2>5. Ack!AckTypeOK'
    BY <1>0, <2>3, <2>4 DEF Ack!AckTypeOK
  <2>6. \A j \in Ack!Index : Alike(slot'[j], slot[j])
    BY <2>2, <2>4 DEF Alike
  <2>7. Ack!FreeSlots' /\ Ack!OneSlot' /\ Ack!JobsLate' /\ Ack!NumbersNear' /\ Ack!KeptIsSlots'
    BY <2>3, <2>5, <2>6, AlikeKept
  <2>8. \A f \in Flows : Ack!InHand(f) => Ack!InHand(f)'
    BY <2>3, <2>6 DEF Ack!InHand, Ack!Has, Alike
  <2> QED BY <2>3, <2>5, <2>7, <2>8 DEF KeepInv
<1>2. CASE \E f \in Flows, d \in Advance : Ack!RxPush(f, d)
  <2>1. PICK f \in Flows, d \in Advance : Ack!RxPush(f, d)
    BY <1>2
  <2>2. UNCHANGED <<slot, pending, handler, freeIdx, enable, cpu, count, newest, sent>>
    BY <2>1 DEF Ack!RxPush
  <2>3. rx' \in [pc : {"set"}, i : Ack!Index, seq : Ack!SeqNos]
    <3>1. Ack!Matches(f) # {} /\ Ack!Matches(f) \subseteq Ack!Index
      BY <2>1 DEF Ack!RxPush, Ack!Matches
    <3>2. Ack!Least(Ack!Matches(f)) \in Ack!Index
      BY <3>1, LeastIn
    <3>3. (newest[f] + d) % SeqMod \in Ack!SeqNos
      <4>1. newest[f] + d \in Int
        BY <1>0 DEF Ack!AckTypeOK, Ack!TcpAckAssumption
      <4> QED BY <4>1, SeqNo
    <3>4. rx' = [pc |-> "set", i |-> Ack!Least(Ack!Matches(f)), seq |-> (newest[f] + d) % SeqMod]
      BY <2>1 DEF Ack!RxPush
    <3> QED BY <3>2, <3>3, <3>4
  <2>4. Ack!AckTypeOK'
    BY <1>0, <2>2, <2>3 DEF Ack!AckTypeOK
  <2>5. Ack!FreeSlots' /\ Ack!OneSlot' /\ Ack!JobsLate' /\ Ack!NumbersNear' /\ Ack!KeptIsSlots'
    BY <2>2, <2>4, AlikeKept DEF Alike
  <2>6. \A g \in Flows : Ack!InHand(g) => Ack!InHand(g)'
    BY <2>2 DEF Ack!InHand, Ack!Has
  <2> QED BY <2>2, <2>4, <2>5, <2>6 DEF KeepInv
<1>3. CASE Ack!Deinit
  <2>1. /\ \A c \in Cpus : cpu[c].pc = "idle"
        /\ enable' = FALSE /\ pending' = [i \in Ack!Index |-> FALSE]
        /\ slot' = [i \in Ack!Index |-> [slot[i] EXCEPT !.msg = Ack!None]]
        /\ UNCHANGED <<handler, freeIdx, cpu, rx, count, newest, sent>>
    BY <1>3 DEF Ack!Deinit
  <2>2. ASSUME NEW i \in Ack!Index
        PROVE  /\ slot'[i] \in Ack!SlotType /\ slot'[i].msg = Ack!None
               /\ slot'[i].busy = slot[i].busy /\ slot'[i].flow = slot[i].flow
               /\ slot'[i].seq = slot[i].seq
    <3>1. slot[i] \in Ack!SlotType
      BY <1>0 DEF Ack!AckTypeOK
    <3>2. slot'[i] = [slot[i] EXCEPT !.msg = Ack!None]
      BY <2>1
    <3> QED BY <3>1, <3>2 DEF Ack!SlotType
  <2>3. slot' \in [Ack!Index -> Ack!SlotType]
    BY <2>1, <2>2
  <2>4. Ack!AckTypeOK'
    BY <1>0, <2>1, <2>3 DEF Ack!AckTypeOK
  <2>5. Ack!FreeSlots' /\ Ack!OneSlot' /\ Ack!JobsLate' /\ Ack!KeptIsSlots'
    BY <2>1, <2>2 DEF KeepInv, Ack!AckTypeOK, Ack!FreeSlots, Ack!OneSlot, Ack!JobsLate, Ack!KeptIsSlots
  <2>6. Ack!NumbersNear'
    <3> SUFFICES ASSUME NEW j \in Ack!Index, slot'[j].busy PROVE Ack!NumberNear(slot[j])'
      BY DEF Ack!NumbersNear
    <3>1. slot[j].busy /\ slot'[j].flow = slot[j].flow /\ slot'[j].seq = slot[j].seq
      BY <2>2
    <3>2. Ack!NumberNear(slot[j])
      BY <3>1 DEF KeepInv, Ack!NumbersNear
    <3> QED BY <2>1, <3>1, <3>2 DEF Ack!NumberNear, Ack!Ahead, Ack!Newest
  <2> QED BY <2>1, <2>4, <2>5, <2>6 DEF KeepInv
<1> QED BY <1>1, <1>2, <1>3

-----------------------------------------------------------------------------
(* One CPU: what there is of its message.                                  *)
LEMMA CpuSteps ==
    ASSUME Ack!TcpAckAssumption, NEW c, Cpus = {c}, KeepInv, Ack!Work(c)
    PROVE  KeepInv'
<1> DEFINE m == cpu[c].msg
           i == cpu[c].i
<1>0. Ack!AckTypeOK /\ c \in Cpus
  BY DEF KeepInv
<1>1. cpu[c].pc # "idle"
  BY DEF Ack!Work, Ack!Match, Ack!HandleSend, Ack!HandleKeep, Ack!HandleDrop, Ack!Alloc, Ack!Mark, Ack!Send
<1>2. m \in Ack!Msgs /\ m.f \in Flows /\ m.n \in Nat /\ enable
  BY <1>0, <1>1, JobIs DEF Ack!Msgs, KeepInv, Ack!OneSlot
<1>3. PICK l \in Lag \cup {0} : m.n = newest[m.f] - l
  BY <1>0, <1>1 DEF KeepInv, Ack!JobsLate, Ack!Late
<1>4. newest[m.f] \in Nat /\ l \in 0..newest[m.f] /\ (l # 0 => l < SeqMod \div 2)
  BY <1>0, <1>2, <1>3 DEF Ack!AckTypeOK, Ack!TcpAckAssumption
<1>5. \A f \in Flows : Ack!InHand(f)
  BY <1>2 DEF KeepInv
(* AckSlots of other connections do not wait for this message.                *)
<1>6. ASSUME NEW j \in Ack!Index, slot[j].busy, slot[j].flow # m.f \/ cpu[c].pc \notin {"match", "handle"}
      PROVE  /\ slot[j].flow \in Flows
             /\ \E k \in 0..newest[slot[j].flow] :
                  /\ slot[j].seq = (newest[slot[j].flow] - k) % SeqMod
                  /\ k \in Lag \cup {0}
  BY <1>6 DEF KeepInv, Ack!NumbersNear, Ack!NumberNear, Ack!Ahead, Ack!OneSlot
<1>7. CASE Ack!Match(c)
  <2> DEFINE S == Ack!Matches(m.f)
  <2>1. UNCHANGED <<slot, pending, handler, freeIdx, enable, rx, count, newest, sent>>
    BY <1>7 DEF Ack!Match
  <2>2. cpu[c] = [pc |-> "match", msg |-> m]
    BY <1>0, <1>7, JobIs DEF Ack!Match
  <2>3. CASE S = {}
    <3> DEFINE r == [pc |-> "alloc", msg |-> m]
    <3>1. Ack!CpuDo(c, r)
      <4>1. Ack!CpuDo(c, [cpu[c] EXCEPT !.pc = "alloc"])
        BY <1>7, <2>3 DEF Ack!Match
      <4>2. [cpu[c] EXCEPT !.pc = "alloc"] = r
        BY <2>2
      <4> QED BY <4>1, <4>2
    <3>2. r \in Ack!Job /\ r.pc = "alloc" /\ r.msg = m
      BY <1>2 DEF Ack!Job
    <3> HIDE DEF r
    <3>3. cpu' \in [Cpus -> Ack!Job] /\ cpu'[c] = r
      BY <1>0, <3>1, <3>2, JobGiven
    <3>4. Ack!AckTypeOK'
      BY <1>0, <2>1, <3>3 DEF Ack!AckTypeOK
    <3>5. Ack!FreeSlots' /\ Ack!KeptIsSlots'
      BY <2>1, <3>2, <3>3 DEF KeepInv, Ack!FreeSlots, Ack!KeptIsSlots
    <3>6. Ack!OneSlot'
      BY <1>2, <2>1, <2>3, <3>2, <3>3 DEF KeepInv, Ack!OneSlot, Ack!Matches
    <3>7. Ack!JobsLate'
      BY <1>3, <2>1, <3>2, <3>3 DEF Ack!JobsLate, Ack!Late
    <3>8. Ack!NumbersNear'
      <4> SUFFICES ASSUME NEW j \in Ack!Index, slot[j].busy PROVE Ack!NumberNear(slot[j])'
        BY <2>1 DEF Ack!NumbersNear
      <4>1. slot[j].flow # m.f
        BY <2>3 DEF Ack!Matches
      <4> QED BY <1>6, <2>1, <4>1 DEF Ack!NumberNear
    <3>9. \A f \in Flows : Ack!InHand(f)'
      BY <1>5, <2>1, <3>2, <3>3 DEF Ack!InHand, Ack!Has
    <3> QED BY <3>4, <3>5, <3>6, <3>7, <3>8, <3>9 DEF KeepInv
  <2>4. CASE S # {}
    <3> DEFINE r == [pc |-> "handle", msg |-> m, i |-> Ack!Least(S)]
    <3>1. Ack!CpuDo(c, r)
      BY <1>2, <1>7, <2>4 DEF Ack!Match
    <3>2. Ack!Least(S) \in S /\ S \subseteq Ack!Index
      <4>1. S \subseteq Ack!Index
        BY DEF Ack!Matches
      <4> QED BY <2>4, <4>1, LeastIn
    <3>3. r \in Ack!Job /\ r.pc = "handle" /\ r.msg = m /\ r.i = Ack!Least(S)
      BY <1>2, <3>2 DEF Ack!Job
    <3> HIDE DEF r
    <3>4. cpu' \in [Cpus -> Ack!Job] /\ cpu'[c] = r
      BY <1>0, <3>1, <3>3, JobGiven
    <3>5. Ack!AckTypeOK'
      BY <1>0, <2>1, <3>4 DEF Ack!AckTypeOK
    <3>6. Ack!FreeSlots' /\ Ack!KeptIsSlots'
      BY <2>1, <3>3, <3>4 DEF KeepInv, Ack!FreeSlots, Ack!KeptIsSlots
    <3>7. Ack!OneSlot'
      BY <1>2, <2>1, <3>2, <3>3, <3>4 DEF KeepInv, Ack!OneSlot, Ack!Matches
    <3>8. Ack!JobsLate'
      BY <1>3, <2>1, <3>3, <3>4 DEF Ack!JobsLate, Ack!Late
    <3>9. Ack!NumbersNear'
      <4> SUFFICES ASSUME NEW j \in Ack!Index, slot[j].busy PROVE Ack!NumberNear(slot[j])'
        BY <2>1 DEF Ack!NumbersNear
      <4>1. Ack!Ahead(slot[j].flow) => Ack!Ahead(slot[j].flow)'
        BY <2>1, <3>3, <3>4 DEF Ack!Ahead, Ack!Newest
      <4>2. Ack!NumberNear(slot[j])
        BY DEF KeepInv, Ack!NumbersNear
      <4> QED BY <2>1, <4>1, <4>2 DEF Ack!NumberNear
    <3>10. \A f \in Flows : Ack!InHand(f)'
      BY <1>5, <2>1, <3>3, <3>4 DEF Ack!InHand, Ack!Has
    <3> QED BY <3>5, <3>6, <3>7, <3>8, <3>9, <3>10 DEF KeepInv
  <2> QED BY <2>3, <2>4
(* A message in a slot is handled: the slot's number is not far behind.     *)
<1>8. ASSUME cpu[c].pc = "handle"
      PROVE  /\ i \in Ack!Index /\ slot[i].busy /\ slot[i].flow = m.f /\ slot[i] \in Ack!SlotType
             /\ \A j \in Ack!Index : j # i /\ slot[j].busy => slot[j].flow # m.f
             /\ m.n = newest[m.f] => Ack!U32Before(slot[i].seq, m.n)
  <2>1. i \in Ack!Index /\ slot[i].busy /\ slot[i].flow = m.f /\ slot[i] \in Ack!SlotType
    BY <1>0, <1>8, JobIs DEF KeepInv, Ack!OneSlot, Ack!Matches, Ack!AckTypeOK
  <2>2. \A j \in Ack!Index : j # i /\ slot[j].busy => slot[j].flow # m.f
    BY <2>1 DEF KeepInv, Ack!OneSlot
  <2>3. ASSUME m.n = newest[m.f] PROVE Ack!U32Before(slot[i].seq, m.n)
    <3>1. PICK k \in 0..newest[m.f] : /\ slot[i].seq = (newest[m.f] - k) % SeqMod
                                      /\ k \in Lag \cup {0} \/ k <= SeqMod \div 2
      BY <2>1 DEF KeepInv, Ack!NumbersNear, Ack!NumberNear
    <3>2. k <= SeqMod \div 2
      BY <3>1, <1>4 DEF Ack!TcpAckAssumption
    <3> QED BY <1>4, <2>3, <3>1, <3>2, Newer
  <2> QED BY <2>1, <2>2, <2>3
<1>9. CASE Ack!HandleDrop(c)
  <2>1. cpu[c].pc = "handle" /\ ~Ack!U32Before(slot[i].seq, m.n) /\ Ack!CpuDo(c, Ack!Idle)
        /\ UNCHANGED <<slot, pending, handler, freeIdx, enable, rx, count, newest, sent>>
    BY <1>9 DEF Ack!HandleDrop
  <2>2. m.n # newest[m.f]
    BY <1>8, <2>1
  <2>3. cpu' \in [Cpus -> Ack!Job] /\ cpu'[c] = Ack!Idle
    <3>1. Ack!Idle \in Ack!Job
      BY DEF Ack!Job
    <3> QED BY <1>0, <2>1, <3>1, JobGiven
  <2>4. Ack!AckTypeOK'
    BY <1>0, <2>1, <2>3 DEF Ack!AckTypeOK
  <2>5. Ack!FreeSlots' /\ Ack!KeptIsSlots' /\ Ack!OneSlot' /\ Ack!JobsLate'
    BY <2>1, <2>3 DEF KeepInv, Ack!FreeSlots, Ack!KeptIsSlots, Ack!OneSlot, Ack!Matches, Ack!JobsLate, Ack!Idle
  <2>6. Ack!NumbersNear'
    <3> SUFFICES ASSUME NEW j \in Ack!Index, slot[j].busy PROVE Ack!NumberNear(slot[j])'
      BY <2>1 DEF Ack!NumbersNear
    <3>1. ~Ack!Ahead(slot[j].flow)
      BY <2>2 DEF Ack!Ahead, Ack!Newest
    <3>2. Ack!NumberNear(slot[j])
      BY DEF KeepInv, Ack!NumbersNear
    <3> QED BY <2>1, <3>1, <3>2 DEF Ack!NumberNear
  <2>7. \A f \in Flows : Ack!InHand(f)'
    BY <1>5, <2>1, <2>2 DEF Ack!InHand, Ack!Has
  <2> QED BY <2>4, <2>5, <2>6, <2>7 DEF KeepInv
(* The slot takes the number of the message, and keeps it or sends it.     *)
<1>10. ASSUME cpu[c].pc = "handle", Ack!U32Before(slot[i].seq, m.n),
              NEW t \in Ack!SlotType, t.busy, t.flow = slot[i].flow, t.seq = m.n % SeqMod,
              t.msg \in {m, Ack!None}, NEW r \in Ack!Job,
              (r = Ack!Idle /\ t.msg = m) \/ (r.pc = "send" /\ r.msg = m),
              Ack!Set(i, t), Ack!CpuDo(c, r), pending' \in [Ack!Index -> BOOLEAN],
              UNCHANGED <<handler, freeIdx, enable, rx, count, newest, sent>>
       PROVE  KeepInv'
  <2>1. /\ slot' \in [Ack!Index -> Ack!SlotType] /\ slot'[i] = t
        /\ \A j \in Ack!Index : j # i => slot'[j] = slot[j]
    BY <1>0, <1>8, <1>10, SlotGiven
  <2>2. cpu' \in [Cpus -> Ack!Job] /\ cpu'[c] = r
    BY <1>0, <1>10, JobGiven
  <2>3. r.pc \in {"idle", "send"} /\ i \in Ack!Index /\ slot[i].busy /\ slot[i].flow = m.f
    BY <1>8, <1>10 DEF Ack!Idle
  <2>4. Ack!AckTypeOK'
    BY <1>0, <1>10, <2>1, <2>2 DEF Ack!AckTypeOK
  <2>5. Ack!FreeSlots'
    <3>1. ASSUME NEW j \in Ack!Index, ~slot'[j].busy PROVE slot'[j].msg = Ack!None
      BY <1>10, <2>1, <3>1 DEF KeepInv, Ack!FreeSlots
    <3>2. freeIdx # -1 => freeIdx \in Ack!Index /\ freeIdx # i /\ ~slot[freeIdx].busy
      BY <1>0, <2>3 DEF KeepInv, Ack!FreeSlots, Ack!AckTypeOK
    <3>3. \A x \in Cpus : cpu'[x].pc # "mark"
      BY <2>2, <2>3
    <3> QED BY <1>10, <2>1, <3>1, <3>2, <3>3 DEF Ack!FreeSlots
  <2>6. Ack!OneSlot'
    <3>1. \A j \in Ack!Index : slot'[j].busy => slot[j].busy /\ slot'[j].flow = slot[j].flow
      BY <1>10, <2>1, <2>3
    <3>2. \A x \in Cpus : cpu'[x].pc \in {"idle", "send"}
      BY <2>2, <2>3
    <3>3. \A j, k \in Ack!Index :
            slot'[j].busy /\ slot'[k].busy /\ slot'[j].flow = slot'[k].flow => j = k
      BY <3>1 DEF KeepInv, Ack!OneSlot
    <3>4. \A j \in Ack!Index : slot'[j].busy => slot'[j].flow \in Flows
      BY <3>1 DEF KeepInv, Ack!OneSlot
    <3> QED BY <1>2, <1>10, <3>2, <3>3, <3>4 DEF Ack!OneSlot
  <2>7. Ack!JobsLate'
    BY <1>3, <1>10, <2>2, <2>3 DEF Ack!JobsLate, Ack!Late, Ack!Idle
  <2>8. Ack!NumbersNear'
    <3> SUFFICES ASSUME NEW j \in Ack!Index, slot'[j].busy PROVE Ack!NumberNear(slot[j])'
      BY DEF Ack!NumbersNear
    <3>1. CASE j = i
      <4>1. slot'[j].flow = m.f /\ slot'[j].seq = (newest[m.f] - l) % SeqMod
        BY <1>3, <1>10, <2>1, <2>3, <3>1
      <4> QED BY <1>4, <1>10, <4>1 DEF Ack!NumberNear
    <3>2. CASE j # i
      <4>1. slot'[j] = slot[j] /\ slot[j].flow # m.f
        BY <1>8, <1>10, <2>1, <3>2
      <4> QED BY <1>6, <1>10, <4>1 DEF Ack!NumberNear
    <3> QED BY <3>1, <3>2
  <2>9. Ack!KeptIsSlots'
    <3>1. t.msg # Ack!None => t.msg.f = t.flow /\ t.seq = t.msg.n % SeqMod
      BY <1>10, <2>3
    <3> QED BY <2>1, <3>1 DEF KeepInv, Ack!KeptIsSlots
  <2>10. ASSUME NEW f \in Flows PROVE Ack!InHand(f)'
    <3>1. CASE Ack!Has(m, f)
      <4>1. (cpu'[c].pc # "idle" /\ cpu'[c].msg = m) \/ slot'[i].msg = m
        BY <1>10, <2>1, <2>2
      <4> QED BY <1>0, <1>10, <2>3, <3>1, <4>1 DEF Ack!InHand, Ack!Has
    <3>2. CASE ~Ack!Has(m, f)
      <4>1. ~Ack!Has(slot[i].msg, f)
        <5> SUFFICES ASSUME Ack!Has(slot[i].msg, f) PROVE FALSE
          OBVIOUS
        <5>1. slot[i].msg # Ack!None
          BY NoneIsNoMsg DEF Ack!Has
        <5>2. m.f = f /\ slot[i].seq = newest[f] % SeqMod
          BY <2>3, <5>1 DEF KeepInv, Ack!KeptIsSlots, Ack!Has
        <5>3. l # 0
          BY <1>2, <1>3, <1>4, <3>2, <5>2 DEF Ack!Has
        <5>4. ~Ack!U32Before(newest[f] % SeqMod, newest[f] - l)
          BY <1>4, <5>2, <5>3, Older
        <5> QED BY <1>3, <1>10, <5>2, <5>4
      <4>2. \A j \in Ack!Index : Ack!Has(slot[j].msg, f) => slot'[j] = slot[j]
        BY <2>1, <4>1
      <4> QED BY <1>5, <1>10, <3>2, <4>2 DEF Ack!InHand, Ack!Has
    <3> QED BY <3>1, <3>2
  <2> QED BY <2>4, <2>5, <2>6, <2>7, <2>8, <2>9, <2>10 DEF KeepInv
<1>11. CASE Ack!HandleSend(c)
  <2> DEFINE s == slot[i]
             t == [s EXCEPT !.msg = Ack!None, !.psh = s.psh /\ ~Ack!Quick(s, m.n), !.drop = 0,
                            !.seq = m.n % SeqMod, !.inSend = m]
             r == [pc |-> "send", msg |-> m]
  <2>1. cpu[c].pc = "handle" /\ Ack!U32Before(s.seq, m.n) /\ Ack!Set(i, t) /\ Ack!CpuDo(c, r)
        /\ pending' = [pending EXCEPT ![i] = FALSE]
        /\ UNCHANGED <<handler, freeIdx, enable, rx, count, newest, sent>>
    BY <1>11 DEF Ack!HandleSend
  <2>2. t \in Ack!SlotType /\ t.busy /\ t.flow = s.flow /\ t.seq = m.n % SeqMod /\ t.msg = Ack!None
    <3>1. s \in Ack!SlotType /\ s.busy /\ m.n % SeqMod \in Ack!SeqNos /\ m \in Ack!Msgs
      BY <1>2, <1>8, <2>1, SeqNo
    <3>2. (s.psh /\ ~Ack!Quick(s, m.n)) \in BOOLEAN
      OBVIOUS
    <3> HIDE DEF s, m
    <3> QED BY <3>1, <3>2 DEF Ack!SlotType
  <2>3. r \in Ack!Job /\ r.pc = "send" /\ r.msg = m
    BY <1>2 DEF Ack!Job
  <2>4. pending' \in [Ack!Index -> BOOLEAN]
    BY <1>0, <2>1 DEF Ack!AckTypeOK
  <2> HIDE DEF t, r, s
  <2> QED BY <1>10, <2>1, <2>2, <2>3, <2>4 DEF s
<1>12. CASE Ack!HandleKeep(c)
  <2> DEFINE s == slot[i]
             t == [s EXCEPT !.msg = m, !.drop = Ack!Drops(s, m.n), !.seq = m.n % SeqMod]
  <2>1. cpu[c].pc = "handle" /\ Ack!U32Before(s.seq, m.n) /\ Ack!Set(i, t) /\ Ack!CpuDo(c, Ack!Idle)
        /\ pending' = [pending EXCEPT ![i] = TRUE]
        /\ UNCHANGED <<handler, freeIdx, enable, rx, count, newest, sent>>
    BY <1>12 DEF Ack!HandleKeep
  <2>2. t \in Ack!SlotType /\ t.busy /\ t.flow = s.flow /\ t.seq = m.n % SeqMod /\ t.msg = m
    <3>1. s \in Ack!SlotType /\ s.busy /\ m.n % SeqMod \in Ack!SeqNos /\ m \in Ack!Msgs
      BY <1>2, <1>8, <2>1, SeqNo
    <3> HIDE DEF s, m
    <3>2. Ack!Drops(s, m.n) \in Nat
      BY <3>1 DEF Ack!Drops, Ack!SlotType
    <3> QED BY <3>1, <3>2 DEF Ack!SlotType
  <2>3. PICK r \in Ack!Job : r = Ack!Idle
    BY DEF Ack!Job
  <2>4. pending' \in [Ack!Index -> BOOLEAN]
    BY <1>0, <2>1 DEF Ack!AckTypeOK
  <2>5. Ack!CpuDo(c, r) /\ t.msg \in {m, Ack!None} /\ r = Ack!Idle /\ t.msg = m
    BY <2>1, <2>2, <2>3
  <2> HIDE DEF t, s
  <2> QED BY <1>10, <2>1, <2>2, <2>4, <2>5 DEF s
<1>13. CASE Ack!Alloc(c)
  <2> DEFINE unused == {j \in Ack!Index : ~slot[j].busy}
             ok == maxNum # AckSlots /\ (freeIdx >= 0 \/ unused # {})
             n == IF freeIdx >= 0 THEN freeIdx ELSE Ack!Least(unused)
  <2>1. cpu[c].pc = "alloc" /\ UNCHANGED <<slot, pending, handler, enable, rx, count, newest, sent>>
        /\ freeIdx' = (IF ok THEN -1 ELSE freeIdx)
        /\ Ack!CpuDo(c, IF ok THEN [pc |-> "mark", msg |-> m, i |-> n] ELSE [pc |-> "send", msg |-> m])
    BY <1>13 DEF Ack!Alloc
  <2>2. ok => n \in Ack!Index /\ ~slot[n].busy
    <3>1. freeIdx >= 0 => freeIdx \in Ack!Index /\ ~slot[freeIdx].busy
      BY <1>0 DEF KeepInv, Ack!AckTypeOK, Ack!FreeSlots
    <3>2. unused # {} => Ack!Least(unused) \in unused
      BY LeastIn
    <3> HIDE DEF unused
    <3> QED BY <3>1, <3>2 DEF unused
  <2>3. PICK r \in Ack!Job : /\ Ack!CpuDo(c, r) /\ r.msg = m
                             /\ \/ ok /\ r.pc = "mark" /\ r.i = n
                                \/ ~ok /\ r.pc = "send"
    <3>1. CASE ok
      <4> [pc |-> "mark", msg |-> m, i |-> n] \in Ack!Job
        BY <1>2, <2>2, <3>1 DEF Ack!Job
      <4> QED BY <2>1, <3>1
    <3>2. CASE ~ok
      <4> [pc |-> "send", msg |-> m] \in Ack!Job
        BY <1>2 DEF Ack!Job
      <4> QED BY <2>1, <3>2
    <3> QED BY <3>1, <3>2
  <2> HIDE DEF ok, n, unused
  <2>4. cpu' \in [Cpus -> Ack!Job] /\ cpu'[c] = r
    BY <1>0, <2>3, JobGiven
  <2>5. Ack!AckTypeOK'
    <3>1. freeIdx' \in Ack!Index \cup {-1}
      BY <1>0, <2>1 DEF Ack!AckTypeOK
    <3> QED BY <1>0, <2>1, <2>4, <3>1 DEF Ack!AckTypeOK
  <2>6. Ack!FreeSlots' /\ Ack!KeptIsSlots'
    BY <2>1, <2>2, <2>3, <2>4 DEF KeepInv, Ack!FreeSlots, Ack!KeptIsSlots
  <2>7. Ack!OneSlot'
    <3>1. Ack!Matches(m.f) = {} /\ \A f : Ack!Matches(f)' = Ack!Matches(f)
      BY <1>0, <2>1 DEF KeepInv, Ack!OneSlot, Ack!Matches
    <3> QED BY <1>2, <2>1, <2>3, <2>4, <3>1 DEF KeepInv, Ack!OneSlot
  <2>8. Ack!JobsLate'
    BY <1>3, <2>1, <2>3, <2>4 DEF Ack!JobsLate, Ack!Late
  <2>9. Ack!NumbersNear'
    <3> SUFFICES ASSUME NEW j \in Ack!Index, slot[j].busy PROVE Ack!NumberNear(slot[j])'
      BY <2>1 DEF Ack!NumbersNear
    <3> QED BY <1>6, <2>1 DEF Ack!NumberNear
  <2>10. \A f \in Flows : Ack!InHand(f)'
    BY <1>5, <2>1, <2>3, <2>4 DEF Ack!InHand, Ack!Has
  <2> QED BY <2>5, <2>6, <2>7, <2>8, <2>9, <2>10 DEF KeepInv
<1>14. CASE Ack!Mark(c)
  <2> DEFINE s == slot[i]
             t == [s EXCEPT !.busy = TRUE, !.flow = m.f, !.psh = FALSE, !.drop = MaxDrop,
                            !.seq = m.n % SeqMod]
             r == [pc |-> "send", msg |-> m]
  <2>1. cpu[c].pc = "mark" /\ Ack!Set(i, t) /\ Ack!CpuDo(c, r)
        /\ UNCHANGED <<pending, handler, freeIdx, enable, rx, count, newest, sent>>
    BY <1>14 DEF Ack!Mark
  <2>2. i \in Ack!Index /\ s \in Ack!SlotType /\ ~s.busy /\ s.msg = Ack!None /\ freeIdx = -1
        /\ Ack!Matches(m.f) = {}
    BY <1>0, <2>1, JobIs DEF KeepInv, Ack!FreeSlots, Ack!OneSlot, Ack!AckTypeOK
  <2>3. t \in Ack!SlotType /\ t.busy /\ t.flow = m.f /\ t.seq = m.n % SeqMod /\ t.msg = Ack!None
    <3>1. m.n % SeqMod \in Ack!SeqNos /\ MaxDrop \in Nat
      BY <1>2, SeqNo DEF Ack!TcpAckAssumption
    <3> HIDE DEF s, m
    <3> QED BY <1>2, <2>2, <3>1 DEF Ack!SlotType
  <2>4. r \in Ack!Job /\ r.pc = "send" /\ r.msg = m
    BY <1>2 DEF Ack!Job
  <2> HIDE DEF t, r, s
  <2>5. /\ slot' \in [Ack!Index -> Ack!SlotType] /\ slot'[i] = t
        /\ \A j \in Ack!Index : j # i => slot'[j] = slot[j]
    BY <1>0, <2>1, <2>2, <2>3, SlotGiven
  <2>6. cpu' \in [Cpus -> Ack!Job] /\ cpu'[c] = r
    BY <1>0, <2>1, <2>4, JobGiven
  <2>7. Ack!AckTypeOK'
    BY <1>0, <2>1, <2>5, <2>6 DEF Ack!AckTypeOK
  <2>8. Ack!FreeSlots'
    <3>1. ASSUME NEW j \in Ack!Index, ~slot'[j].busy PROVE slot'[j].msg = Ack!None
      BY <2>3, <2>5, <3>1 DEF KeepInv, Ack!FreeSlots
    <3> QED BY <2>1, <2>2, <2>4, <2>6, <3>1 DEF Ack!FreeSlots
  <2>9. Ack!OneSlot'
    <3>1. \A j \in Ack!Index : slot[j].busy => slot[j].flow # m.f
      BY <2>2 DEF Ack!Matches
    <3>2. \A j \in Ack!Index : slot'[j].busy => j = i \/ (slot[j].busy /\ slot'[j].flow = slot[j].flow)
      BY <2>5
    <3>3. \A x \in Cpus : cpu'[x].pc = "send"
      BY <2>4, <2>6
    <3>4. \A j \in Ack!Index : slot'[j].busy => slot'[j].flow \in Flows
      BY <1>2, <2>3, <2>5, <3>2 DEF KeepInv, Ack!OneSlot
    <3>5. \A j, k \in Ack!Index : slot'[j].busy /\ slot'[k].busy /\ slot'[j].flow = slot'[k].flow
                                => j = k
      BY <2>3, <2>5, <3>1, <3>2 DEF KeepInv, Ack!OneSlot
    <3> QED BY <1>2, <2>1, <3>3, <3>4, <3>5 DEF Ack!OneSlot
  <2>10. Ack!JobsLate'
    BY <1>3, <2>1, <2>4, <2>6 DEF Ack!JobsLate, Ack!Late
  <2>11. Ack!NumbersNear'
    <3> SUFFICES ASSUME NEW j \in Ack!Index, slot'[j].busy PROVE Ack!NumberNear(slot[j])'
      BY DEF Ack!NumbersNear
    <3>1. CASE j = i
      <4>1. slot'[j].flow = m.f /\ slot'[j].seq = (newest[m.f] - l) % SeqMod
        BY <1>3, <2>3, <2>5, <3>1
      <4> QED BY <1>4, <2>1, <4>1 DEF Ack!NumberNear
    <3>2. CASE j # i
      <4>1. slot'[j] = slot[j] /\ slot[j].busy
        BY <2>5, <3>2
      <4> QED BY <1>6, <2>1, <4>1 DEF Ack!NumberNear
    <3> QED BY <3>1, <3>2
  <2>12. Ack!KeptIsSlots'
    BY <2>3, <2>5 DEF KeepInv, Ack!KeptIsSlots
  <2>13. \A f \in Flows : Ack!InHand(f)'
    <3>1. \A j \in Ack!Index, f \in Flows : Ack!Has(slot[j].msg, f) => slot'[j].msg = slot[j].msg
      BY <2>2, <2>5, NoneIsNoMsg DEF Ack!Has, s
    <3> QED BY <1>5, <2>1, <2>4, <2>6, <3>1 DEF Ack!InHand, Ack!Has
  <2> QED BY <2>7, <2>8, <2>9, <2>10, <2>11, <2>12, <2>13 DEF KeepInv
<1>15. CASE Ack!Send(c)
  <2>1. cpu[c].pc = "send" /\ slot' = Ack!Moved(m) /\ Ack!Out(m) /\ Ack!CpuDo(c, Ack!Idle)
        /\ UNCHANGED <<pending, handler, freeIdx, enable, rx, count, newest>>
    BY <1>15 DEF Ack!Send
  <2>2. /\ slot' \in [Ack!Index -> Ack!SlotType] /\ sent' \in [Flows -> Nat]
        /\ \A j \in Ack!Index : Alike(slot'[j], slot[j])
        /\ sent'[m.f] >= m.n /\ \A f \in Flows : sent'[f] >= sent[f]
    <3> HIDE DEF m
    <3> QED BY <1>0, <1>2, <2>1, MovedKeeps DEF Alike
  <2>3. cpu' \in [Cpus -> Ack!Job] /\ cpu'[c] = Ack!Idle
    <3>1. Ack!Idle \in Ack!Job
      BY DEF Ack!Job
    <3> QED BY <1>0, <2>1, <3>1, JobGiven
  <2>4. Ack!AckTypeOK'
    BY <1>0, <2>1, <2>2, <2>3 DEF Ack!AckTypeOK
  <2>5. cpu'[c].pc = "idle"
    BY <2>3 DEF Ack!Idle
  <2>6. Ack!FreeSlots'
    <3>1. freeIdx # -1 => freeIdx \in Ack!Index
      BY <1>0 DEF Ack!AckTypeOK
    <3> QED BY <2>1, <2>2, <2>5, <3>1 DEF KeepInv, Ack!FreeSlots, Alike
  <2>7. Ack!OneSlot' /\ Ack!JobsLate' /\ Ack!KeptIsSlots'
    BY <2>1, <2>2, <2>5 DEF KeepInv, Ack!KeptIsSlots, Ack!OneSlot, Ack!JobsLate, Alike
  <2>8. Ack!NumbersNear'
    <3> SUFFICES ASSUME NEW j \in Ack!Index, slot'[j].busy PROVE Ack!NumberNear(slot[j])'
      BY DEF Ack!NumbersNear
    <3>1. slot[j].busy /\ slot'[j].flow = slot[j].flow /\ slot'[j].seq = slot[j].seq
      BY <2>2 DEF Alike
    <3> QED BY <1>6, <2>1, <3>1 DEF Ack!NumberNear
  <2>9. ASSUME NEW f \in Flows PROVE Ack!InHand(f)'
    <3>1. sent[f] \in Nat /\ newest[f] \in Nat /\ sent'[f] \in Nat
      BY <1>0, <2>2 DEF Ack!AckTypeOK
    <3>2. CASE Ack!Has(m, f)
      BY <2>1, <2>2, <3>2 DEF Ack!InHand, Ack!Has
    <3>3. CASE sent[f] >= newest[f]
      BY <2>1, <2>2, <3>1, <3>3 DEF Ack!InHand
    <3>4. CASE ~Ack!Has(m, f) /\ ~(sent[f] >= newest[f])
      BY <1>5, <2>1, <2>2, <3>4 DEF Ack!InHand, Ack!Has, Alike
    <3> QED BY <3>2, <3>3, <3>4
  <2> QED BY <2>4, <2>6, <2>7, <2>8, <2>9 DEF KeepInv
<1> QED BY <1>7, <1>9, <1>11, <1>12, <1>13, <1>14, <1>15 DEF Ack!Work

-----------------------------------------------------------------------------
(* A CPU transmits an acknowledgement; slots that nobody uses may be freed. *)
LEMMA XmitKeeps ==
    ASSUME Ack!TcpAckAssumption, NEW c, Cpus = {c}, KeepInv, NEW f \in Flows,
           NEW d \in Advance \cup {-l : l \in Lag}, Ack!XmitAck(c, f, d)
    PROVE  KeepInv'
<1> DEFINE given == [f |-> f, n |-> newest[f] + d, k |-> count[f] + 1]
<1>0. Ack!AckTypeOK /\ c \in Cpus /\ enable /\ cpu[c].pc = "idle"
  BY DEF KeepInv, Ack!XmitAck
<1>1. newest[f] \in Nat /\ count[f] \in Nat /\ newest[f] >= First /\ First \in Nat
      /\ d \in Int /\ (d > 0 => d \in Advance)
      /\ (d < 0 => -d \in Lag) /\ -d <= First
  <2>1. newest[f] \in Nat /\ count[f] \in Nat /\ newest[f] >= First /\ First \in Nat
    BY <1>0 DEF Ack!AckTypeOK, Ack!TcpAckAssumption
  <2>2. CASE d \in Advance
    <3>1. d \in Nat
      BY <2>2 DEF Ack!TcpAckAssumption
    <3> QED BY <2>1, <2>2, <3>1
  <2>3. CASE d \in {-l : l \in Lag}
    <3>1. PICK l \in Lag : d = -l
      BY <2>3
    <3>2. l \in 0..First
      BY DEF Ack!TcpAckAssumption
    <3>3. d \in Int /\ -d = l
      BY <2>1, <3>1, <3>2
    <3> QED BY <2>1, <3>1, <3>2, <3>3
  <2> QED BY <2>2, <2>3
<1>2. count' = [count EXCEPT ![f] = count[f] + 1]
      /\ newest' = [newest EXCEPT ![f] = Ack!MaxOf(newest[f], newest[f] + d)]
      /\ UNCHANGED <<pending, handler, enable, rx, sent>>
  BY DEF Ack!XmitAck
<1>4. PICK m \in Ack!Msgs : m = given /\ m.f = f /\ m.n = newest[f] + d
  <2>1. newest[f] + d \in Nat /\ count[f] + 1 \in Nat \ {0}
    BY <1>1
  <2>2. given \in Ack!Msgs /\ given.f = f /\ given.n = newest[f] + d
    BY <2>1 DEF Ack!Msgs
  <2> QED BY <2>2
<1>5. PICK r \in Ack!Job : r = [pc |-> "match", msg |-> m] /\ r.pc = "match" /\ r.msg = m
  <2>1. [pc |-> "match", msg |-> m] \in Ack!Job
    BY DEF Ack!Job
  <2> QED BY <2>1
<1>3. Ack!CpuDo(c, r)
  <2>1. count'[f] = count[f] + 1
    BY <1>0, <1>2 DEF Ack!AckTypeOK
  <2> QED BY <1>4, <1>5, <2>1 DEF Ack!XmitAck
<1> HIDE DEF given
<1>6. cpu' \in [Cpus -> Ack!Job] /\ cpu'[c] = r
  BY <1>0, <1>3, <1>5, JobGiven
<1>7. /\ newest' \in [Flows -> Nat] /\ count' \in [Flows -> Nat]
      /\ newest'[f] = newest[f] + (IF d >= 0 THEN d ELSE 0)
      /\ \A g \in Flows : g # f => newest'[g] = newest[g]
      /\ \A g \in Flows : newest'[g] >= First
  <2>1. Ack!MaxOf(newest[f], newest[f] + d) = newest[f] + (IF d >= 0 THEN d ELSE 0)
        /\ newest[f] + (IF d >= 0 THEN d ELSE 0) \in Nat
        /\ newest[f] + (IF d >= 0 THEN d ELSE 0) >= First
    BY <1>1 DEF Ack!MaxOf
  <2>2. newest' = [newest EXCEPT ![f] = newest[f] + (IF d >= 0 THEN d ELSE 0)]
    BY <1>2, <2>1
  <2>3. newest \in [Flows -> Nat] /\ count \in [Flows -> Nat]
        /\ \A g \in Flows : newest[g] >= First
    BY <1>0 DEF Ack!AckTypeOK
  <2> QED BY <1>1, <1>2, <2>1, <2>2, <2>3
<1>8. PICK A \in SUBSET {i \in Ack!Index : Ack!Aged(i)} : Ack!Update(A)
  BY DEF Ack!XmitAck
<1>9. ASSUME NEW i \in Ack!Index
      PROVE  /\ slot'[i] \in Ack!SlotType /\ slot'[i].flow = slot[i].flow
             /\ slot'[i].seq = slot[i].seq /\ slot'[i].msg = slot[i].msg
             /\ slot'[i].busy => slot[i].busy
             /\ i \in A => ~slot'[i].busy /\ slot'[i].msg = Ack!None
             /\ i \notin A => slot'[i] = slot[i]
  <2>1. slot[i] \in Ack!SlotType
    BY <1>0 DEF Ack!AckTypeOK
  <2>2. slot'[i] = IF i \in A THEN [slot[i] EXCEPT !.busy = FALSE] ELSE slot[i]
    BY <1>8 DEF Ack!Update
  <2>3. i \in A => slot[i].msg = Ack!None
    BY <1>8 DEF Ack!Aged
  <2> QED BY <2>1, <2>2, <2>3 DEF Ack!SlotType
<1>10. slot' \in [Ack!Index -> Ack!SlotType]
  BY <1>8, <1>9 DEF Ack!Update
<1>11. /\ freeIdx' \in Ack!Index \cup {-1}
       /\ freeIdx' # -1 => ~slot'[freeIdx'].busy
  <2>1. CASE A = {}
    <3>1. freeIdx' = freeIdx
      BY <1>8, <2>1 DEF Ack!Update
    <3> QED BY <1>0, <1>9, <3>1 DEF KeepInv, Ack!FreeSlots, Ack!AckTypeOK
  <2>2. CASE A # {}
    <3>1. freeIdx' = Ack!Least(A) /\ A \subseteq Ack!Index
      BY <1>8, <2>2 DEF Ack!Update
    <3>2. Ack!Least(A) \in A
      BY <2>2, <3>1, LeastIn
    <3> QED BY <1>9, <3>1, <3>2
  <2> QED BY <2>1, <2>2
<1>12. Ack!AckTypeOK'
  BY <1>0, <1>2, <1>6, <1>7, <1>10, <1>11 DEF Ack!AckTypeOK
<1>13. Ack!FreeSlots'
  <2>1. \A i \in Ack!Index : ~slot'[i].busy => slot'[i].msg = Ack!None
    BY <1>9 DEF KeepInv, Ack!FreeSlots
  <2> QED BY <1>5, <1>6, <1>11, <2>1 DEF Ack!FreeSlots
<1>14. Ack!OneSlot'
  <2>1. \A i \in Ack!Index : slot'[i].busy => slot[i].busy /\ slot'[i].flow = slot[i].flow
    BY <1>9
  <2> QED BY <1>0, <1>2, <1>5, <1>6, <2>1 DEF KeepInv, Ack!OneSlot
<1>15. Ack!Late(m)'
  <2>1. CASE d >= 0
    <3>1. m.n = newest'[f] - 0
      BY <1>1, <1>4, <1>7, <2>1
    <3> QED BY <1>4, <3>1 DEF Ack!Late
  <2>2. CASE d < 0
    <3>1. m.n = newest'[f] - (-d) /\ -d \in Lag
      BY <1>1, <1>4, <1>7, <2>2
    <3> QED BY <1>4, <3>1 DEF Ack!Late
  <2> QED BY <1>1, <2>1, <2>2
<1>16. Ack!JobsLate'
  BY <1>5, <1>6, <1>15 DEF Ack!JobsLate
<1>17. Ack!NumbersNear'
  <2> SUFFICES ASSUME NEW i \in Ack!Index, slot'[i].busy PROVE Ack!NumberNear(slot[i])'
    BY DEF Ack!NumbersNear
  <2>0. PICK g \in Flows : g = slot[i].flow
    BY <1>9 DEF KeepInv, Ack!OneSlot
  <2>1. slot'[i].flow = g /\ slot'[i].seq = slot[i].seq /\ slot[i].busy /\ g \in Flows
    BY <1>9, <2>0
  <2>2. PICK k \in 0..newest[g] : slot[i].seq = (newest[g] - k) % SeqMod /\ k \in Lag \cup {0}
    BY <1>0, <2>0, <2>1 DEF KeepInv, Ack!NumbersNear, Ack!NumberNear, Ack!Ahead
  <2>3. CASE newest'[g] = newest[g]
    BY <2>1, <2>2, <2>3 DEF Ack!NumberNear
  <2>4. CASE newest'[g] # newest[g]
    <3>1. g = f /\ d \in Nat /\ d \in Advance /\ newest'[f] = newest[f] + d
      BY <1>1, <1>7, <2>1, <2>4
    <3>2. k + d \in 0..newest'[f] /\ newest'[f] - (k + d) = newest[f] - k
      BY <1>1, <2>2, <3>1
    <3>3. k + d <= SeqMod \div 2
      BY <2>2, <3>1 DEF Ack!TcpAckAssumption
    <3>4. Ack!Ahead(g)'
      BY <1>4, <1>5, <1>6, <3>1 DEF Ack!Ahead, Ack!Newest
    <3> QED BY <2>1, <2>2, <3>1, <3>2, <3>3, <3>4 DEF Ack!NumberNear
  <2> QED BY <2>3, <2>4
<1>18. Ack!KeptIsSlots'
  BY <1>9 DEF KeepInv, Ack!KeptIsSlots
<1>19. ASSUME NEW g \in Flows PROVE Ack!InHand(g)'
  <2>1. CASE newest'[g] = newest[g]
    <3>1. Ack!InHand(g)
      BY <1>0 DEF KeepInv
    <3>2. ~\E x \in Cpus : cpu[x].pc # "idle"
      BY <1>0
    <3> QED BY <1>2, <1>9, <2>1, <3>1, <3>2 DEF Ack!InHand, Ack!Has
  <2>2. CASE newest'[g] # newest[g]
    <3>1. g = f /\ newest'[f] = newest[f] + d
      BY <1>1, <1>7, <2>2
    <3> QED BY <1>4, <1>5, <1>6, <3>1 DEF Ack!InHand, Ack!Has
  <2> QED BY <2>1, <2>2
<1> QED BY <1>12, <1>13, <1>14, <1>16, <1>17, <1>18, <1>19 DEF KeepInv

-----------------------------------------------------------------------------
(* TcpAck counts with the Cardinality of FiniteSets.                       *)
LEMMA AckCardinality == ASSUME NEW S PROVE Ack!Cardinality(S) = Cardinality(S)
  BY Zenon DEF Ack!Cardinality, Cardinality

(* The slots in use, and the slot that is chosen and not yet marked.       *)
Busy == {i \in Ack!Index : slot[i].busy}

(* The slots can be counted.                                               *)
LEMMA BusyFinite ==
    ASSUME Ack!TcpAckAssumption
    PROVE  IsFiniteSet(Busy) /\ Cardinality(Busy) \in Nat
<1>1. IsFiniteSet(Ack!Index)
  BY FS_Interval DEF Ack!Index, Ack!TcpAckAssumption
<1>2. Busy \in SUBSET Ack!Index
  BY DEF Busy
<1>3. IsFiniteSet(Busy)
  BY <1>1, <1>2, FS_Subset
<1> QED BY <1>3, FS_CardinalityType

(* The count is that of the slots in use and of the one chosen ...         *)
LEMMA Marking ==
    ASSUME NEW c, Cpus = {c}
    PROVE  Ack!CountExact <=> maxNum = Cardinality(Busy) + (IF cpu[c].pc = "mark" THEN 1 ELSE 0)
<1> DEFINE M == {x \in Cpus : cpu[x].pc = "mark"}
<1>1. CASE cpu[c].pc = "mark"
  <2>1. M = {c}
    BY <1>1
  <2>2. Cardinality(M) = 1
    BY <2>1, FS_Singleton
  <2> QED BY <1>1, <2>2, AckCardinality DEF Ack!CountExact, Busy
<1>2. CASE cpu[c].pc # "mark"
  <2>1. M = {}
    BY <1>2
  <2>2. Cardinality(M) = 0
    BY <2>1, FS_EmptySet
  <2> QED BY <1>2, <2>2, AckCardinality DEF Ack!CountExact, Busy
<1> QED BY <1>1, <1>2

(* ... and so it is after a step.                                          *)
LEMMA MarkingNext ==
    ASSUME NEW c, Cpus = {c}
    PROVE  Ack!CountExact' <=> maxNum' = Cardinality(Busy') + (IF cpu'[c].pc = "mark" THEN 1 ELSE 0)
<1> DEFINE M == {x \in Cpus : cpu'[x].pc = "mark"}
<1>1. CASE cpu'[c].pc = "mark"
  <2>1. M = {c}
    BY <1>1
  <2>2. Cardinality(M) = 1
    BY <2>1, FS_Singleton
  <2> QED BY <1>1, <2>2, AckCardinality DEF Ack!CountExact, Busy
<1>2. CASE cpu'[c].pc # "mark"
  <2>1. M = {}
    BY <1>2
  <2>2. Cardinality(M) = 0
    BY <2>1, FS_EmptySet
  <2> QED BY <1>2, <2>2, AckCardinality DEF Ack!CountExact, Busy
<1> QED BY <1>1, <1>2

(* A slot is counted when it is chosen and no longer when it is freed.     *)
LEMMA CountKept ==
    ASSUME Ack!TcpAckAssumption, NEW c, Cpus = {c}, Ack!AckTypeOK, Ack!FreeSlots, Ack!OneSlot, Ack!CountExact, Ack!Next
    PROVE  Ack!CountExact'
<1>0. c \in Cpus /\ IsFiniteSet(Busy) /\ Cardinality(Busy) \in Nat
      /\ maxNum = Cardinality(Busy) + (IF cpu[c].pc = "mark" THEN 1 ELSE 0)
  BY BusyFinite, Marking
<1>1. ASSUME Busy' = Busy, maxNum' = maxNum, cpu'[c].pc = "mark" <=> cpu[c].pc = "mark"
      PROVE  Ack!CountExact'
  BY <1>0, <1>1, MarkingNext
<1>2. ASSUME NEW f \in Flows, NEW d \in Advance \cup {-l : l \in Lag}, Ack!XmitAck(c, f, d)
      PROVE  Ack!CountExact'
  <2>1. PICK A \in SUBSET {i \in Ack!Index : Ack!Aged(i)} : Ack!Update(A)
    BY <1>2 DEF Ack!XmitAck
  <2>2. A \subseteq Busy
    BY DEF Ack!Aged, Busy
  <2>3. ASSUME NEW i \in Ack!Index PROVE slot'[i].busy <=> slot[i].busy /\ i \notin A
    <3>1. slot[i] \in Ack!SlotType
      BY DEF Ack!AckTypeOK
    <3>2. slot'[i] = IF i \in A THEN [slot[i] EXCEPT !.busy = FALSE] ELSE slot[i]
      BY <2>1 DEF Ack!Update
    <3> QED BY <3>1, <3>2 DEF Ack!SlotType
  <2>4. Busy' = Busy \ A /\ Busy \cap A = A
    BY <2>2, <2>3 DEF Busy
  <2>5. Cardinality(Busy') = Cardinality(Busy) - Cardinality(A)
    BY <1>0, <2>4, FS_Difference, ZenonT(60)
  <2>6. cpu[c].pc # "mark" /\ cpu'[c].pc # "mark"
    BY <1>0, <1>2 DEF Ack!XmitAck, Ack!CpuDo, Ack!AckTypeOK
  <2>7. maxNum' = maxNum - Cardinality(A)
    BY <2>1, AckCardinality DEF Ack!Update
  <2> QED BY <1>0, <2>5, <2>6, <2>7, MarkingNext
<1>3. CASE Ack!Work(c)
  <2>1. CASE Ack!Match(c)
    <3>1. cpu[c].pc # "mark" /\ cpu'[c].pc # "mark" /\ UNCHANGED <<slot, maxNum>>
      <4>1. cpu[c] = [pc |-> "match", msg |-> cpu[c].msg]
        BY <1>0, <2>1, JobIs DEF Ack!Match
      <4> QED BY <1>0, <2>1, <4>1 DEF Ack!Match, Ack!CpuDo, Ack!AckTypeOK
    <3> QED BY <1>1, <3>1 DEF Busy
  <2>2. CASE Ack!HandleDrop(c)
    <3>1. cpu[c].pc # "mark" /\ cpu'[c].pc # "mark" /\ UNCHANGED <<slot, maxNum>>
      BY <1>0, <2>2 DEF Ack!HandleDrop, Ack!CpuDo, Ack!Idle, Ack!AckTypeOK
    <3> QED BY <1>1, <3>1 DEF Busy
  <2>3. CASE Ack!HandleSend(c) \/ Ack!HandleKeep(c)
    <3>1. cpu[c].pc # "mark" /\ cpu'[c].pc # "mark" /\ UNCHANGED maxNum
      BY <1>0, <2>3 DEF Ack!HandleSend, Ack!HandleKeep, Ack!CpuDo, Ack!Idle, Ack!AckTypeOK
    <3>2. PICK i \in Ack!Index : i = cpu[c].i
      BY <1>0, <2>3, JobIs DEF Ack!HandleSend, Ack!HandleKeep
    <3>3. slot[i] \in Ack!SlotType
      BY DEF Ack!AckTypeOK
    <3>4. \A j \in Ack!Index : j # i => slot'[j] = slot[j]
      BY <2>3, <3>2 DEF Ack!HandleSend, Ack!HandleKeep, Ack!Set, Ack!AckTypeOK
    <3>5. slot'[i].busy = slot[i].busy
      <4>1. CASE Ack!HandleSend(c)
        BY <3>2, <3>3, <4>1 DEF Ack!HandleSend, Ack!Set, Ack!AckTypeOK, Ack!SlotType
      <4>2. CASE Ack!HandleKeep(c)
        BY <3>2, <3>3, <4>2 DEF Ack!HandleKeep, Ack!Set, Ack!AckTypeOK, Ack!SlotType
      <4> QED BY <2>3, <4>1, <4>2
    <3>6. Busy' = Busy
      BY <3>4, <3>5 DEF Busy
    <3> QED BY <1>1, <3>1, <3>6
  <2>4. CASE Ack!Alloc(c)
    <3>1. Busy' = Busy /\ cpu[c].pc = "alloc"
      BY <2>4 DEF Ack!Alloc, Busy
    <3>2. \/ maxNum' = maxNum + 1 /\ cpu'[c].pc = "mark"
          \/ maxNum' = maxNum /\ cpu'[c].pc = "send"
      BY <1>0, <2>4 DEF Ack!Alloc, Ack!CpuDo, Ack!AckTypeOK
    <3> QED BY <1>0, <3>1, <3>2, MarkingNext
  <2>5. CASE Ack!Mark(c)
    <3>1. cpu[c].pc = "mark" /\ cpu'[c].pc = "send" /\ maxNum' = maxNum
      BY <1>0, <2>5 DEF Ack!Mark, Ack!CpuDo, Ack!AckTypeOK
    <3>2. PICK i \in Ack!Index : i = cpu[c].i /\ ~slot[i].busy
      BY <1>0, <3>1, JobIs DEF Ack!FreeSlots
    <3>3. slot[i] \in Ack!SlotType
      BY DEF Ack!AckTypeOK
    <3>4. slot'[i].busy /\ \A j \in Ack!Index : j # i => slot'[j] = slot[j]
      BY <2>5, <3>2, <3>3 DEF Ack!Mark, Ack!Set, Ack!AckTypeOK, Ack!SlotType
    <3>5. Busy' = Busy \cup {i} /\ i \notin Busy
      BY <3>2, <3>4 DEF Busy
    <3>6. Cardinality(Busy') = Cardinality(Busy) + 1
      BY <1>0, <3>5, FS_AddElement
    <3> QED BY <1>0, <3>1, <3>6, MarkingNext
  <2>6. CASE Ack!Send(c)
    <3>1. cpu[c].pc # "mark" /\ cpu'[c].pc # "mark" /\ UNCHANGED maxNum
      BY <1>0, <2>6 DEF Ack!Send, Ack!CpuDo, Ack!Idle, Ack!AckTypeOK
    <3>2. cpu[c].msg \in Ack!Msgs
      BY <1>0, <2>6, JobIs DEF Ack!Send
    <3>3. \A j \in Ack!Index : slot'[j].busy = slot[j].busy
      BY <2>6, <3>2, MovedKeeps DEF Ack!Send
    <3>4. Busy' = Busy
      BY <3>3 DEF Busy
    <3> QED BY <1>1, <3>1, <3>4
  <2> QED BY <1>3, <2>1, <2>2, <2>3, <2>4, <2>5, <2>6 DEF Ack!Work
<1>4. ASSUME NEW i \in Ack!Index, Ack!Timer(i) PROVE Ack!CountExact'
  <2>1. UNCHANGED <<cpu, maxNum>>
    BY <1>4 DEF Ack!Timer, Ack!Expire, Ack!Timeout, Ack!TimeoutSend
  <2>2. ASSUME NEW j \in Ack!Index PROVE slot'[j].busy = slot[j].busy
    <3>1. slot[i] \in Ack!SlotType
      BY DEF Ack!AckTypeOK
    <3>2. CASE Ack!Expire(i)
      BY <3>2 DEF Ack!Expire
    <3>3. CASE Ack!Timeout(i)
      <4> DEFINE t == [slot[i] EXCEPT !.msg = Ack!None, !.drop = 0, !.inSend = slot[i].msg]
      <4>1. t.busy = slot[i].busy
        BY <3>1 DEF Ack!SlotType
      <4>2. slot' = slot \/ slot' = [slot EXCEPT ![i] = t]
        BY <3>3 DEF Ack!Timeout, Ack!Set
      <4> HIDE DEF t
      <4> QED BY <4>1, <4>2 DEF Ack!AckTypeOK
    <3>4. CASE Ack!TimeoutSend(i)
      <4>1. handler[i].msg \in Ack!Msgs
        BY <3>4 DEF Ack!TimeoutSend, Ack!AckTypeOK
      <4> QED BY <3>4, <4>1, MovedKeeps DEF Ack!TimeoutSend
    <3> QED BY <1>4, <3>2, <3>3, <3>4 DEF Ack!Timer
  <2>3. Busy' = Busy
    BY <2>2 DEF Busy
  <2> QED BY <1>1, <2>1, <2>3
<1>5. ASSUME NEW f \in Flows, NEW d \in Advance, Ack!RxPush(f, d) PROVE Ack!CountExact'
  BY <1>1, <1>5 DEF Ack!RxPush, Busy
<1>6. CASE Ack!RxSet
  <2>1. PICK i \in Ack!Index : i = rx.i
    BY <1>6 DEF Ack!RxSet, Ack!AckTypeOK, Ack!Idle
  <2>2. slot[i] \in Ack!SlotType
    BY DEF Ack!AckTypeOK
  <2>3. \A j \in Ack!Index : slot'[j].busy = slot[j].busy
    BY <1>6, <2>1, <2>2 DEF Ack!RxSet, Ack!Set, Ack!AckTypeOK, Ack!SlotType
  <2>4. Busy' = Busy
    BY <2>3 DEF Busy
  <2> QED BY <1>1, <1>6, <2>4 DEF Ack!RxSet
<1>7. CASE Ack!Deinit
  <2>1. ASSUME NEW j \in Ack!Index PROVE slot'[j].busy = slot[j].busy
    <3>1. slot[j] \in Ack!SlotType /\ slot'[j] = [slot[j] EXCEPT !.msg = Ack!None]
      BY <1>7 DEF Ack!Deinit, Ack!AckTypeOK
    <3> QED BY <3>1 DEF Ack!SlotType
  <2>2. Busy' = Busy
    BY <2>1 DEF Busy
  <2> QED BY <1>1, <1>7, <2>2 DEF Ack!Deinit
<1> QED BY <1>2, <1>3, <1>4, <1>5, <1>6, <1>7 DEF Ack!Next

-----------------------------------------------------------------------------
(* Nothing is kept and no slot is used when the filter begins.             *)
LEMMA AckInit ==
    ASSUME Ack!TcpAckAssumption, NEW c, Cpus = {c}, Ack!Init
    PROVE  Ack!AckInv
<1> DEFINE s == [busy |-> FALSE, flow |-> Ack!None.f, seq |-> 0, drop |-> 0, psh |-> FALSE,
                 pshSeq |-> 0, msg |-> Ack!None, inSend |-> Ack!None]
<1>1. s \in Ack!SlotType /\ ~s.busy /\ s.msg = Ack!None
  <2>1. 0 \in Ack!SeqNos
    BY DEF Ack!TcpAckAssumption, Ack!SeqNos
  <2> QED BY <2>1 DEF Ack!SlotType
<1>2. slot = [i \in Ack!Index |-> s]
  BY DEF Ack!Init
<1> HIDE DEF s
<1>3. \A i \in Ack!Index : slot[i] \in Ack!SlotType /\ ~slot[i].busy /\ slot[i].msg = Ack!None
  BY <1>1, <1>2
<1>4. cpu[c] = Ack!Idle /\ cpu[c].pc = "idle" /\ Ack!Idle \in Ack!Job
  BY DEF Ack!Init, Ack!Idle, Ack!Job
<1>5. Ack!AckTypeOK
  <2>1. Ack!Off \in [pc : {"off", "run"}, msg : {Ack!None}]
    BY DEF Ack!Off
  <2>2. 0 \in Ack!Index
    BY DEF Ack!Index, Ack!TcpAckAssumption
  <2>3. cpu \in [Cpus -> Ack!Job]
    BY <1>4 DEF Ack!Init
  <2>4. slot \in [Ack!Index -> Ack!SlotType]
    BY <1>1, <1>2
  <2>5. /\ pending \in [Ack!Index -> BOOLEAN] /\ handler = [i \in Ack!Index |-> Ack!Off]
        /\ freeIdx \in Ack!Index \cup {-1} /\ enable \in BOOLEAN
        /\ rx = Ack!Idle /\ count \in [Flows -> Nat]
    BY <2>2 DEF Ack!Init
  <2>6. /\ newest \in [Flows -> Nat] /\ \A f \in Flows : newest[f] >= First
        /\ sent \in [Flows -> Nat]
    BY DEF Ack!Init, Ack!TcpAckAssumption
  <2>7. handler \in [Ack!Index -> [pc : {"off", "run"}, msg : {Ack!None}] \cup [pc : {"send"}, msg : Ack!Msgs]]
    BY <2>1, <2>5
  <2> QED BY <2>3, <2>4, <2>5, <2>6, <2>7 DEF Ack!AckTypeOK
<1>6. Ack!FreeSlots /\ Ack!OneSlot /\ Ack!JobsLate /\ Ack!NumbersNear /\ Ack!KeptIsSlots
  <2>1. freeIdx \in Ack!Index
    BY DEF Ack!Init, Ack!Index, Ack!TcpAckAssumption
  <2> QED BY <1>3, <1>4, <2>1 DEF Ack!FreeSlots, Ack!OneSlot, Ack!JobsLate, Ack!NumbersNear, Ack!KeptIsSlots
<1>7. \A f \in Flows : Ack!InHand(f)
  BY DEF Ack!Init, Ack!InHand, Ack!TcpAckAssumption
<1>8. Ack!CountExact
  <2>1. Busy = {}
    BY <1>3 DEF Busy
  <2>2. Cardinality(Busy) = 0
    BY <2>1, FS_EmptySet
  <2>3. maxNum = 0
    BY DEF Ack!Init
  <2> QED BY <1>4, <2>2, <2>3, Marking
<1> QED BY <1>5, <1>6, <1>7, <1>8 DEF Ack!AckInv

(* Every step keeps the invariant.                                         *)
LEMMA AckStep ==
    ASSUME Ack!TcpAckAssumption, NEW c, Cpus = {c}, Ack!AckInv, [Ack!Next]_Ack!vars
    PROVE  Ack!AckInv'
<1>1. KeepInv /\ Ack!CountExact
  BY DEF Ack!AckInv, KeepInv
<1>2. CASE Ack!Next
  <2>1. KeepInv'
    <3>1. ASSUME NEW f \in Flows, NEW d \in Advance \cup {-l : l \in Lag}, Ack!XmitAck(c, f, d)
          PROVE  KeepInv'
      BY <1>1, <3>1, XmitKeeps
    <3>2. ASSUME Ack!Work(c) PROVE KeepInv'
      BY <1>1, <3>2, CpuSteps
    <3>3. ASSUME NEW i \in Ack!Index, Ack!Timer(i) PROVE KeepInv'
      BY <1>1, <3>3, TimerKeeps
    <3>4. ASSUME Ack!RxSet \/ Ack!Deinit \/ \E f \in Flows, d \in Advance : Ack!RxPush(f, d) PROVE KeepInv'
      BY <1>1, <3>4, RxKeeps
    <3> QED BY <1>2, <3>1, <3>2, <3>3, <3>4 DEF Ack!Next
  <2>2. Ack!CountExact'
    BY <1>1, <1>2, CountKept DEF KeepInv
  <2> QED BY <2>1, <2>2 DEF KeepInv, Ack!AckInv
<1>3. CASE UNCHANGED Ack!vars
  BY <1>3 DEF Ack!vars, Ack!AckInv, Ack!AckTypeOK, Ack!FreeSlots, Ack!OneSlot, Ack!Matches, Ack!JobsLate, Ack!Late, Ack!NumbersNear,
              Ack!NumberNear, Ack!Ahead, Ack!Newest, Ack!KeptIsSlots, Ack!InHand, Ack!Has, Ack!CountExact
<1> QED BY <1>2, <1>3

(* What somebody has in hand is kept.                                      *)
LEMMA InHandIsKept == ASSUME Ack!AckInv PROVE Ack!NewestKept /\ Ack!CountExact
<1> SUFFICES ASSUME enable, NEW f \in Flows, ~(sent[f] >= newest[f])
             PROVE  \E m \in Ack!Kept : m.f = f /\ m.n = newest[f]
  BY DEF Ack!NewestKept, Ack!AckInv
<1>1. Ack!InHand(f)
  BY DEF Ack!AckInv
<1> QED BY <1>1 DEF Ack!InHand, Ack!Has, Ack!Kept

(* With one transmitting CPU, and numbers as far apart as TCP's window     *)
(* lets them be, the filter drops no acknowledgement that nothing newer    *)
(* stands for, although numbers wrap and timers, transmissions and pushed  *)
(* segments interleave, and its count of slots in use does not drift       *)
(* (aicwf_tcp_ack.c: filter_send_tcp_ack, tcp_ack_timeout).                *)
THEOREM FilterKept ==
    ASSUME NEW c, Cpus = {c}
    PROVE  MCSpec => []FilterKeeps
<1>0. Ack!TcpAckAssumption
  BY AckAssumption
<1>1. MCInit => Ack!AckInv
  BY <1>0, AckInit DEF MCInit
<1>2. Ack!AckInv /\ [MCNext]_allVars => Ack!AckInv'
  <2> SUFFICES ASSUME Ack!AckInv, [MCNext]_allVars PROVE Ack!AckInv'
    OBVIOUS
  <2>1. [Ack!Next]_Ack!vars
    BY DEF MCNext, allVars, ackVars, Filter, Ack!vars
  <2> QED BY <1>0, <2>1, AckStep
<1>3. Ack!AckInv => FilterKeeps
  BY InHandIsKept DEF FilterKeeps
<1> QED BY <1>1, <1>2, <1>3, PTL DEF MCSpec
=============================================================================
