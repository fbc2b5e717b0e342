------------------------------ MODULE RxProofs ------------------------------
(***************************************************************************)
(* Proofs about the USB receive path (UsbRx), for any number of URBs,      *)
(* buffers and frames, any length of the queue, with and without           *)
(* aggregation; and about the message pipe and its confirmations (MsgRx)   *)
(* and the data handler (RxData), as the receive run instantiates them.    *)
(***************************************************************************)
EXTENDS MCRx, TLAPS

-----------------------------------------------------------------------------
(* The USB receive path: RxInv is inductive.                               *)

(* After the probe has set up the lists all is idle.                       *)
THEOREM InitRxInv == Init => RxInv
<1> SUFFICES ASSUME Init PROVE RxInv
  OBVIOUS
<1> USE RxAssumption DEF Init, Submitters, One
<1>f. FlagsOK
  BY Zenon DEF FlagsOK
<1>1. TypeOK /\ RxPhase
  BY <1>f DEF TypeOK, RxPhase, HandlerPC, SubmitPC, ThreadPC, PowerPC
<1>2. RxConserved /\ CountMatches
  BY DEF RxConserved, CountMatches, HandlerBuffs, HandlerUrbs, SubmitBuffs,
     SubmitUrbs, ThreadBuffs
<1>3. IdleThread /\ RxListens
  BY DEF IdleThread, RxListens
<1> QED
  BY <1>1, <1>2, <1>3 DEF RxInv

(* Every step of the handler, the submissions, the thread and the power    *)
(* management keeps the invariant.                                         *)
THEOREM NextRxInv == RxInv /\ [Next]_vars => RxInv'
<1> SUFFICES ASSUME RxInv, [Next]_vars PROVE RxInv'
  OBVIOUS
<1> USE RxAssumption
<1> USE DEF vars, urbVars, queueVars, refillVars, handlerVars, powerVars, ghosts,
            Goto, Submitters, RxInv, TypeOK, HandlerPC, SubmitPC, ThreadPC,
            PowerPC, RxPhase
<1>1. ASSUME NEW k \in {"frame", "empty", "error"}, RxComplete(k) PROVE RxInv'
  <2>1. TypeOK'
    BY <1>1 DEF RxComplete, Resubmits, FlagsOK
  <2>p. RxPhase'
    <3>1. (hpc # "idle" /\ ~again => trouble)'
      BY <1>1, Zenon DEF RxComplete
    <3>2. \A y \in Submitters : spc[y] \in {"dry", "flag", "putback"} => trouble'
      BY <1>1, Zenon DEF RxComplete
    <3> QED
      BY <1>1, <3>1, <3>2 DEF RxComplete
  <2>2. RxConserved'
    BY <1>1 DEF RxComplete, Resubmits, RxConserved, One, HandlerBuffs,
       HandlerUrbs, SubmitBuffs, SubmitUrbs, ThreadBuffs
  <2>3. (CountMatches /\ IdleThread)'
    BY <1>1 DEF RxComplete, Resubmits, CountMatches, IdleThread, One
  <2>4. RxListens'
    BY <1>1 DEF RxComplete, Resubmits, RxListens
  <2> QED
    BY <2>1, <2>p, <2>2, <2>3, <2>4
<1>2. ASSUME RxEnqueue PROVE RxInv'
  <2>1. TypeOK'
    BY <1>2 DEF RxEnqueue, FlagsOK
  <2>p. RxPhase'
    BY <1>2 DEF RxEnqueue
  <2>2. RxConserved'
    <3> USE DEF RxEnqueue, RxConserved, One, HandlerBuffs, HandlerUrbs,
                SubmitBuffs, SubmitUrbs, ThreadBuffs
    <3>1. CASE rxq < QMax
      BY <1>2, <3>1
    <3>2. CASE ~(rxq < QMax)
      BY <1>2, <3>2
    <3> QED
      BY <3>1, <3>2
  <2>3. (CountMatches /\ IdleThread)'
    BY <1>2 DEF RxEnqueue, CountMatches, IdleThread, One
  <2>4. RxListens'
    BY <1>2 DEF RxEnqueue, RxListens
  <2> QED
    BY <2>1, <2>p, <2>2, <2>3, <2>4
<1>3. ASSUME RxCount PROVE RxInv'
  <2>1. TypeOK'
    BY <1>3 DEF RxCount, FlagsOK
  <2>p. RxPhase'
    BY <1>3 DEF RxCount
  <2>2. RxConserved'
    BY <1>3 DEF RxCount, RxConserved, One, HandlerBuffs,
       HandlerUrbs, SubmitBuffs, SubmitUrbs, ThreadBuffs
  <2>3. (CountMatches /\ IdleThread)'
    BY <1>3 DEF RxCount, CountMatches, IdleThread, One
  <2>4. RxListens'
    BY <1>3 DEF RxCount, RxListens
  <2> QED
    BY <2>1, <2>p, <2>2, <2>3, <2>4
<1>4. ASSUME RxTrigger PROVE RxInv'
  <2>1. TypeOK'
    BY <1>4 DEF RxTrigger, TriggerDue, FlagsOK
  <2>p. RxPhase'
    BY <1>4 DEF RxTrigger, TriggerDue
  <2>2. RxConserved'
    BY <1>4 DEF RxTrigger, TriggerDue, RxConserved, One, HandlerBuffs,
       HandlerUrbs, SubmitBuffs, SubmitUrbs, ThreadBuffs
  <2>3. (CountMatches /\ IdleThread)'
    BY <1>4 DEF RxTrigger, TriggerDue, CountMatches, IdleThread, One
  <2>4. RxListens'
    BY <1>4 DEF RxTrigger, TriggerDue, RxListens
  <2> QED
    BY <2>1, <2>p, <2>2, <2>3, <2>4
<1>5. ASSUME RxFree PROVE RxInv'
  <2>1. TypeOK'
    BY <1>5 DEF RxFree, FlagsOK
  <2>p. RxPhase'
    BY <1>5 DEF RxFree
  <2>2. RxConserved'
    BY <1>5 DEF RxFree, RxConserved, One, HandlerBuffs,
       HandlerUrbs, SubmitBuffs, SubmitUrbs, ThreadBuffs
  <2>3. (CountMatches /\ IdleThread)'
    BY <1>5 DEF RxFree, CountMatches, IdleThread, One
  <2>4. RxListens'
    BY <1>5 DEF RxFree, RxListens
  <2> QED
    BY <2>1, <2>p, <2>2, <2>3, <2>4
<1>6. ASSUME RxPut PROVE RxInv'
  <2>1. TypeOK'
    BY <1>6 DEF RxPut, FlagsOK
  <2>p. RxPhase'
    BY <1>6 DEF RxPut
  <2>2. RxConserved'
    BY <1>6 DEF RxPut, RxConserved, One, HandlerBuffs,
       HandlerUrbs, SubmitBuffs, SubmitUrbs, ThreadBuffs
  <2>3. (CountMatches /\ IdleThread)'
    BY <1>6 DEF RxPut, CountMatches, IdleThread, One
  <2>4. RxListens'
    BY <1>6 DEF RxPut, RxListens
  <2> QED
    BY <2>1, <2>p, <2>2, <2>3, <2>4
<1>7. ASSUME NEW x \in Submitters, SubmitCheck(x) PROVE RxInv'
  <2>1. TypeOK'
    BY <1>7 DEF SubmitCheck, FlagsOK
  <2>p. RxPhase'
    BY <1>7 DEF SubmitCheck
  <2>2. RxConserved'
    BY <1>7 DEF SubmitCheck, RxConserved, One, HandlerBuffs,
       HandlerUrbs, SubmitBuffs, SubmitUrbs, ThreadBuffs
  <2>3. (CountMatches /\ IdleThread)'
    BY <1>7 DEF SubmitCheck, CountMatches, IdleThread, One
  <2>4. RxListens'
    BY <1>7 DEF SubmitCheck, RxListens
  <2> QED
    BY <2>1, <2>p, <2>2, <2>3, <2>4
<1>8. ASSUME NEW x \in Submitters, SubmitGet(x) PROVE RxInv'
  <2>f. FlagsOK'
    BY <1>8, Zenon DEF SubmitGet, FlagsOK
  <2>1. TypeOK'
    BY <1>8, <2>f DEF SubmitGet
  <2>p. RxPhase'
    BY <1>8 DEF SubmitGet
  <2>2. RxConserved'
    BY <1>8 DEF SubmitGet, RxConserved, One, HandlerBuffs,
       HandlerUrbs, SubmitBuffs, SubmitUrbs, ThreadBuffs
  <2>3. (CountMatches /\ IdleThread)'
    BY <1>8 DEF SubmitGet, CountMatches, IdleThread, One
  <2>4. RxListens'
    BY <1>8 DEF SubmitGet, RxListens
  <2> QED
    BY <2>1, <2>p, <2>2, <2>3, <2>4
<1>9. ASSUME NEW x \in Submitters, SubmitTest(x) PROVE RxInv'
  <2>f. FlagsOK'
    BY <1>9, Zenon DEF SubmitTest, FlagsOK
  <2>1. TypeOK'
    BY <1>9, <2>f DEF SubmitTest
  <2>p. RxPhase'
    BY <1>9 DEF SubmitTest
  <2>2. RxConserved'
    BY <1>9 DEF SubmitTest, RxConserved, One, HandlerBuffs,
       HandlerUrbs, SubmitBuffs, SubmitUrbs, ThreadBuffs
  <2>3. (CountMatches /\ IdleThread)'
    BY <1>9 DEF SubmitTest, CountMatches, IdleThread, One
  <2>4. RxListens'
    BY <1>9 DEF SubmitTest, RxListens
  <2> QED
    BY <2>1, <2>p, <2>2, <2>3, <2>4
<1>10. ASSUME NEW x \in Submitters, SubmitAlloc(x) PROVE RxInv'
  <2>f. FlagsOK'
    BY <1>10, Zenon DEF SubmitAlloc, UseRxPriv, RxPrivGone, FlagsOK
  <2>1. TypeOK'
    BY <1>10, <2>f DEF SubmitAlloc, UseRxPriv, RxPrivGone
  <2>p. RxPhase'
    BY <1>10 DEF SubmitAlloc, UseRxPriv, RxPrivGone
  <2>2. RxConserved'
    BY <1>10 DEF SubmitAlloc, UseRxPriv, RxPrivGone, RxConserved, One, HandlerBuffs,
       HandlerUrbs, SubmitBuffs, SubmitUrbs, ThreadBuffs
  <2>3. (CountMatches /\ IdleThread)'
    BY <1>10 DEF SubmitAlloc, UseRxPriv, RxPrivGone, CountMatches, IdleThread, One
  <2>4. RxListens'
    BY <1>10 DEF SubmitAlloc, UseRxPriv, RxPrivGone, RxListens
  <2> QED
    BY <2>1, <2>p, <2>2, <2>3, <2>4
<1>11. ASSUME NEW x \in Submitters, SubmitDry(x) PROVE RxInv'
  <2>1. TypeOK'
    BY <1>11 DEF SubmitDry, FlagsOK
  <2>p. RxPhase'
    BY <1>11 DEF SubmitDry
  <2>2. RxConserved'
    BY <1>11 DEF SubmitDry, RxConserved, One, HandlerBuffs,
       HandlerUrbs, SubmitBuffs, SubmitUrbs, ThreadBuffs
  <2>3. (CountMatches /\ IdleThread)'
    BY <1>11 DEF SubmitDry, CountMatches, IdleThread, One
  <2>4. RxListens'
    BY <1>11 DEF SubmitDry, RxListens
  <2> QED
    BY <2>1, <2>p, <2>2, <2>3, <2>4
<1>12. ASSUME NEW x \in Submitters, SubmitFlag(x) PROVE RxInv'
  <2>1. TypeOK'
    BY <1>12 DEF SubmitFlag, FlagsOK
  <2>p. RxPhase'
    BY <1>12 DEF SubmitFlag
  <2>2. RxConserved'
    BY <1>12 DEF SubmitFlag, RxConserved, One, HandlerBuffs,
       HandlerUrbs, SubmitBuffs, SubmitUrbs, ThreadBuffs
  <2>3. (CountMatches /\ IdleThread)'
    BY <1>12 DEF SubmitFlag, CountMatches, IdleThread, One
  <2>4. RxListens'
    BY <1>12 DEF SubmitFlag, RxListens
  <2> QED
    BY <2>1, <2>p, <2>2, <2>3, <2>4
<1>13. ASSUME NEW x \in Submitters, Submitted(x) PROVE RxInv'
  <2>1. TypeOK'
    BY <1>13 DEF Submitted, Connected, FlagsOK
  <2>p. RxPhase'
    BY <1>13 DEF Submitted, Connected
  <2>2. RxConserved'
    BY <1>13 DEF Submitted, Connected, RxConserved, One, HandlerBuffs,
       HandlerUrbs, SubmitBuffs, SubmitUrbs, ThreadBuffs
  <2>3. (CountMatches /\ IdleThread)'
    BY <1>13 DEF Submitted, Connected, CountMatches, IdleThread, One
  <2>4. RxListens'
    BY <1>13 DEF Submitted, Connected, RxListens
  <2> QED
    BY <2>1, <2>p, <2>2, <2>3, <2>4
<1>14. ASSUME NEW x \in Submitters, SubmitFails(x) PROVE RxInv'
  <2>1. TypeOK'
    BY <1>14 DEF SubmitFails, UseRxPriv, RxPrivGone, FlagsOK
  <2>p. RxPhase'
    BY <1>14 DEF SubmitFails, UseRxPriv, RxPrivGone
  <2>2. RxConserved'
    BY <1>14 DEF SubmitFails, UseRxPriv, RxPrivGone, RxConserved, One, HandlerBuffs,
       HandlerUrbs, SubmitBuffs, SubmitUrbs, ThreadBuffs
  <2>3. (CountMatches /\ IdleThread)'
    BY <1>14 DEF SubmitFails, UseRxPriv, RxPrivGone, CountMatches, IdleThread, One
  <2>4. RxListens'
    BY <1>14 DEF SubmitFails, UseRxPriv, RxPrivGone, RxListens
  <2> QED
    BY <2>1, <2>p, <2>2, <2>3, <2>4
<1>15. ASSUME NEW x \in Submitters, SubmitPutBack(x) PROVE RxInv'
  <2>1. TypeOK'
    BY <1>15 DEF SubmitPutBack, FlagsOK
  <2>p. RxPhase'
    BY <1>15 DEF SubmitPutBack
  <2>2. RxConserved'
    BY <1>15 DEF SubmitPutBack, RxConserved, One, HandlerBuffs,
       HandlerUrbs, SubmitBuffs, SubmitUrbs, ThreadBuffs
  <2>3. (CountMatches /\ IdleThread)'
    BY <1>15 DEF SubmitPutBack, CountMatches, IdleThread, One
  <2>4. RxListens'
    BY <1>15 DEF SubmitPutBack, RxListens
  <2> QED
    BY <2>1, <2>p, <2>2, <2>3, <2>4
<1>16. ASSUME WorkRun PROVE RxInv'
  <2>f. FlagsOK'
    BY <1>16, Zenon DEF WorkRun, FlagsOK
  <2>1. TypeOK'
    BY <1>16, <2>f DEF WorkRun
  <2>p. RxPhase'
    BY <1>16 DEF WorkRun
  <2>2. RxConserved'
    BY <1>16 DEF WorkRun, RxConserved, One, HandlerBuffs,
       HandlerUrbs, SubmitBuffs, SubmitUrbs, ThreadBuffs
  <2>3. (CountMatches /\ IdleThread)'
    BY <1>16 DEF WorkRun, CountMatches, IdleThread, One
  <2>4. RxListens'
    BY <1>16 DEF WorkRun, RxListens
  <2> QED
    BY <2>1, <2>p, <2>2, <2>3, <2>4
<1>17. ASSUME ThreadWake PROVE RxInv'
  <2>1. TypeOK'
    BY <1>17 DEF ThreadWake, FlagsOK
  <2>p. RxPhase'
    BY <1>17 DEF ThreadWake
  <2>2. RxConserved'
    BY <1>17 DEF ThreadWake, RxConserved, One, HandlerBuffs,
       HandlerUrbs, SubmitBuffs, SubmitUrbs, ThreadBuffs
  <2>3. (CountMatches /\ IdleThread)'
    BY <1>17 DEF ThreadWake, CountMatches, IdleThread, One
  <2>4. RxListens'
    BY <1>17 DEF ThreadWake, RxListens
  <2> QED
    BY <2>1, <2>p, <2>2, <2>3, <2>4
<1>18. ASSUME ThreadDequeue PROVE RxInv'
  <2>1. TypeOK'
    BY <1>18 DEF ThreadDequeue, FlagsOK
  <2>p. RxPhase'
    BY <1>18 DEF ThreadDequeue
  <2>2. RxConserved'
    BY <1>18 DEF ThreadDequeue, RxConserved, One, HandlerBuffs,
       HandlerUrbs, SubmitBuffs, SubmitUrbs, ThreadBuffs
  <2>3. (CountMatches /\ IdleThread)'
    BY <1>18 DEF ThreadDequeue, CountMatches, IdleThread, One
  <2>4. RxListens'
    BY <1>18 DEF ThreadDequeue, RxListens
  <2> QED
    BY <2>1, <2>p, <2>2, <2>3, <2>4
<1>19. ASSUME ThreadProcess PROVE RxInv'
  <2>1. TypeOK'
    BY <1>19 DEF ThreadProcess, FlagsOK
  <2>p. RxPhase'
    BY <1>19 DEF ThreadProcess
  <2>2. RxConserved'
    BY <1>19 DEF ThreadProcess, RxConserved, One, HandlerBuffs,
       HandlerUrbs, SubmitBuffs, SubmitUrbs, ThreadBuffs
  <2>3. (CountMatches /\ IdleThread)'
    BY <1>19 DEF ThreadProcess, CountMatches, IdleThread, One
  <2>4. RxListens'
    BY <1>19 DEF ThreadProcess, RxListens
  <2> QED
    BY <2>1, <2>p, <2>2, <2>3, <2>4
<1>20. ASSUME ThreadDrop PROVE RxInv'
  <2>1. TypeOK'
    BY <1>20 DEF ThreadDrop, FlagsOK
  <2>p. RxPhase'
    BY <1>20 DEF ThreadDrop
  <2>2. RxConserved'
    BY <1>20 DEF ThreadDrop, RxConserved, One, HandlerBuffs,
       HandlerUrbs, SubmitBuffs, SubmitUrbs, ThreadBuffs
  <2>3. (CountMatches /\ IdleThread)'
    BY <1>20 DEF ThreadDrop, CountMatches, IdleThread, One
  <2>4. RxListens'
    BY <1>20 DEF ThreadDrop, RxListens
  <2> QED
    BY <2>1, <2>p, <2>2, <2>3, <2>4
<1>21. ASSUME ThreadDropped PROVE RxInv'
  <2>1. TypeOK'
    BY <1>21 DEF ThreadDropped, FlagsOK
  <2>p. RxPhase'
    BY <1>21 DEF ThreadDropped
  <2>2. RxConserved'
    BY <1>21 DEF ThreadDropped, RxConserved, One, HandlerBuffs,
       HandlerUrbs, SubmitBuffs, SubmitUrbs, ThreadBuffs
  <2>3. (CountMatches /\ IdleThread)'
    BY <1>21 DEF ThreadDropped, CountMatches, IdleThread, One
  <2>4. RxListens'
    BY <1>21 DEF ThreadDropped, RxListens
  <2> QED
    BY <2>1, <2>p, <2>2, <2>3, <2>4
<1>22. ASSUME ThreadNoMem PROVE RxInv'
  <2>1. TypeOK'
    BY <1>22 DEF ThreadNoMem, FlagsOK
  <2>p. RxPhase'
    BY <1>22 DEF ThreadNoMem
  <2>2. RxConserved'
    BY <1>22 DEF ThreadNoMem, RxConserved, One, HandlerBuffs,
       HandlerUrbs, SubmitBuffs, SubmitUrbs, ThreadBuffs
  <2>3. (CountMatches /\ IdleThread)'
    BY <1>22 DEF ThreadNoMem, CountMatches, IdleThread, One
  <2>4. RxListens'
    BY <1>22 DEF ThreadNoMem, RxListens
  <2> QED
    BY <2>1, <2>p, <2>2, <2>3, <2>4
<1>23. ASSUME ThreadRefill PROVE RxInv'
  <2>1. TypeOK'
    BY <1>23 DEF ThreadRefill, FlagsOK
  <2>p. RxPhase'
    BY <1>23 DEF ThreadRefill
  <2>2. RxConserved'
    BY <1>23 DEF ThreadRefill, RxConserved, One, HandlerBuffs,
       HandlerUrbs, SubmitBuffs, SubmitUrbs, ThreadBuffs
  <2>3. (CountMatches /\ IdleThread)'
    BY <1>23 DEF ThreadRefill, CountMatches, IdleThread, One
  <2>4. RxListens'
    BY <1>23 DEF ThreadRefill, RxListens
  <2> QED
    BY <2>1, <2>p, <2>2, <2>3, <2>4
<1>24. ASSUME ThreadClear PROVE RxInv'
  <2>f. FlagsOK'
    BY <1>24, Zenon DEF ThreadClear, FlagsOK
  <2>1. TypeOK'
    BY <1>24, <2>f DEF ThreadClear
  <2>p. RxPhase'
    BY <1>24 DEF ThreadClear
  <2>2. RxConserved'
    BY <1>24 DEF ThreadClear, RxConserved, One, HandlerBuffs,
       HandlerUrbs, SubmitBuffs, SubmitUrbs, ThreadBuffs
  <2>3. (CountMatches /\ IdleThread)'
    BY <1>24 DEF ThreadClear, CountMatches, IdleThread, One
  <2>4. RxListens'
    BY <1>24 DEF ThreadClear, RxListens
  <2> QED
    BY <2>1, <2>p, <2>2, <2>3, <2>4
<1>25. ASSUME ThreadDec PROVE RxInv'
  <2>1. TypeOK'
    BY <1>25 DEF ThreadDec, FlagsOK
  <2>p. RxPhase'
    BY <1>25 DEF ThreadDec
  <2>2. RxConserved'
    BY <1>25 DEF ThreadDec, RxConserved, One, HandlerBuffs,
       HandlerUrbs, SubmitBuffs, SubmitUrbs, ThreadBuffs
  <2>3. (CountMatches /\ IdleThread)'
    BY <1>25 DEF ThreadDec, CountMatches, IdleThread, One
  <2>4. RxListens'
    BY <1>25 DEF ThreadDec, RxListens
  <2> QED
    BY <2>1, <2>p, <2>2, <2>3, <2>4
<1>26. ASSUME BusStart PROVE RxInv'
  <2>f. FlagsOK'
    BY <1>26, Zenon DEF BusStart, AllIdle, FlagsOK
  <2>1. TypeOK'
    BY <1>26, <2>f DEF BusStart, AllIdle
  <2>p. RxPhase'
    BY <1>26 DEF BusStart, AllIdle
  <2>2. RxConserved'
    BY <1>26 DEF BusStart, AllIdle, RxConserved, One, HandlerBuffs,
       HandlerUrbs, SubmitBuffs, SubmitUrbs, ThreadBuffs
  <2>3. (CountMatches /\ IdleThread)'
    BY <1>26 DEF BusStart, AllIdle, CountMatches, IdleThread, One
  <2>4. RxListens'
    BY <1>26 DEF BusStart, AllIdle, RxListens
  <2> QED
    BY <2>1, <2>p, <2>2, <2>3, <2>4
<1>27. ASSUME BusStarted PROVE RxInv'
  <2>1. TypeOK'
    BY <1>27 DEF BusStarted, FlagsOK
  <2>p. RxPhase'
    BY <1>27 DEF BusStarted
  <2>2. RxConserved'
    BY <1>27 DEF BusStarted, RxConserved, One, HandlerBuffs,
       HandlerUrbs, SubmitBuffs, SubmitUrbs, ThreadBuffs
  <2>3. (CountMatches /\ IdleThread)'
    BY <1>27 DEF BusStarted, CountMatches, IdleThread, One
  <2>4. RxListens'
    BY <1>27 DEF BusStarted, RxListens
  <2> QED
    BY <2>1, <2>p, <2>2, <2>3, <2>4
<1>28. ASSUME PlatformInit PROVE RxInv'
  <2>1. TypeOK'
    BY <1>28 DEF PlatformInit, FlagsOK
  <2>p. RxPhase'
    BY <1>28 DEF PlatformInit
  <2>2. RxConserved'
    BY <1>28 DEF PlatformInit, RxConserved, One, HandlerBuffs,
       HandlerUrbs, SubmitBuffs, SubmitUrbs, ThreadBuffs
  <2>3. (CountMatches /\ IdleThread)'
    BY <1>28 DEF PlatformInit, CountMatches, IdleThread, One
  <2>4. RxListens'
    BY <1>28 DEF PlatformInit, RxListens
  <2> QED
    BY <2>1, <2>p, <2>2, <2>3, <2>4
<1>29. ASSUME SuspendSleep PROVE RxInv'
  <2>1. TypeOK'
    BY <1>29 DEF SuspendSleep, FlagsOK
  <2>p. RxPhase'
    BY <1>29 DEF SuspendSleep
  <2>2. RxConserved'
    BY <1>29 DEF SuspendSleep, RxConserved, One, HandlerBuffs,
       HandlerUrbs, SubmitBuffs, SubmitUrbs, ThreadBuffs
  <2>3. (CountMatches /\ IdleThread)'
    BY <1>29 DEF SuspendSleep, CountMatches, IdleThread, One
  <2>4. RxListens'
    BY <1>29 DEF SuspendSleep, RxListens
  <2> QED
    BY <2>1, <2>p, <2>2, <2>3, <2>4
<1>30. ASSUME SuspendStop PROVE RxInv'
  <2>1. TypeOK'
    BY <1>30 DEF SuspendStop, FlagsOK
  <2>p. RxPhase'
    BY <1>30 DEF SuspendStop
  <2>2. RxConserved'
    BY <1>30 DEF SuspendStop, RxConserved, One, HandlerBuffs,
       HandlerUrbs, SubmitBuffs, SubmitUrbs, ThreadBuffs
  <2>3. (CountMatches /\ IdleThread)'
    BY <1>30 DEF SuspendStop, CountMatches, IdleThread, One
  <2>4. RxListens'
    BY <1>30 DEF SuspendStop, RxListens
  <2> QED
    BY <2>1, <2>p, <2>2, <2>3, <2>4
<1>31. ASSUME Disconnect PROVE RxInv'
  <2>1. TypeOK'
    BY <1>31 DEF Disconnect, FlagsOK
  <2>p. RxPhase'
    BY <1>31 DEF Disconnect
  <2>2. RxConserved'
    BY <1>31 DEF Disconnect, RxConserved, One, HandlerBuffs,
       HandlerUrbs, SubmitBuffs, SubmitUrbs, ThreadBuffs
  <2>3. (CountMatches /\ IdleThread)'
    BY <1>31 DEF Disconnect, CountMatches, IdleThread, One
  <2>4. RxListens'
    BY <1>31 DEF Disconnect, RxListens
  <2> QED
    BY <2>1, <2>p, <2>2, <2>3, <2>4
<1>32. ASSUME KillUrbs PROVE RxInv'
  <2>1. TypeOK'
    BY <1>32 DEF KillUrbs, FlagsOK
  <2>p. RxPhase'
    BY <1>32 DEF KillUrbs
  <2>2. RxConserved'
    BY <1>32 DEF KillUrbs, RxConserved, One, HandlerBuffs,
       HandlerUrbs, SubmitBuffs, SubmitUrbs, ThreadBuffs
  <2>3. (CountMatches /\ IdleThread)'
    BY <1>32 DEF KillUrbs, CountMatches, IdleThread, One
  <2>4. RxListens'
    BY <1>32 DEF KillUrbs, RxListens
  <2> QED
    BY <2>1, <2>p, <2>2, <2>3, <2>4
<1>33. ASSUME StopThread PROVE RxInv'
  <2>1. TypeOK'
    BY <1>33 DEF StopThread, FlagsOK
  <2>p. RxPhase'
    BY <1>33 DEF StopThread
  <2>2. RxConserved'
    BY <1>33 DEF StopThread, RxConserved, One, HandlerBuffs,
       HandlerUrbs, SubmitBuffs, SubmitUrbs, ThreadBuffs
  <2>3. (CountMatches /\ IdleThread)'
    BY <1>33 DEF StopThread, CountMatches, IdleThread, One
  <2>4. RxListens'
    BY <1>33 DEF StopThread, RxListens
  <2> QED
    BY <2>1, <2>p, <2>2, <2>3, <2>4
<1>34. ASSUME FlushQueue PROVE RxInv'
  <2>1. TypeOK'
    BY <1>34 DEF FlushQueue, FlagsOK
  <2>p. RxPhase'
    BY <1>34 DEF FlushQueue
  <2>2. RxConserved'
    BY <1>34 DEF FlushQueue, RxConserved, One, HandlerBuffs,
       HandlerUrbs, SubmitBuffs, SubmitUrbs, ThreadBuffs
  <2>3. (CountMatches /\ IdleThread)'
    BY <1>34 DEF FlushQueue, CountMatches, IdleThread, One
  <2>4. RxListens'
    BY <1>34 DEF FlushQueue, RxListens
  <2> QED
    BY <2>1, <2>p, <2>2, <2>3, <2>4
<1>35. ASSUME UsbDeinit PROVE RxInv'
  <2>1. TypeOK'
    BY <1>35, ZenonT(60) DEF UsbDeinit, FlagsOK
  <2>p. RxPhase'
    BY <1>35 DEF UsbDeinit
  <2>2. RxConserved'
    BY <1>35 DEF UsbDeinit, RxConserved, One, HandlerBuffs,
       HandlerUrbs, SubmitBuffs, SubmitUrbs, ThreadBuffs
  <2>3. (CountMatches /\ IdleThread)'
    BY <1>35 DEF UsbDeinit, CountMatches, IdleThread, One
  <2>4. RxListens'
    BY <1>35 DEF UsbDeinit, RxListens
  <2> QED
    BY <2>1, <2>p, <2>2, <2>3, <2>4
<1>36. CASE UNCHANGED vars
  BY <1>36 DEF RxConserved, CountMatches, IdleThread, RxListens, One,
     HandlerBuffs, HandlerUrbs, SubmitBuffs, SubmitUrbs, ThreadBuffs, FlagsOK
<1> QED
  BY <1>1, <1>2, <1>3, <1>4, <1>5, <1>6, <1>7, <1>8, <1>9, <1>10,
     <1>11, <1>12, <1>13, <1>14, <1>15, <1>16, <1>17, <1>18, <1>19, <1>20,
     <1>21, <1>22, <1>23, <1>24, <1>25, <1>26, <1>27, <1>28, <1>29, <1>30,
     <1>31, <1>32, <1>33, <1>34, <1>35, <1>36
     DEF Next, HandlerStep, SubmitStep, ThreadStep, PowerStep

(* RxInv holds in every state of the receive path.                         *)
THEOREM SpecRxInv == Spec => []RxInv
  BY InitRxInv, NextRxInv, PTL DEF Spec

(* Type correctness of the receive path.                                   *)
THEOREM RxTypeCorrect == Spec => []TypeOK
<1>1. RxInv => TypeOK
  BY DEF RxInv
<1> QED
  BY <1>1, SpecRxInv, PTL

(* No URB and no receive buffer is lost, and a disconnect leaves the pool  *)
(* of the loader complete.                                                 *)
THEOREM RxBuffersSound == Spec => []RxConserved
<1>1. RxInv => RxConserved
  BY DEF RxInv
<1> QED
  BY <1>1, SpecRxInv, PTL

(* The counter and the trigger it decides on are right: the busrx thread   *)
(* never sleeps on a frame, but for the two early returns.                 *)
THEOREM RxNoLostTrigger == Spec => [](CountMatches /\ RxTriggerPending)
<1>1. RxInv => CountMatches /\ RxTriggerPending
  BY DEF RxInv, TypeOK, RxPhase, CountMatches, IdleThread, RxTriggerPending,
     FlagsOK, One
<1> QED
  BY <1>1, SpecRxInv, PTL

(* While the bus is up and no path gives a URB up, every idle URB is about *)
(* to be submitted.                                                        *)
THEOREM RxKeepsListening == Spec => []RxListens
<1>1. RxInv => RxListens
  BY DEF RxInv
<1> QED
  BY <1>1, SpecRxInv, PTL

(* The receive path is sound, for any numbers of URBs and buffers.         *)
THEOREM SpecRxSound == Spec => []RxSound
  BY RxTypeCorrect, RxBuffersSound, RxNoLostTrigger, RxKeepsListening, PTL
     DEF RxSound

-----------------------------------------------------------------------------
(* Division leaves a remainder below the divisor ...                       *)
LEMMA Division ==
  ASSUME NEW a \in Nat, NEW n \in Nat \ {0}
  PROVE  /\ a % n \in 0..(n - 1) /\ a \div n \in Nat
         /\ a = n * (a \div n) + (a % n)
  OBVIOUS

(* ... and nothing else does, so that a remainder is found by showing its  *)
(* quotient.                                                               *)
LEMMA OneRemainder ==
  ASSUME NEW n \in Nat \ {0}, NEW p \in Int, NEW q \in Int,
         NEW r \in 0..(n - 1), NEW s \in 0..(n - 1), n * p + r = n * q + s
  PROVE  r = s
<1>1. n * (p - q) = s - r
  OBVIOUS
<1>2. p - q \in Int /\ s - r < n /\ r - s < n
  OBVIOUS
<1>3. CASE p - q >= 1
  <2>1. n * (p - q) >= n
    BY <1>2, <1>3
  <2> QED BY <2>1, <1>1, <1>2
<1>4. CASE p - q <= -1
  <2>1. n * (p - q) <= -n
    BY <1>2, <1>4
  <2> QED BY <2>1, <1>1, <1>2
<1>5. CASE p - q = 0
  BY <1>5, <1>1
<1> QED BY <1>2, <1>3, <1>4, <1>5

(* Neighbouring indices: the next slot, which is the first after the last. *)
LEMMA NextSlot ==
  ASSUME NEW a \in Nat, NEW n \in Nat \ {0}
  PROVE  (a + 1) % n = IF (a % n) + 1 = n THEN 0 ELSE (a % n) + 1
<1>1. /\ a % n \in 0..(n - 1) /\ a \div n \in Nat /\ a = n * (a \div n) + (a % n)
      /\ (a + 1) % n \in 0..(n - 1) /\ (a + 1) \div n \in Nat
      /\ a + 1 = n * ((a + 1) \div n) + ((a + 1) % n)
  <2>1. a + 1 \in Nat
    OBVIOUS
  <2>2. /\ a % n \in 0..(n - 1) /\ a \div n \in Nat
        /\ a = n * (a \div n) + (a % n)
    BY Division
  <2>3. /\ (a + 1) % n \in 0..(n - 1) /\ (a + 1) \div n \in Nat
        /\ a + 1 = n * ((a + 1) \div n) + ((a + 1) % n)
    BY <2>1, Division
  <2> QED BY <2>2, <2>3
<1>2. CASE (a % n) + 1 = n
  <2>1. n * ((a \div n) + 1) + 0 = n * ((a + 1) \div n) + ((a + 1) % n)
    <3>1. n * ((a \div n) + 1) = n * (a \div n) + n
      BY <1>1
    <3> QED BY <3>1, <1>1, <1>2
  <2>2. 0 = (a + 1) % n
    <3> (a \div n) + 1 \in Int /\ (a + 1) \div n \in Int /\ 0 \in 0..(n - 1)
      BY <1>1
    <3> QED BY <2>1, <1>1, OneRemainder
  <2> QED BY <2>2, <1>2
<1>3. CASE (a % n) + 1 # n
  <2>1. n * (a \div n) + ((a % n) + 1) = n * ((a + 1) \div n) + ((a + 1) % n)
    BY <1>1
  <2>2. (a % n) + 1 = (a + 1) % n
    <3> a \div n \in Int /\ (a + 1) \div n \in Int /\ (a % n) + 1 \in 0..(n - 1)
      BY <1>1, <1>3
    <3> QED BY <2>1, <1>1, OneRemainder
  <2> QED BY <2>2, <1>3
<1> QED BY <1>2, <1>3

(* Frames that are less than n apart are in different slots.               *)
LEMMA SlotsDiffer ==
  ASSUME NEW a \in Nat, NEW b \in Nat, NEW n \in Nat \ {0},
         a # b, a - b < n, b - a < n
  PROVE  a % n # b % n
<1> SUFFICES ASSUME a % n = b % n PROVE FALSE
  OBVIOUS
<1> DEFINE p == a \div n
           q == b \div n
<1>1. /\ p \in Nat /\ q \in Nat /\ a % n \in 0..(n - 1)
      /\ a = n * p + (a % n) /\ b = n * q + (b % n)
  BY Division
<1> HIDE DEF p, q
<1>2. a - b = n * (p - q) /\ p - q \in Int
  <2>1. n * p - n * q = n * (p - q)
    BY <1>1
  <2>2. n * p \in Int /\ n * q \in Int
    BY <1>1
  <2> QED BY <1>1, <2>1, <2>2
<1>3. CASE p - q >= 1
  <2>1. n * (p - q) >= n
    BY <1>2, <1>3
  <2> QED BY <2>1, <1>2
<1>4. CASE p - q <= -1
  <2>1. n * (p - q) <= -n
    BY <1>2, <1>4
  <2> QED BY <2>1, <1>2
<1>5. CASE p - q = 0
  BY <1>5, <1>2
<1> QED BY <1>2, <1>3, <1>4, <1>5

-----------------------------------------------------------------------------
(* URBs, triggers and types: one leaf per action.                          *)
LEMMA PipeStep ==
  ASSUME Msg!MsgRxAssumption, Msg!MsgTypeOK, Msg!PassTriggered, Msg!HandlerOrder,
  Msg!MsgListens, Msg!Next
  PROVE  Msg!MsgTypeOK' /\ Msg!PassTriggered' /\ Msg!HandlerOrder' /\ Msg!MsgListens'
<1> USE DEF Msg!MsgRxAssumption, Msg!MsgTypeOK, Msg!PassTriggered, Msg!HandlerOrder,
Msg!MsgListens,
            Msg!UrbsCounted, Msg!One, Msg!Submitters, Msg!Goto, Msg!urbVars,
            Msg!handlerVars, Msg!threadVars,
            Msg!powerVars, Msg!ringVars
<1> Msg!None \in Msg!Confirmations
  BY DEF Msg!None, Msg!Confirmations
<1>1. CASE Msg!Push
  <2>1. free_idx % Cnt \in 0..(Cnt - 1)
    BY Division
  <2>2. tx_host_id' \in [0..(Cnt - 1) -> Nat] /\ free_idx' \in Nat /\ pushed' \in Nat
    BY <1>1, <2>1 DEF Msg!Push, Msg!NextIdx
  <2>3. [idx |-> free_idx, frame |-> pushed + 1] \in Msg!Confirmations
    BY DEF Msg!Confirmations
  <2>4. fw' \subseteq Msg!Confirmations
    BY <1>1, <2>3 DEF Msg!Push
  <2> QED BY <1>1, <2>2, <2>4 DEF Msg!Push
<1>2. CASE Msg!RecvCfm
  <2>1. Msg!MsgTypeOK'
    BY <1>2 DEF Msg!RecvCfm, Msg!Received
  <2>2. Msg!PassTriggered'
    BY <1>2 DEF Msg!RecvCfm, Msg!Received
  <2>3. Msg!HandlerOrder'
    BY <1>2 DEF Msg!RecvCfm, Msg!Received
  <2>4. Msg!MsgListens'
    BY <1>2 DEF Msg!RecvCfm, Msg!Received
  <2> QED BY <2>1, <2>2, <2>3, <2>4
<1>3. CASE Msg!RecvOther
  <2>1. Msg!MsgTypeOK'
    BY <1>3 DEF Msg!RecvOther, Msg!Received
  <2>2. Msg!PassTriggered'
    BY <1>3 DEF Msg!RecvOther, Msg!Received
  <2>3. Msg!HandlerOrder'
    BY <1>3 DEF Msg!RecvOther, Msg!Received
  <2>4. Msg!MsgListens'
    BY <1>3 DEF Msg!RecvOther, Msg!Received
  <2> QED BY <2>1, <2>2, <2>3, <2>4
<1>4. CASE \E e \in BOOLEAN : Msg!Failed(e)
  BY <1>4 DEF Msg!Failed
<1>5. CASE Msg!Enqueue
  <2>1. Msg!MsgTypeOK'
    <3>1. hmsg \in Msg!Confirmations /\ Append(msg_rxq, hmsg) \in Seq(Msg!Confirmations)
      OBVIOUS
    <3>2. msg_rxq' \in Seq(Msg!Confirmations)
      BY <1>5, <3>1 DEF Msg!Enqueue
    <3>3. dropped' \in Nat /\ m_hpc' \in {"idle", "trigger"}
      BY <1>5 DEF Msg!Enqueue
    <3> QED BY <1>5, <3>2, <3>3 DEF Msg!Enqueue
  <2>2. Msg!PassTriggered'
    BY <1>5 DEF Msg!Enqueue
  <2>3. Msg!HandlerOrder'
    BY <1>5 DEF Msg!Enqueue
  <2>4. Msg!MsgListens'
    <3>1. /\ m_hpc = "enqueue"
          /\ \/ m_hpc' = "trigger" /\ dropped' = dropped
             \/ m_hpc' = "idle" /\ dropped' = dropped + 1
      BY <1>5 DEF Msg!Enqueue
    <3>2. UNCHANGED <<m_free, m_flying, m_trouble, m_spc, m_ppc, m_usb>>
      BY <1>5 DEF Msg!Enqueue
    <3>3. \/ Msg!One(m_hpc # "idle")' = 1 /\ dropped' = dropped
          \/ Msg!One(m_hpc # "idle")' = 0 /\ dropped' = dropped + 1
      BY <3>1
    <3>4. Msg!One(m_hpc # "idle") = 1
      BY <3>1
    <3>5. Msg!UrbsCounted'
      <4>1. /\ Msg!One(m_spc["urb"] \in {"test", "submit"}) \in Nat
            /\ Msg!One(m_spc["start"] \in {"test", "submit"}) \in Nat
            /\ Msg!One(m_spc["urb"] \in {"test", "submit"})'
                 = Msg!One(m_spc["urb"] \in {"test", "submit"})
            /\ Msg!One(m_spc["start"] \in {"test", "submit"})'
                 = Msg!One(m_spc["start"] \in {"test", "submit"})
        BY <3>2
      <4> HIDE DEF Msg!One
      <4> QED BY <3>2, <3>3, <3>4, <4>1
    <3> QED BY <3>2, <3>5
  <2> QED BY <2>1, <2>2, <2>3, <2>4
<1>6. CASE Msg!Trigger
  BY <1>6 DEF Msg!Trigger, Msg!Triggered
<1>7. CASE Msg!Put
  <2>1. Msg!MsgTypeOK'
    BY <1>7 DEF Msg!Put
  <2>2. Msg!PassTriggered'
    BY <1>7 DEF Msg!Put
  <2>3. Msg!HandlerOrder'
    BY <1>7 DEF Msg!Put
  <2>4. Msg!MsgListens'
    <3>1. Msg!UrbsCounted'
      BY <1>7 DEF Msg!Put
    <3> QED BY <1>7, <3>1 DEF Msg!Put
  <2> QED BY <2>1, <2>2, <2>3, <2>4
<1>8. ASSUME NEW x \in Msg!Submitters, Msg!SubmitCheck(x)
      PROVE  Msg!MsgTypeOK' /\ Msg!PassTriggered' /\ Msg!HandlerOrder' /\ Msg!MsgListens'
  BY <1>8 DEF Msg!SubmitCheck
<1>9. ASSUME NEW x \in Msg!Submitters, Msg!SubmitGet(x)
      PROVE  Msg!MsgTypeOK' /\ Msg!PassTriggered' /\ Msg!HandlerOrder' /\ Msg!MsgListens'
  <2>1. Msg!MsgTypeOK'
    BY <1>9 DEF Msg!SubmitGet
  <2>2. Msg!PassTriggered'
    BY <1>9 DEF Msg!SubmitGet
  <2>3. Msg!HandlerOrder'
    BY <1>9 DEF Msg!SubmitGet
  <2>4. Msg!MsgListens'
    <3>1. \/ m_free > 0 /\ m_free' = m_free - 1 /\ m_spc' = [m_spc EXCEPT ![x] = "test"]
          \/ m_free = 0 /\ m_free' = m_free /\ m_spc' = [m_spc EXCEPT ![x] = "idle"]
      BY <1>9 DEF Msg!SubmitGet
    <3>2. /\ m_spc[x] = "get"
          /\ UNCHANGED <<m_flying, dropped, m_trouble, m_hpc, m_ppc, m_usb>>
      BY <1>9 DEF Msg!SubmitGet
    <3>3. Msg!UrbsCounted'
      <4>1. CASE x = "urb"
        <5>1. Msg!One(m_spc["urb"] \in {"test", "submit"}) = 0
          BY <3>2, <4>1
        <5>2. /\ Msg!One(m_spc["start"] \in {"test", "submit"})'
                   = Msg!One(m_spc["start"] \in {"test", "submit"})
              /\ Msg!One(m_hpc # "idle")' = Msg!One(m_hpc # "idle")
          BY <3>1, <3>2, <4>1
        <5>3. Msg!One(m_spc["urb"] \in {"test", "submit"})' = m_free - m_free'
          BY <3>1, <3>2, <4>1
        <5> HIDE DEF Msg!One
        <5> Msg!One(m_spc["start"] \in {"test", "submit"}) \in Nat /\ Msg!One(m_hpc # "idle") \in Nat
          BY DEF Msg!One
        <5> QED BY <3>1, <3>2, <5>1, <5>2, <5>3, SMTT(30)
      <4>2. CASE x = "start"
        <5>1. Msg!One(m_spc["start"] \in {"test", "submit"}) = 0
          BY <3>2, <4>2
        <5>2. /\ Msg!One(m_spc["urb"] \in {"test", "submit"})'
                   = Msg!One(m_spc["urb"] \in {"test", "submit"})
              /\ Msg!One(m_hpc # "idle")' = Msg!One(m_hpc # "idle")
          BY <3>1, <3>2, <4>2
        <5>3. Msg!One(m_spc["start"] \in {"test", "submit"})' = m_free - m_free'
          BY <3>1, <3>2, <4>2
        <5> HIDE DEF Msg!One
        <5> Msg!One(m_spc["urb"] \in {"test", "submit"}) \in Nat /\ Msg!One(m_hpc # "idle") \in Nat
          BY DEF Msg!One
        <5> QED BY <3>1, <3>2, <5>1, <5>2, <5>3, SMTT(30)
      <4> QED BY <4>1, <4>2
    <3> QED BY <3>1, <3>2, <3>3
  <2> QED BY <2>1, <2>2, <2>3, <2>4
<1>10. ASSUME NEW x \in Msg!Submitters, Msg!SubmitTest(x)
      PROVE  Msg!MsgTypeOK' /\ Msg!PassTriggered' /\ Msg!HandlerOrder' /\ Msg!MsgListens'
  BY <1>10 DEF Msg!SubmitTest
<1>11. ASSUME NEW x \in Msg!Submitters, Msg!Submitted(x)
      PROVE  Msg!MsgTypeOK' /\ Msg!PassTriggered' /\ Msg!HandlerOrder' /\ Msg!MsgListens'
  BY <1>11 DEF Msg!Submitted
<1>12. ASSUME NEW x \in Msg!Submitters, Msg!SubmitFails(x)
      PROVE  Msg!MsgTypeOK' /\ Msg!PassTriggered' /\ Msg!HandlerOrder' /\ Msg!MsgListens'
  BY <1>12 DEF Msg!SubmitFails, Msg!AfterFailure
<1>13. CASE Msg!ThreadWake
  BY <1>13 DEF Msg!ThreadWake
<1>14. CASE Msg!ThreadDequeue
  <2>1. Msg!MsgTypeOK'
    <3>1. CASE msg_rxq # <<>>
      <4>1. Head(msg_rxq) \in Msg!Confirmations /\ Tail(msg_rxq) \in Seq(Msg!Confirmations)
        BY <3>1
      <4> QED BY <1>14, <3>1, <4>1 DEF Msg!ThreadDequeue
    <3> QED BY <1>14, <3>1 DEF Msg!ThreadDequeue
  <2>2. Msg!PassTriggered'
    BY <1>14 DEF Msg!ThreadDequeue
  <2>3. Msg!HandlerOrder'
    BY <1>14 DEF Msg!ThreadDequeue
  <2>4. Msg!MsgListens'
    BY <1>14 DEF Msg!ThreadDequeue
  <2> QED BY <2>1, <2>2, <2>3, <2>4
<1>15. CASE Msg!ThreadProcess
  <2>1. Msg!MsgTypeOK'
    <3>1. tmsg.idx % Cnt \in 0..(Cnt - 1)
      BY Division DEF Msg!Confirmations
    <3>2. tx_host_id' \in [0..(Cnt - 1) -> Nat]
      <4>1. CASE tx_host_id' = tx_host_id
        BY <4>1
      <4>2. CASE tx_host_id' = [tx_host_id EXCEPT ![tmsg.idx % Cnt] = 0]
        BY <3>1, <4>2
      <4> QED BY <1>15, <4>1, <4>2 DEF Msg!ThreadProcess, Msg!CfmHandler
    <3> QED BY <1>15, <3>2, ZenonT(60) DEF Msg!ThreadProcess, Msg!CfmHandler
  <2>2. Msg!PassTriggered'
    BY <1>15 DEF Msg!ThreadProcess, Msg!CfmHandler
  <2>3. Msg!HandlerOrder'
    BY <1>15 DEF Msg!ThreadProcess, Msg!CfmHandler
  <2>4. Msg!MsgListens'
    BY <1>15 DEF Msg!ThreadProcess, Msg!CfmHandler
  <2> QED BY <2>1, <2>2, <2>3, <2>4
<1>16. CASE Msg!ThreadNoMem
  BY <1>16 DEF Msg!ThreadNoMem
<1>17. CASE Msg!BusStart
  BY <1>17 DEF Msg!BusStart
<1>18. CASE Msg!SuspendSleep
  BY <1>18 DEF Msg!SuspendSleep
<1>19. CASE Msg!SuspendStop
  BY <1>19 DEF Msg!SuspendStop
<1>20. CASE Msg!Disconnect
  BY <1>20 DEF Msg!Disconnect
<1>21. CASE Msg!KillUrbs
  <2>1. Msg!MsgTypeOK'
    BY <1>21 DEF Msg!KillUrbs
  <2>2. Msg!PassTriggered'
    BY <1>21 DEF Msg!KillUrbs
  <2>3. Msg!HandlerOrder'
    BY <1>21 DEF Msg!KillUrbs
  <2>4. Msg!MsgListens'
    BY <1>21 DEF Msg!KillUrbs
  <2> QED BY <2>1, <2>2, <2>3, <2>4
<1>22. CASE Msg!Deinit
  BY <1>22 DEF Msg!Deinit
<1> QED
  BY <1>1, <1>2, <1>3, <1>4, <1>5, <1>6, <1>7, <1>8, <1>9, <1>10, <1>11, <1>12,
     <1>13, <1>14, <1>15, <1>16, <1>17, <1>18, <1>19, <1>20, <1>21, <1>22
  DEF Msg!Next, Msg!HandlerStep, Msg!SubmitStep, Msg!ThreadStep

-----------------------------------------------------------------------------
(* The ring: only a push, a confirmation and what moves a confirmation     *)
(* along matter.                                                           *)
RingInv == Msg!AllInSlot /\ Msg!AllApart /\ Msg!CfmOwnFrame

(* Every step leaves each confirmation of the ring with its own frame.     *)
LEMMA RingStep ==
  ASSUME Msg!MsgRxAssumption, Msg!MsgTypeOK, RingInv, Msg!Next
  PROVE  RingInv'
<1> USE DEF Msg!MsgRxAssumption, Msg!MsgTypeOK, RingInv
<1>1. CASE Msg!Push
  <2>0. [idx |-> free_idx, frame |-> pushed + 1] \in Msg!Confirmations
    BY DEF Msg!Confirmations
  <2> PICK new \in Msg!Confirmations : new = [idx |-> free_idx, frame |-> pushed + 1]
    BY <2>0, Zenon
  <2>1. /\ free_idx % Cnt \in 0..(Cnt - 1) /\ pushed % Cnt \in 0..(Cnt - 1)
        /\ free_idx % Cnt = pushed % Cnt
    BY Division DEF Msg!AllInSlot
  <2>2. free_idx' % Cnt = pushed' % Cnt
    <3>1. (free_idx + 1) % Cnt = (pushed + 1) % Cnt
      <4>1. (free_idx + 1) % Cnt
              = IF (free_idx % Cnt) + 1 = Cnt THEN 0 ELSE (free_idx % Cnt) + 1
        BY NextSlot, ZenonT(60)
      <4>2. (pushed + 1) % Cnt = IF (pushed % Cnt) + 1 = Cnt THEN 0 ELSE (pushed % Cnt) + 1
        BY NextSlot, ZenonT(60)
      <4> QED BY <2>1, <4>1, <4>2
    <3>2. 0 % Cnt = 0
      OBVIOUS
    <3> QED BY <1>1, <3>1, <3>2 DEF Msg!Push, Msg!NextIdx
  <2>3. ASSUME NEW c \in Msg!Unconfirmed, c \in Msg!Confirmations, Msg!InSlot(c)
        PROVE  Msg!InSlot(c)' /\ Msg!Apart(c, new)
    <3> SUFFICES ASSUME c # Msg!None
                 PROVE  Msg!InSlot(c)' /\ c.frame # pushed + 1
      BY DEF Msg!InSlot, Msg!Apart
    <3>1. /\ c.frame \in Nat /\ c.idx \in Nat /\ c.frame > 0 /\ c.frame <= pushed
          /\ c.idx % Cnt = (c.frame - 1) % Cnt /\ tx_host_id[c.idx % Cnt] = c.frame
      BY <2>3 DEF Msg!InSlot, Msg!Confirmations
    <3>2. pushed + 1 - c.frame < Cnt
      BY <1>1 DEF Msg!Push
    <3>3. pushed % Cnt # (c.frame - 1) % Cnt
      <4>1. /\ c.frame - 1 \in Nat /\ pushed # c.frame - 1
            /\ pushed - (c.frame - 1) < Cnt /\ (c.frame - 1) - pushed < Cnt
        <5> DEFINE f == c.frame
        <5>1. /\ f \in Nat /\ f > 0 /\ f <= pushed /\ pushed + 1 - f < Cnt
              /\ pushed \in Nat /\ Cnt \in Nat \ {0}
          BY <3>1, <3>2
        <5> HIDE DEF f, Msg!MsgTypeOK, RingInv
        <5>2. /\ f - 1 \in Nat /\ pushed # f - 1
              /\ pushed - (f - 1) < Cnt /\ (f - 1) - pushed < Cnt
          BY <5>1
        <5> QED BY <5>2 DEF f
      <4> QED BY <4>1, SlotsDiffer
    <3>4. tx_host_id'[c.idx % Cnt] = c.frame
      <4>1. c.idx % Cnt \in 0..(Cnt - 1)
        BY <3>1, Division
      <4> QED BY <1>1, <2>1, <3>1, <3>3, <4>1 DEF Msg!Push
    <3>5. pushed' = pushed + 1
      BY <1>1 DEF Msg!Push
    <3>6. c.frame <= pushed' /\ pushed' - c.frame < Cnt /\ c.frame # pushed + 1
      <4> DEFINE f == c.frame
      <4>1. /\ f \in Nat /\ f <= pushed /\ pushed + 1 - f < Cnt
            /\ pushed \in Nat /\ Cnt \in Nat /\ pushed' = pushed + 1
        BY <3>1, <3>2, <3>5
      <4> HIDE DEF f, Msg!MsgTypeOK, RingInv
      <4>2. f <= pushed' /\ pushed' - f < Cnt /\ f # pushed + 1
        BY <4>1
      <4> QED BY <4>2 DEF f
    <3> QED BY <3>1, <3>4, <3>6 DEF Msg!InSlot
  <2>4. Msg!InSlot(new)'
    <3>1. tx_host_id'[free_idx % Cnt] = pushed + 1 /\ pushed' = pushed + 1
      BY <1>1, <2>1 DEF Msg!Push
    <3>2. new.idx = free_idx /\ new.frame = pushed + 1 /\ new.frame - 1 = pushed
      OBVIOUS
    <3> QED BY <2>1, <3>1, <3>2 DEF Msg!InSlot
  <2>5. /\ fw' = fw \cup {new}
        /\ UNCHANGED <<msg_rxq, hmsg, tmsg, mixed>>
    BY <1>1 DEF Msg!Push, Msg!handlerVars, Msg!threadVars
  <2>6. /\ \A c \in fw : Msg!InSlot(c)' /\ Msg!Apart(c, new)
        /\ Msg!InSlot(hmsg)' /\ Msg!Apart(hmsg, new) /\ Msg!InSlot(tmsg)' /\ Msg!Apart(tmsg, new)
        /\ \A i \in DOMAIN msg_rxq : Msg!InSlot(msg_rxq[i])' /\ Msg!Apart(msg_rxq[i], new)
    <3>1. \A i \in DOMAIN msg_rxq : msg_rxq[i] \in Msg!Confirmations
      OBVIOUS
    <3> QED BY <2>3, <2>5, <3>1 DEF Msg!Unconfirmed, Msg!AllInSlot, Msg!InSlot
  <2>7. Msg!AllInSlot'
    BY <2>2, <2>4, <2>5, <2>6 DEF Msg!AllInSlot, Msg!InSlot
  <2>8. Msg!AllApart'
    BY <2>5, <2>6 DEF Msg!AllApart, Msg!Apart
  <2> QED BY <2>5, <2>7, <2>8 DEF Msg!CfmOwnFrame
<1>2. ASSUME NEW c \in fw, Msg!Received(c), fw' = fw \ {c}
      PROVE  RingInv'
  <2>1. hmsg' = c \/ hmsg' = Msg!None
    BY <1>2 DEF Msg!Received
  <2>2. UNCHANGED <<msg_rxq, tmsg, tx_host_id, free_idx, pushed, mixed>>
    BY <1>2 DEF Msg!Received, Msg!threadVars, Msg!ringVars
  <2>3. Msg!AllInSlot'
    BY <1>2, <2>1, <2>2 DEF Msg!AllInSlot, Msg!InSlot
  <2>4. Msg!AllApart'
    BY <1>2, <2>1, <2>2 DEF Msg!AllApart, Msg!Apart
  <2> QED BY <2>2, <2>3, <2>4 DEF Msg!CfmOwnFrame
<1>3. CASE Msg!RecvOther
  <2>1. hmsg' = Msg!None /\ fw' = fw
    BY <1>3 DEF Msg!RecvOther, Msg!Received
  <2>2. UNCHANGED <<msg_rxq, tmsg, tx_host_id, free_idx, pushed, mixed>>
    BY <1>3 DEF Msg!RecvOther, Msg!Received, Msg!threadVars, Msg!ringVars
  <2> QED BY <2>1, <2>2 DEF Msg!AllInSlot, Msg!InSlot, Msg!AllApart, Msg!Apart,
            Msg!CfmOwnFrame
<1>4. CASE Msg!Enqueue
  <2>1. /\ hmsg' = Msg!None
        /\ \/ msg_rxq' = Append(msg_rxq, hmsg)
           \/ msg_rxq' = msg_rxq
    BY <1>4 DEF Msg!Enqueue
  <2>2. UNCHANGED <<fw, tmsg, tx_host_id, free_idx, pushed, mixed>>
    BY <1>4 DEF Msg!Enqueue, Msg!threadVars, Msg!ringVars
  <2>3. ASSUME NEW i \in DOMAIN msg_rxq'
        PROVE  \/ i \in DOMAIN msg_rxq /\ msg_rxq'[i] = msg_rxq[i]
               \/ i = Len(msg_rxq) + 1 /\ msg_rxq'[i] = hmsg /\ i \notin DOMAIN msg_rxq
    <3>1. CASE msg_rxq' = msg_rxq
      BY <3>1
    <3>2. CASE msg_rxq' = Append(msg_rxq, hmsg)
      <4>1. /\ DOMAIN msg_rxq = 1..Len(msg_rxq) /\ Len(msg_rxq) \in Nat
            /\ DOMAIN msg_rxq' = 1..(Len(msg_rxq) + 1)
        BY <3>2
      <4>2. \A k \in 1..Len(msg_rxq) : msg_rxq'[k] = msg_rxq[k]
        BY <3>2
      <4>3. msg_rxq'[Len(msg_rxq) + 1] = hmsg
        BY <3>2
      <4> QED BY <4>1, <4>2, <4>3
    <3> QED BY <2>1, <3>1, <3>2
  <2>4. Msg!AllInSlot'
    BY <2>1, <2>2, <2>3 DEF Msg!AllInSlot, Msg!InSlot
  <2>5. Msg!AllApart'
    BY <2>1, <2>2, <2>3, ZenonT(60) DEF Msg!AllApart, Msg!Apart
  <2> QED BY <2>2, <2>4, <2>5 DEF Msg!CfmOwnFrame
<1>5. CASE Msg!ThreadDequeue
  <2>1. UNCHANGED <<fw, hmsg, tx_host_id, free_idx, pushed, mixed>>
    BY <1>5 DEF Msg!ThreadDequeue, Msg!handlerVars, Msg!ringVars
  <2>2. CASE msg_rxq = <<>>
    BY <1>5, <2>1, <2>2
    DEF Msg!ThreadDequeue, Msg!AllInSlot, Msg!InSlot, Msg!AllApart, Msg!Apart,
    Msg!CfmOwnFrame
  <2>3. CASE msg_rxq # <<>>
    <3>1. tmsg' = msg_rxq[1] /\ 1 \in DOMAIN msg_rxq
      BY <1>5, <2>3 DEF Msg!ThreadDequeue
    <3>2. \A i \in DOMAIN msg_rxq' :
            i + 1 \in DOMAIN msg_rxq /\ msg_rxq'[i] = msg_rxq[i + 1] /\ i \in Nat \ {0}
      <4>1. msg_rxq' = Tail(msg_rxq) /\ msg_rxq \in Seq(Msg!Confirmations)
        BY <1>5, <2>3 DEF Msg!ThreadDequeue, RingInv, Msg!MsgTypeOK
      <4>2. Len(Tail(msg_rxq)) = Len(msg_rxq) - 1
            /\ \A i \in 1..Len(Tail(msg_rxq)) : Tail(msg_rxq)[i] = msg_rxq[i + 1]
        BY <4>1, <2>3
      <4> QED BY <4>1, <4>2
    <3>3. Msg!AllInSlot'
      BY <2>1, <3>1, <3>2 DEF Msg!AllInSlot, Msg!InSlot
    <3>4. Msg!AllApart'
      BY <2>1, <3>1, <3>2 DEF Msg!AllApart, Msg!Apart
    <3> QED BY <2>1, <3>3, <3>4 DEF Msg!CfmOwnFrame
  <2> QED BY <2>2, <2>3
<1>6. CASE Msg!ThreadProcess
  <2>1. UNCHANGED <<fw, msg_rxq, hmsg, free_idx, pushed>> /\ tmsg' = Msg!None
    BY <1>6 DEF Msg!ThreadProcess, Msg!handlerVars
  <2>2. CASE tmsg = Msg!None
    BY <1>6, <2>1, <2>2
    DEF Msg!ThreadProcess, Msg!AllInSlot, Msg!InSlot, Msg!AllApart, Msg!Apart,
    Msg!CfmOwnFrame
  <2>3. CASE tmsg # Msg!None
    <3>1. /\ tx_host_id' = [tx_host_id EXCEPT ![tmsg.idx % Cnt] = 0]
          /\ mixed' = (mixed \/ tx_host_id[tmsg.idx % Cnt] # tmsg.frame)
      BY <1>6, <2>3 DEF Msg!ThreadProcess, Msg!CfmHandler
    <3>2. /\ tmsg.frame \in Nat /\ tmsg.idx \in Nat
          /\ tmsg.frame > 0 /\ tmsg.frame <= pushed /\ pushed - tmsg.frame < Cnt
          /\ tmsg.idx % Cnt = (tmsg.frame - 1) % Cnt
          /\ tx_host_id[tmsg.idx % Cnt] = tmsg.frame
      BY <2>3 DEF Msg!AllInSlot, Msg!InSlot, Msg!Confirmations
    <3>3. ASSUME NEW c \in Msg!Confirmations, Msg!InSlot(c), Msg!Apart(c, tmsg)
          PROVE  Msg!InSlot(c)'
      <4> SUFFICES ASSUME c # Msg!None
                   PROVE  Msg!InSlot(c)'
        BY DEF Msg!InSlot
      <4>1. /\ c.frame \in Nat /\ c.idx \in Nat
            /\ c.frame > 0 /\ c.frame <= pushed /\ pushed - c.frame < Cnt
            /\ c.idx % Cnt = (c.frame - 1) % Cnt /\ tx_host_id[c.idx % Cnt] = c.frame
        BY <3>3 DEF Msg!InSlot, Msg!Confirmations
      <4>2. c.frame # tmsg.frame
        BY <2>3, <3>3 DEF Msg!Apart
      <4>3. (c.frame - 1) % Cnt # (tmsg.frame - 1) % Cnt
        BY <3>2, <4>1, <4>2, SlotsDiffer
      <4>4. c.idx % Cnt \in 0..(Cnt - 1)
        BY <4>1, Division
      <4>5. tx_host_id'[c.idx % Cnt] = c.frame
        BY <3>1, <3>2, <4>1, <4>3, <4>4
      <4> QED BY <2>1, <4>1, <4>5 DEF Msg!InSlot
    <3>4. ~mixed'
      BY <3>1, <3>2 DEF Msg!CfmOwnFrame
    <3>5. \A i \in DOMAIN msg_rxq : msg_rxq[i] \in Msg!Confirmations
      OBVIOUS
    <3>6. /\ \A c \in fw : Msg!InSlot(c)'
          /\ Msg!InSlot(hmsg)'
          /\ \A i \in DOMAIN msg_rxq : Msg!InSlot(msg_rxq[i])'
      BY <2>1, <3>3, <3>5 DEF Msg!AllInSlot, Msg!AllApart, Msg!InSlot, Msg!Apart
    <3>7. Msg!AllInSlot'
      BY <2>1, <3>6 DEF Msg!AllInSlot, Msg!InSlot
    <3>8. Msg!AllApart'
      BY <2>1 DEF Msg!AllApart, Msg!Apart
    <3> QED BY <3>4, <3>7, <3>8 DEF Msg!CfmOwnFrame
  <2> QED BY <2>2, <2>3
<1>7. CASE Msg!ThreadNoMem
  <2>1. /\ tmsg' = Msg!None
        /\ UNCHANGED <<fw, msg_rxq, hmsg, tx_host_id, free_idx, pushed, mixed>>
    BY <1>7 DEF Msg!ThreadNoMem, Msg!handlerVars, Msg!ringVars
  <2> QED BY <2>1 DEF Msg!AllInSlot, Msg!InSlot, Msg!AllApart, Msg!Apart,
            Msg!CfmOwnFrame
<1>8. CASE Msg!Deinit
  <2>1. /\ msg_rxq' = <<>>
        /\ UNCHANGED <<fw, hmsg, tmsg, tx_host_id, free_idx, pushed, mixed>>
    BY <1>8 DEF Msg!Deinit, Msg!handlerVars, Msg!threadVars, Msg!ringVars
  <2> QED BY <2>1 DEF Msg!AllInSlot, Msg!InSlot, Msg!AllApart, Msg!Apart,
            Msg!CfmOwnFrame
<1>9. CASE UNCHANGED <<fw, msg_rxq, hmsg, tmsg, tx_host_id, free_idx, pushed, mixed>>
  BY <1>9 DEF Msg!AllInSlot, Msg!InSlot, Msg!AllApart, Msg!Apart, Msg!CfmOwnFrame
<1>10. \/ Msg!Push \/ Msg!RecvCfm \/ Msg!RecvOther \/ Msg!Enqueue \/ Msg!ThreadDequeue
       \/ Msg!ThreadProcess \/ Msg!ThreadNoMem \/ Msg!Deinit
       \/ UNCHANGED <<fw, msg_rxq, hmsg, tmsg, tx_host_id, free_idx, pushed, mixed>>
  BY DEF Msg!Next, Msg!Failed, Msg!HandlerStep, Msg!Trigger, Msg!Put, Msg!SubmitStep,
    Msg!SubmitCheck, Msg!SubmitGet,
         Msg!SubmitTest, Msg!Submitted, Msg!SubmitFails, Msg!ThreadStep,
         Msg!ThreadWake, Msg!BusStart,
         Msg!SuspendSleep, Msg!SuspendStop, Msg!Disconnect, Msg!KillUrbs,
         Msg!urbVars, Msg!handlerVars,
         Msg!threadVars, Msg!powerVars, Msg!ringVars
<1> QED
  BY <1>1, <1>2, <1>3, <1>4, <1>5, <1>6, <1>7, <1>8, <1>9, <1>10 DEF Msg!RecvCfm

-----------------------------------------------------------------------------
(* The message pipe is sound: while the thread waits every queued message  *)
(* has a trigger of its own, also after a pass that had no memory; URBs    *)
(* are lost only to a full queue and an idle one is somebody's to submit;  *)
(* and aicwf_usb_host_tx_cfm_handler finds in the ring the frame that the  *)
(* confirmation is for, also across the wrap of txdesc_free_idx.           *)
THEOREM SpecPipeSound ==
  ASSUME Msg!MsgRxAssumption
  PROVE  Msg!Spec => []Msg!PipeSound
<1>1. Msg!Init => Msg!MsgInv
  <2> SUFFICES ASSUME Msg!Init PROVE Msg!MsgInv
    OBVIOUS
  <2>1. Msg!None \in Msg!Confirmations
    BY DEF Msg!None, Msg!Confirmations
  <2>2. Msg!MsgTypeOK
    <3>1. msg_rxq \in Seq(Msg!Confirmations) /\ hmsg \in Msg!Confirmations
          /\ tmsg \in Msg!Confirmations /\ fw \subseteq Msg!Confirmations
      BY <2>1 DEF Msg!Init
    <3>2. /\ m_spc \in [Msg!Submitters -> {"idle", "check", "get", "test", "submit"}]
          /\ tx_host_id \in [0..(Cnt - 1) -> Nat]
      BY DEF Msg!Init
    <3> QED BY <3>1, <3>2 DEF Msg!Init, Msg!MsgTypeOK, Msg!MsgRxAssumption
  <2>3. Msg!PassTriggered /\ Msg!HandlerOrder /\ Msg!MsgListens /\ Msg!CfmOwnFrame
    BY DEF Msg!Init, Msg!PassTriggered, Msg!HandlerOrder, Msg!MsgListens,
      Msg!UrbsCounted, Msg!One, Msg!Submitters,
           Msg!CfmOwnFrame, Msg!MsgRxAssumption
  <2>4. Msg!AllInSlot /\ Msg!AllApart
    BY DEF Msg!Init, Msg!AllInSlot, Msg!AllApart, Msg!InSlot, Msg!Apart
  <2> QED BY <2>2, <2>3, <2>4 DEF Msg!MsgInv
<1>2. Msg!MsgInv /\ [Msg!Next]_Msg!vars => Msg!MsgInv'
  <2> SUFFICES ASSUME Msg!MsgInv, [Msg!Next]_Msg!vars PROVE Msg!MsgInv'
    OBVIOUS
  <2>1. CASE Msg!Next
    BY <2>1, PipeStep, RingStep DEF Msg!MsgInv, RingInv
  <2>2. CASE UNCHANGED Msg!vars
    BY <2>2 DEF Msg!vars, Msg!urbVars, Msg!handlerVars, Msg!threadVars,
      Msg!powerVars, Msg!ringVars, Msg!MsgInv,
      Msg!MsgTypeOK, Msg!PassTriggered, Msg!HandlerOrder, Msg!MsgListens,
      Msg!UrbsCounted, Msg!AllInSlot,
      Msg!InSlot, Msg!AllApart, Msg!Apart, Msg!CfmOwnFrame
  <2> QED BY <2>1, <2>2
<1>3. Msg!MsgInv => Msg!PipeSound
  BY DEF Msg!MsgInv, Msg!PipeSound, Msg!PassTriggered, Msg!MsgTriggered
<1> QED BY <1>1, <1>2, <1>3, PTL DEF Msg!Spec

(* The same for the behaviours of the receive run, whose other parts leave *)
(* the variables of MsgRx alone.                                           *)
THEOREM RxPipeSound == MCSpec => []PipeSound
<1>1. MCInit => Msg!Init
  BY DEF MCInit
<1>2. [MCNext]_allVars => [Msg!Next]_Msg!vars
  BY DEF MCNext, Usb, Pipe, Frames, allVars, msgVars, Msg!vars, Msg!urbVars,
         Msg!handlerVars, Msg!threadVars, Msg!powerVars, Msg!ringVars
<1>3. Msg!PipeSound => PipeSound
  BY DEF PipeSound
<1>4. Msg!MsgRxAssumption
  BY MsgAssumption
<1> QED
  BY <1>1, <1>2, <1>3, <1>4, SpecPipeSound, PTL DEF MCSpec, Msg!Spec
-----------------------------------------------------------------------------
(* Removing an element leaves the others.                                  *)
LEMMA Removed ==
    ASSUME NEW S, NEW s \in Seq(S), NEW i \in 1..Len(s)
    PROVE  /\ Data!RemoveAt(s, i) \in Seq(S)
           /\ \A k \in 1..Len(Data!RemoveAt(s, i)) :
                \E j \in 1..Len(s) : Data!RemoveAt(s, i)[k] = s[j]
<1>1. SubSeq(s, 1, i-1) \in Seq(S) /\ Len(SubSeq(s, 1, i-1)) = i - 1
      /\ \A k \in 1..(i-1) : SubSeq(s, 1, i-1)[k] = s[k]
  OBVIOUS
<1>2. SubSeq(s, i+1, Len(s)) \in Seq(S) /\ Len(SubSeq(s, i+1, Len(s))) = Len(s) - i
      /\ \A k \in 1..(Len(s) - i) : SubSeq(s, i+1, Len(s))[k] = s[i + k]
  OBVIOUS
<1> DEFINE a == SubSeq(s, 1, i-1)
           b == SubSeq(s, i+1, Len(s))
<1>3. a \in Seq(S) /\ b \in Seq(S) /\ Len(a) = i - 1 /\ Len(b) = Len(s) - i
      /\ (\A k \in 1..(i-1) : a[k] = s[k]) /\ \A k \in 1..(Len(s) - i) : b[k] = s[i + k]
  BY <1>1, <1>2
<1> HIDE DEF a, b
<1>4. a \o b \in Seq(S) /\ Len(a \o b) = Len(s) - 1
  <2>1. a \o b \in Seq(S) /\ Len(a \o b) = Len(a) + Len(b)
    <3>1. a \in Seq(S) /\ b \in Seq(S)
      BY <1>3
    <3> QED BY <3>1
  <2>2. Len(s) \in Nat /\ i \in 1..Len(s)
    OBVIOUS
  <2> QED BY <1>3, <2>1, <2>2
<1>5. ASSUME NEW k \in 1..Len(a \o b) PROVE \E j \in 1..Len(s) : (a \o b)[k] = s[j]
  <2>1. CASE k <= Len(a)
    <3>1. (a \o b)[k] = s[k] /\ k \in 1..Len(s)
      BY <1>3, <1>4, <2>1
    <3> QED BY <3>1
  <2>2. CASE k > Len(a)
    <3>1. (a \o b)[k] = b[k - Len(a)] /\ k - Len(a) \in 1..(Len(s) - i)
      BY <1>3, <1>4, <2>2
    <3>2. (a \o b)[k] = s[k + 1] /\ k + 1 \in 1..Len(s)
      BY <1>3, <3>1, <1>4
    <3> QED BY <3>2
  <2> QED BY <2>1, <2>2, <1>3, <1>4
<1> QED
  BY <1>4, <1>5 DEF Data!RemoveAt, a, b

(* The outcome of a frame that is dropped or passed on as it came.         *)
LEMMA OnceUsed == Data!UsedOnce(Data!Once) /\ Data!Once.out = <<>>
  BY DEF Data!Once, Data!Outcome, Data!UsedOnce

(* A frame that is not a fragment: the buffer and each subframe it is cut  *)
(* into is freed, resent or delivered once, whatever the interface does.   *)
LEMMA WholeOnce ==
    ASSUME Data!RxTypeOK, NEW qos \in BOOLEAN, NEW reord \in BOOLEAN, NEW room \in BOOLEAN,
           NEW dst \in Seq(Data!Dsts), dst # <<>>, Len(dst) \in {1, 2},
           NEW made \in 0..Len(dst)
    PROVE  LET o == Data!Whole(Data!DataFrame(qos, reord, dst), room, made) IN
           /\ o.out = <<>>
           /\ Data!UsedOnce(o)
<1> DEFINE f == Data!DataFrame(qos, reord, dst)
           p == Data!Parts(f, made)
           Good(o) == o.out = <<>> /\ Data!UsedOnce(o)
<1>1. f.dst = dst /\ f.qos = qos /\ f.reord = reord /\ f.amsdu = (Len(dst) > 1)
  BY DEF Data!DataFrame
<1>2. p \in Seq(Data!Dsts) /\ Len(p) = made
  BY <1>1 DEF Data!Parts
<1>3. Good(Data!Once)
  BY DEF Data!Once, Data!Outcome, Data!UsedOnce
<1> HIDE DEF f, p
<1>4. CASE type = "STA"
  <2>1. \A d \in Data!Dsts : Data!Forward(d)
    BY <1>4 DEF Data!Forward
  <2>2. \A s \in Seq(Data!Dsts) : Data!Delivered(s) = [i \in 1..Len(s) |-> IF Data!Forward(s[1]) THEN 1 ELSE 0]
    BY DEF Data!Delivered
  <2>3. \A s \in Seq(Data!Dsts) : s # <<>> => s[1] \in Data!Dsts
    OBVIOUS
  <2>4. Data!Delivered(p) \in Seq({1}) 
    BY <1>2, <2>1, <2>2, <2>3
  <2>5. \A s \in Seq({1}) : Good(Data!Outcome(<<1>> \o s, <<>>, ""))
    BY DEF Data!Outcome, Data!UsedOnce
  <2>6. Good(Data!Outcome([i \in {1} |-> IF Data!Forward(f.dst[1]) THEN Data!Delivered(f.dst)[1] ELSE 1], <<>>, ""))
    BY <1>1, <2>1, <2>2, <2>3 DEF Data!Outcome, Data!UsedOnce
  <2>7. Good(Data!StationFrame(f, room, made))
    BY <1>3, <2>4, <2>5, <2>6 DEF Data!StationFrame, p
  <2> QED BY <2>7, <1>3, <1>4 DEF Data!Whole, f
<1>5. CASE type = "AP"
  <2> DEFINE parts == IF f.amsdu THEN Data!Parts(f, made) ELSE f.dst
             full == f.qos /\ f.reord /\ ~room /\ parts # <<>>
             uses == [i \in DOMAIN parts |-> IF ~full THEN Data!ApPart(f, parts[i])
                                      ELSE IF i = 1 THEN 1 ELSE 0]
  <2>1. \A d \in Data!Dsts : Data!ApPart(f, d) = 1
    BY <1>5 DEF Data!ApPart, Data!Forward, Data!Resend, Data!Dsts
  <2>2. parts \in Seq(Data!Dsts)
    BY <1>1, <1>2 DEF p
  <2>3. uses \in Seq({0, 1}) /\ (~full => uses \in Seq({1})) /\ (Len(parts) <= 1 => uses \in Seq({1}))
    <3> HIDE DEF parts, full
    <3>1. \A i \in 1..Len(parts) : parts[i] \in Data!Dsts
      BY <2>2
    <3>2. DOMAIN parts = 1..Len(parts) /\ Len(parts) \in Nat
      BY <2>2
    <3> QED BY <3>1, <3>2, <2>1
  <2> HIDE DEF parts, full, uses
  <2>4. ASSUME NEW u \in Seq({0, 1}), NEW l, l = "" => u \in Seq({1})
        PROVE  Good(Data!Outcome(u, <<>>, l)) /\ Good(Data!Outcome(<<1>> \o u, <<>>, l))
    <3>1. <<1>> \o u \in Seq({0, 1}) /\ (u \in Seq({1}) => <<1>> \o u \in Seq({1}))
      OBVIOUS
    <3>2. ASSUME NEW v \in Seq({0, 1}), l = "" => v \in Seq({1})
          PROVE  Good(Data!Outcome(v, <<>>, l))
      <4>1. DOMAIN v = 1..Len(v) /\ \A i \in 1..Len(v) : v[i] <= 1
        <5>1. \A i \in 1..Len(v) : v[i] \in {0, 1}
          OBVIOUS
        <5> QED BY <5>1
      <4>2. ASSUME l = "" PROVE \A i \in 1..Len(v) : v[i] = 1
        <5>1. v \in Seq({1})
          BY <3>2, <4>2
        <5>2. \A i \in 1..Len(v) : v[i] \in {1}
          BY <5>1
        <5> QED BY <5>2
      <4> DEFINE o == Data!Outcome(v, <<>>, l)
      <4>3. o.uses = v /\ o.leak = l /\ o.out = <<>>
        BY DEF Data!Outcome
      <4> HIDE DEF o
      <4>4. Data!UsedOnce(o)
        <5>1. CASE l = ""
          BY <4>1, <4>2, <4>3, <5>1 DEF Data!UsedOnce
        <5>2. CASE l # ""
          BY <4>1, <4>3, <5>2 DEF Data!UsedOnce
        <5> QED BY <5>1, <5>2
      <4> QED BY <4>3, <4>4 DEF o
    <3> HIDE DEF Good
    <3> QED BY <3>1, <3>2, <2>4
  <2>5. Data!ApFrame(f, room, made) = Data!Outcome(IF f.amsdu THEN <<1>> \o uses ELSE uses, <<>>,
             IF full /\ Len(parts) > 1 THEN "no recv_msdu" ELSE "")
    BY DEF Data!ApFrame, parts, full, uses
  <2>6. Good(Data!ApFrame(f, room, made))
    <3>1. (IF full /\ Len(parts) > 1 THEN "no recv_msdu" ELSE "") = "" => uses \in Seq({1})
      BY <2>3, <2>2
    <3> DEFINE leak == IF full /\ Len(parts) > 1 THEN "no recv_msdu" ELSE ""
    <3>2. /\ Good(Data!Outcome(uses, <<>>, leak))
          /\ Good(Data!Outcome(<<1>> \o uses, <<>>, leak))
      <4> HIDE DEF Good, leak
      <4> QED BY <2>3, <2>4, <3>1 DEF leak
    <3> HIDE DEF Good
    <3> QED BY <2>5, <3>2
  <2> QED BY <2>6, <1>3, <1>5 DEF Data!Whole, f
<1> QED BY <1>4, <1>5 DEF Data!RxTypeOK, f

(* Monitor, silent, four-address and management frames likewise.           *)
LEMMA OtherOnce ==
    ASSUME Data!RxTypeOK, NEW k \in {"monitor", "silent", "fouraddr", "mgmt"},
           NEW roomy \in BOOLEAN, NEW copied \in BOOLEAN
    PROVE  LET o == Data!OtherFrame([kind |-> k, roomy |-> roomy], copied) IN
           o.out = <<>> /\ Data!UsedOnce(o)
<1> DEFINE Good(o) == o.out = <<>> /\ Data!UsedOnce(o)
<1>1. Good(Data!Once) /\ Good(Data!Outcome(<<1, 1>>, <<>>, ""))
      /\ Good(Data!Outcome(<<0>>, <<>>, "no monitor interface"))
      /\ Good(Data!Outcome(<<0>>, <<>>, "not uploaded"))
  BY DEF Data!Once, Data!Outcome, Data!UsedOnce
<1> HIDE DEF Good
<1>2. Good(Data!OtherFrame([kind |-> k, roomy |-> roomy], copied))
  BY <1>1 DEF Data!OtherFrame, Data!Monitored, Data!NotUploaded
<1> QED BY <1>2 DEF Good

(* A step that puts no fragments together shows only its buffers.          *)
LEMMA Sound ==
    ASSUME last'.out = <<>>, Data!UsedOnce(last')
    PROVE  Data!FramesSound'
<1>1. Data!WholeFrame(last'.out)
  BY DEF Data!WholeFrame
<1> QED BY <1>1 DEF Data!FramesSound, Data!SkbOnce, Data!OnlyWhole

(* A fragment: the entry found for it is one whose fragments before this   *)
(* one are all there, or one the sender has already gone past, which no    *)
(* later fragment continues.                                               *)
LEMMA FragmentStep ==
    ASSUME Data!RxTypeOK, \A i \in 1..Len(list) : Data!EntrySound(list[i]),
           NEW s \in Senders, Data!RxFragment(s)
    PROVE  Data!RxTypeOK' /\ Data!FramesSound' /\ (\A i \in 1..Len(list) : Data!EntrySound(list[i]))'
<1> DEFINE t == tx[s]
           g == [src |-> s, n |-> t.n, fn |-> t.fn, more |-> t.fn < t.len - 1]
<1>1. t \in [n : Nat, fn : Nat, len : Nat] /\ t.fn < t.len
      /\ UNCHANGED <<type, vifUp, monUp>>
  BY DEF Data!RxFragment, Data!RxTypeOK
<1>2. /\ tx' \in [Senders -> [n : Nat, fn : Nat, len : Nat]]
      /\ \A x \in Senders : tx'[x].n = tx[x].n /\ tx'[x].fn >= tx[x].fn
      /\ tx'[s].fn = t.fn + 1
  <2>1. tx' = [tx EXCEPT ![s] = [t EXCEPT !.fn = t.fn + 1]]
    BY DEF Data!RxFragment, Data!Next1
  <2>2. [t EXCEPT !.fn = t.fn + 1] \in [n : Nat, fn : Nat, len : Nat]
        /\ [t EXCEPT !.fn = t.fn + 1].n = t.n /\ [t EXCEPT !.fn = t.fn + 1].fn = t.fn + 1
    BY <1>1
  <2>3. tx \in [Senders -> [n : Nat, fn : Nat, len : Nat]]
    BY DEF Data!RxTypeOK
  <2> tx[s] = t
    OBVIOUS
  <2> HIDE DEF t
  <2>4. \A x \in Senders : tx'[x] = IF x = s THEN [t EXCEPT !.fn = t.fn + 1] ELSE tx[x]
    BY <2>1, <2>3
  <2>5. tx' \in [Senders -> [n : Nat, fn : Nat, len : Nat]]
    BY <2>1, <2>2, <2>3
  <2>6. \A x \in Senders : tx[x].fn \in Nat
    BY <2>3
  <2> QED BY <2>2, <2>4, <2>5, <2>6, <1>1
<1>3. g \in Data!Fragments /\ Data!Key(g) = <<s, t.n>> /\ g.fn = t.fn
  BY <1>1 DEF Data!Fragments, Data!Key
<1> HIDE DEF g
(* What waits on stays sound. *)
<1>4. ASSUME NEW e \in Data!Entries, Data!EntrySound(e) PROVE Data!EntrySound(e)'
  <2>1. e.key[1] \in Senders /\ e.key[2] \in Nat /\ e.next_fn \in Nat
    BY DEF Data!Entries
  <2> DEFINE x == e.key[1]
  <2>2. tx[x].n \in Nat /\ tx[x].fn \in Nat /\ tx'[x].fn \in Nat
        /\ tx'[x].n = tx[x].n /\ tx'[x].fn >= tx[x].fn
    BY <1>2, <2>1 DEF Data!RxTypeOK
  <2>3. Data!Past(e) => Data!Past(e)'
    BY <2>1, <2>2 DEF Data!Past
  <2>4. Data!InOrder(e) => Data!InOrder(e)'
    BY DEF Data!InOrder, Data!Key
  <2> QED BY <1>4, <2>1, <2>2, <2>3, <2>4 DEF Data!EntrySound
<1>5. PICK h \in Data!Fragments : h = g
  BY <1>3
<1>h. Data!Key(h) = <<s, t.n>> /\ h.fn = t.fn /\ t.fn \in Nat /\ t.n \in Nat
      /\ Data!Key(h)[1] = s /\ Data!Key(h)[2] = t.n /\ t = tx[s]
  BY <1>1, <1>3, <1>5
<1>n. ASSUME NEW a \in Data!Entries, a.key = Data!Key(h), a.next_fn < tx'[s].fn \/ Data!InOrder(a)
      PROVE  Data!EntrySound(a)'
  <2>1. a.key[1] = s /\ a.key[2] = tx'[s].n /\ tx'[s].n \in Nat
    BY <1>n, <1>h, <1>2
  <2>2. a.next_fn < tx'[s].fn => Data!Past(a)'
    BY <2>1, <1>2 DEF Data!Past, Data!Entries
  <2>3. Data!InOrder(a) => Data!InOrder(a)'
    BY DEF Data!InOrder, Data!Key
  <2> QED BY <1>n, <2>1, <2>2, <2>3 DEF Data!EntrySound
<1>i. ASSUME NEW e \in Data!Entries, Data!EntrySound(e), e.key = Data!Key(h), e.next_fn = h.fn
      PROVE  Data!InOrder(e) /\ Len(e.frags) = h.fn
  <2>1. ~Data!Past(e)
    BY <1>i, <1>h DEF Data!Past
  <2> QED BY <2>1, <1>i DEF Data!EntrySound, Data!InOrder
<1>a. ASSUME NEW e \in Data!Entries, Data!EntrySound(e), e.key = Data!Key(h), h.more
      PROVE  \E a \in Data!Entries : a = Data!Appended(e, h) /\ Data!EntrySound(a)'
  <2>1. CASE e.next_fn # h.fn
    BY <2>1, <1>4, <1>a DEF Data!Appended
  <2>2. CASE e.next_fn = h.fn
    <3>1. Data!InOrder(e) /\ Len(e.frags) = h.fn
      BY <2>2, <1>a, <1>i
    <3>2. PICK a \in Data!Entries : /\ a = Data!Appended(e, h) /\ a.key = e.key
                                    /\ a.next_fn = e.next_fn + 1 /\ a.frags = Append(e.frags, h)
      <4> DEFINE w == [key |-> e.key, frags |-> Append(e.frags, h),
                       next_fn |-> e.next_fn + 1, timer |-> e.timer]
      <4>1. Data!Appended(e, h) = w
        BY <2>2 DEF Data!Appended, Data!Entries
      <4>2. /\ e.key \in Senders \X Nat /\ Append(e.frags, h) \in Seq(Data!Fragments)
            /\ e.next_fn + 1 \in Nat /\ e.timer \in BOOLEAN
        BY DEF Data!Entries
      <4>3. w \in Data!Entries
        BY <4>2 DEF Data!Entries
      <4>4. w.key = e.key /\ w.next_fn = e.next_fn + 1 /\ w.frags = Append(e.frags, h)
        OBVIOUS
      <4> HIDE DEF w
      <4> QED BY <4>1, <4>3, <4>4
    <3>3. Data!InOrder(a)
      <4>1. e.frags \in Seq(Data!Fragments) /\ h.fn \in Nat
        BY DEF Data!Entries, Data!Fragments
      <4>2. Len(a.frags) = Len(e.frags) + 1
            /\ \A i \in 1..Len(e.frags) + 1 : a.frags[i] = IF i = Len(e.frags) + 1 THEN h ELSE e.frags[i]
        BY <3>2, <4>1
      <4> QED BY <3>1, <3>2, <4>1, <4>2, <1>a, <2>2 DEF Data!InOrder
    <3> QED BY <3>2, <3>3, <1>n, <1>a
  <2> QED BY <2>1, <2>2
<1>b. ASSUME h.more
      PROVE  \E a \in Data!Entries : a = Data!NewEntry(h) /\ Data!EntrySound(a)'
  <2>1. PICK a \in Data!Entries : /\ a = Data!NewEntry(h)
                                  /\ a.key = Data!Key(h)
                                  /\ a.next_fn = 1
                                  /\ a.frags = <<h>>
    <3>1. Data!Key(h) \in Senders \X Nat /\ <<h>> \in Seq(Data!Fragments) /\ 1 \in Nat
      BY <1>h
    <3>2. Data!NewEntry(h) \in Data!Entries
      BY <3>1 DEF Data!NewEntry, Data!Entries
    <3>3. /\ Data!NewEntry(h).key = Data!Key(h)
          /\ Data!NewEntry(h).next_fn = 1
          /\ Data!NewEntry(h).frags = <<h>>
      BY DEF Data!NewEntry
    <3> QED BY <3>2, <3>3
  <2>2. CASE h.fn = 0
    <3>1. Data!InOrder(a)
      BY <2>1, <2>2, <1>b DEF Data!InOrder
    <3> QED BY <2>1, <3>1, <1>n
  <2>3. CASE h.fn # 0
    <3>1. a.next_fn < tx'[s].fn
      BY <2>1, <2>3, <1>h, <1>2
    <3> QED BY <2>1, <3>1, <1>n
  <2> QED BY <2>2, <2>3
<1>c. ASSUME NEW e \in Data!Entries, e.key = Data!Key(h), e.next_fn = h.fn
      PROVE  \E a \in Data!Entries : a = [Data!Appended(e, h) EXCEPT !.next_fn = @ - 1] /\ Data!EntrySound(a)'
  <2>1. PICK a \in Data!Entries : /\ a = [Data!Appended(e, h) EXCEPT !.next_fn = @ - 1]
                                  /\ a.key = Data!Key(h)
                                  /\ a.next_fn = h.fn
    <3>1. Data!Appended(e, h) = [key |-> e.key, frags |-> Append(e.frags, h), next_fn |-> e.next_fn + 1, timer |-> e.timer]
      BY <1>c DEF Data!Appended, Data!Entries
    <3>2. /\ e.next_fn \in Nat
          /\ Append(e.frags, h) \in Seq(Data!Fragments)
          /\ e.timer \in BOOLEAN
          /\ e.key \in Senders \X Nat
      BY DEF Data!Entries
    <3>3. [Data!Appended(e, h) EXCEPT !.next_fn = @ - 1] =
            [key |-> e.key, frags |-> Append(e.frags, h), next_fn |-> e.next_fn, timer |-> e.timer]
      <4>1. (e.next_fn + 1) - 1 = e.next_fn
        BY <3>2
      <4>2. [[key |-> e.key, frags |-> Append(e.frags, h), next_fn |-> e.next_fn + 1, timer |-> e.timer]
               EXCEPT !.next_fn = @ - 1] =
            [key |-> e.key, frags |-> Append(e.frags, h), next_fn |-> (e.next_fn + 1) - 1, timer |-> e.timer]
        BY SMTT(30)
      <4> QED BY <3>1, <4>1, <4>2, Zenon
    <3> QED BY <3>2, <3>3, <1>c DEF Data!Entries
  <2>2. a.next_fn < tx'[s].fn
    BY <2>1, <1>h, <1>2
  <2> QED BY <2>1, <2>2, <1>n
<1>6. \A i \in 1..Len(list) : list[i] \in Data!Entries /\ Data!EntrySound(list[i])
  BY DEF Data!RxTypeOK
<1>7. ASSUME list' \in Seq(Data!Entries),
             \A i \in 1..Len(list') : \E e \in Data!Entries : e = list'[i] /\ Data!EntrySound(e)'
      PROVE  (\A i \in 1..Len(list) : Data!EntrySound(list[i]))'
  <2> SUFFICES ASSUME NEW i \in 1..Len(list') PROVE Data!EntrySound(list[i])'
    OBVIOUS
  <2>1. PICK e \in Data!Entries : e = list'[i] /\ Data!EntrySound(e)'
    BY <1>7
  <2> QED BY <2>1 DEF Data!EntrySound, Data!Past, Data!InOrder, Data!Key
(* One entry replaced. *)
<1>8. ASSUME NEW i \in 1..Len(list), NEW a \in Data!Entries, Data!EntrySound(a)',
             list' = [list EXCEPT ![i] = a]
      PROVE  list' \in Seq(Data!Entries) /\ (\A k \in 1..Len(list) : Data!EntrySound(list[k]))'
  <2>1. list \in Seq(Data!Entries)
    BY DEF Data!RxTypeOK
  <2>2. list' \in Seq(Data!Entries) /\ Len(list') = Len(list)
        /\ \A k \in 1..Len(list) : list'[k] = IF k = i THEN a ELSE list[k]
    BY <2>1, <1>8
  <2>3. ASSUME NEW k \in 1..Len(list')
        PROVE  \E e \in Data!Entries : e = list'[k] /\ Data!EntrySound(e)'
    <3>1. CASE k = i
      BY <2>2, <3>1, <1>8
    <3>2. CASE k # i
      BY <2>2, <3>2, <1>4, <1>6
    <3> QED BY <3>1, <3>2
  <2> QED BY <2>2, <2>3, <1>7
<1>9. Data!Pending(h) \subseteq 1..Len(list)
      /\ (Data!Pending(h) # {} => Data!EntryOf(h) \in Data!Pending(h) /\ list[Data!EntryOf(h)].key = Data!Key(h))
  BY DEF Data!Pending, Data!EntryOf
<1>10. list' = list => list' \in Seq(Data!Entries) /\ (\A k \in 1..Len(list) : Data!EntrySound(list[k]))'
  BY <1>4, <1>6, <1>7 DEF Data!RxTypeOK
<1>11. Data!UsedOnce(Data!Once) /\ Data!Once.out = <<>>
  BY OnceUsed
<1>12. CASE h.more /\ \E memory \in BOOLEAN : Data!MoreFrag(h, memory)
  <2>1. last' = Data!Once
    BY <1>12 DEF Data!MoreFrag
  <2>2. Data!FramesSound'
    BY <2>1, <1>11, Sound
  <2>3. CASE Data!Pending(h) # {}
    <3> DEFINE i == Data!EntryOf(h)
    <3>1. /\ i \in 1..Len(list)
          /\ list[i] \in Data!Entries
          /\ Data!EntrySound(list[i])
          /\ list[i].key = Data!Key(h)
      BY <2>3, <1>6, <1>9
    <3>2. list' = [list EXCEPT ![i] = Data!Appended(list[i], h)]
      BY <1>12, <2>3 DEF Data!MoreFrag
    <3> HIDE DEF i
    <3>3. PICK a \in Data!Entries : a = Data!Appended(list[i], h) /\ Data!EntrySound(a)'
      BY <3>1, <1>12, <1>a
    <3> QED BY <3>1, <3>2, <3>3, <1>8, <2>2, <1>1, <1>2 DEF Data!RxTypeOK
  <2>4. CASE list' = Append(list, Data!NewEntry(h))
    <3>1. PICK a \in Data!Entries : a = Data!NewEntry(h) /\ Data!EntrySound(a)'
      BY <1>12, <1>b
    <3>2. list' \in Seq(Data!Entries) /\ Len(list') = Len(list) + 1
          /\ \A k \in 1..Len(list) + 1 : list'[k] = IF k = Len(list) + 1 THEN a ELSE list[k]
      BY <2>4, <3>1 DEF Data!RxTypeOK
    <3>3. ASSUME NEW k \in 1..Len(list')
          PROVE  \E e \in Data!Entries : e = list'[k] /\ Data!EntrySound(e)'
      <4>1. CASE k = Len(list) + 1
        BY <3>1, <3>2, <4>1
      <4>2. CASE k # Len(list) + 1
        <5>1. k \in 1..Len(list)
          BY <3>2, <4>2
        <5> QED BY <3>2, <4>2, <5>1, <1>4, <1>6
      <4> QED BY <4>1, <4>2
    <3> QED BY <3>2, <3>3, <1>7, <2>2, <1>1, <1>2 DEF Data!RxTypeOK
  <2>5. CASE list' = list
    BY <2>5, <1>10, <2>2, <1>1, <1>2 DEF Data!RxTypeOK
  <2> QED BY <2>3, <2>4, <2>5, <1>12 DEF Data!MoreFrag
<1>13. ASSUME ~h.more, NEW qos \in BOOLEAN, NEW room \in BOOLEAN, NEW d \in Data!Dsts,
             Data!LastFrag(h, Data!DataFrame(qos, FALSE, <<d>>), room)
      PROVE  Data!RxTypeOK' /\ Data!FramesSound' /\ (\A i \in 1..Len(list) : Data!EntrySound(list[i]))'
  <2> DEFINE f == Data!DataFrame(qos, FALSE, <<d>>)
  <2>1. CASE Data!Pending(h) = {}
    <3>1. list' = list /\ last' = Data!Whole(f, room, 0)
      BY <1>13, <2>1 DEF Data!LastFrag
    <3>2. <<d>> \in Seq(Data!Dsts) /\ Len(<<d>>) = 1 /\ <<d>> # <<>> /\ 0 \in 0..Len(<<d>>)
      OBVIOUS
    <3>3. Data!Whole(f, room, 0).out = <<>> /\ Data!UsedOnce(Data!Whole(f, room, 0))
      BY <3>2, WholeOnce
    <3>4. Data!FramesSound'
      BY <3>1, <3>3, Sound
    <3> QED BY <3>1, <3>4, <1>10, <1>1, <1>2 DEF Data!RxTypeOK
  <2>2. CASE Data!Pending(h) # {}
    <3> DEFINE i == Data!EntryOf(h)
               e == list[i]
    <3>1. /\ i \in 1..Len(list)
          /\ list[i] \in Data!Entries
          /\ Data!EntrySound(list[i])
          /\ list[i].key = Data!Key(h)
      BY <2>2, <1>6, <1>9
    <3>2. CASE Data!Appended(e, h) = e
      <4>1. list' = list /\ last' = Data!Once
        BY <1>13, <2>2, <3>2 DEF Data!LastFrag
      <4> QED BY <4>1, <1>10, <1>11, Sound, <1>1, <1>2 DEF Data!RxTypeOK
    <3>3. CASE Data!Appended(e, h) # e
      <4>1. e.next_fn = h.fn
        BY <3>3 DEF Data!Appended
      <4>2. CASE ~vifUp
        <5>1. /\ list' = [list EXCEPT ![i] = [Data!Appended(e, h) EXCEPT !.next_fn = @ - 1]]
              /\ last' = Data!Once
          BY <1>13, <2>2, <3>3, <4>2 DEF Data!LastFrag
        <5>2. PICK a \in Data!Entries : /\ a = [Data!Appended(e, h) EXCEPT !.next_fn = @ - 1]
                                        /\ Data!EntrySound(a)'
          BY <3>1, <4>1, <1>c
        <5>3. Data!FramesSound'
          BY <5>1, <1>11, Sound
        <5> HIDE DEF i, e
        <5> QED BY <3>1, <5>1, <5>2, <5>3, <1>8, <1>1, <1>2 DEF Data!RxTypeOK
      <4>3. CASE vifUp
        <5>1. /\ list' = Data!RemoveAt(list, i)
              /\ last' = Data!Outcome(<<1>> \o (IF Data!Forward(f.dst[1]) THEN Data!Delivered(f.dst) ELSE <<1>>),
                                  Data!Appended(e, h).frags, "")
          BY <1>13, <2>2, <3>3, <4>3 DEF Data!LastFrag
        <5>2. list' \in Seq(Data!Entries) /\ (\A k \in 1..Len(list) : Data!EntrySound(list[k]))'
          <6>1. list \in Seq(Data!Entries)
            BY DEF Data!RxTypeOK
          <6>2. /\ list' \in Seq(Data!Entries)
                /\ \A k \in 1..Len(list') : \E j \in 1..Len(list) : list'[k] = list[j]
            <7> HIDE DEF i
            <7>1. /\ Data!RemoveAt(list, i) \in Seq(Data!Entries)
                  /\ \A k \in 1..Len(Data!RemoveAt(list, i)) :
                       \E j \in 1..Len(list) : Data!RemoveAt(list, i)[k] = list[j]
              BY <3>1, <6>1, Removed, SMTT(30)
            <7> QED BY <5>1, <7>1
          <6>3. ASSUME NEW k \in 1..Len(list')
                PROVE  \E x \in Data!Entries : x = list'[k] /\ Data!EntrySound(x)'
            BY <6>2, <1>4, <1>6
          <6> QED BY <6>2, <6>3, <1>7
        <5>3. Data!UsedOnce(last')
          <6>1. f.dst = <<d>>
            BY DEF Data!DataFrame
          <6> DEFINE u == IF Data!Forward(f.dst[1]) THEN Data!Delivered(f.dst) ELSE <<1>>
          <6>2. u \in Seq({1})
            <7>1. Data!Forward(d) => Data!Delivered(<<d>>) = [k \in 1..1 |-> 1]
              BY DEF Data!Delivered
            <7>2. [k \in 1..1 |-> 1] \in Seq({1}) /\ <<1>> \in Seq({1})
              OBVIOUS
            <7>3. <<d>>[1] = d
              OBVIOUS
            <7> HIDE DEF f
            <7> QED BY <6>1, <7>1, <7>2, <7>3
          <6> HIDE DEF u
          <6>3. <<1>> \o u \in Seq({1})
            BY <6>2
          <6>4. \A k \in DOMAIN (<<1>> \o u) : (<<1>> \o u)[k] = 1
            BY <6>3
          <6>5. last'.uses = <<1>> \o u /\ last'.leak = ""
            BY <5>1 DEF Data!Outcome, u
          <6> QED BY <6>4, <6>5 DEF Data!UsedOnce
        <5>4. Data!WholeFrame(last'.out)
          <6>1. Data!InOrder(e) /\ Len(e.frags) = h.fn
            BY <3>1, <4>1, <1>i
          <6>2. e.frags \in Seq(Data!Fragments) /\ h.fn \in Nat
            BY <3>1 DEF Data!Entries, Data!Fragments
          <6> DEFINE p == Append(e.frags, h)
          <6>3. last'.out = p
            BY <5>1, <4>1, <3>1 DEF Data!Outcome, Data!Appended, Data!Entries
          <6>4. Len(p) = Len(e.frags) + 1 /\ DOMAIN p = 1..(Len(e.frags) + 1)
                /\ \A k \in 1..Len(e.frags) + 1 : p[k] = IF k = Len(e.frags) + 1 THEN h ELSE e.frags[k]
            BY <6>2
          <6> HIDE DEF p, e
          <6>5. \A k \in 1..Len(p) : /\ Data!Key(p[k]) = Data!Key(h) /\ p[k].fn = k - 1
                                     /\ p[k].more <=> k < Len(p)
            <7> SUFFICES ASSUME NEW k \in 1..Len(p)
                         PROVE  /\ Data!Key(p[k]) = Data!Key(h) /\ p[k].fn = k - 1
                                /\ p[k].more <=> k < Len(p)
              OBVIOUS
            <7>1. CASE k = Len(e.frags) + 1
              BY <6>1, <6>2, <6>4, <7>1, <1>13
            <7>2. CASE k # Len(e.frags) + 1
              <8>1. k \in 1..Len(e.frags) /\ p[k] = e.frags[k] /\ k < Len(p)
                BY <6>2, <6>4, <7>2
              <8> QED BY <6>1, <8>1, <3>1 DEF Data!InOrder, e
            <7> QED BY <7>1, <7>2
          <6>6. Data!Key(p[1]) = Data!Key(h) /\ DOMAIN p = 1..Len(p)
            BY <6>2, <6>4, <6>5
          <6>7. Data!WholeFrame(p)
            <7> SUFFICES ASSUME NEW k \in 1..Len(p)
                         PROVE  /\ Data!Key(p[k]) = Data!Key(p[1]) /\ p[k].fn = k - 1
                                /\ p[k].more <=> k < Len(p)
              BY <6>6, Zenon DEF Data!WholeFrame
            <7>1. /\ Data!Key(p[k]) = Data!Key(h) /\ p[k].fn = k - 1
                  /\ p[k].more <=> k < Len(p)
              BY <6>5, Zenon
            <7>2. Data!Key(p[k]) = Data!Key(p[1])
              BY <7>1, <6>6, Zenon
            <7> QED BY <7>1, <7>2, Zenon
          <6> QED BY <6>3, <6>7
        <5> QED BY <5>2, <5>3, <5>4, <1>1, <1>2
                  DEF Data!RxTypeOK, Data!FramesSound, Data!SkbOnce, Data!OnlyWhole
      <4> QED BY <4>2, <4>3
    <3> QED BY <3>2, <3>3
  <2> QED BY <2>1, <2>2
<1> QED BY <1>5, <1>12, <1>13 DEF Data!RxFragment, g

(* rwnx_rxdataind_aicwf uses every buffer once, apart from the three leaks *)
(* that the code has, and a frame put together from fragments is made of   *)
(* all the fragments of one frame of one sender, each once and in order,   *)
(* whatever is lost, times out or starts again in between.                 *)
THEOREM DataFramesSound ==
    ASSUME Data!RxDataAssumption PROVE Data!Spec => []Data!FramesSound
<1>1. Data!Init => Data!FramesInv
  <2> SUFFICES ASSUME Data!Init PROVE Data!FramesInv
    OBVIOUS
  <2>1. Data!RxTypeOK /\ Len(list) = 0
    <3>1. tx \in [Senders -> [n : Nat, fn : Nat, len : Nat]]
      BY DEF Data!Init
    <3>2. list \in Seq(Data!Entries) /\ Len(list) = 0
      BY DEF Data!Init
    <3>3. type \in {"STA", "AP"} /\ vifUp \in BOOLEAN /\ monUp \in BOOLEAN
      BY DEF Data!Init
    <3> QED BY <3>1, <3>2, <3>3 DEF Data!RxTypeOK
  <2>2. Data!UsedOnce(last) /\ last.out = <<>>
    BY OnceUsed DEF Data!Init
  <2>3. Data!WholeFrame(last.out)
    BY <2>2 DEF Data!WholeFrame
  <2> QED BY <2>1, <2>2, <2>3
            DEF Data!FramesInv, Data!FramesSound, Data!SkbOnce, Data!OnlyWhole
<1>2. Data!FramesInv /\ [Data!Next]_Data!vars => Data!FramesInv'
  <2> SUFFICES ASSUME Data!FramesInv, [Data!Next]_Data!vars PROVE Data!FramesInv'
    OBVIOUS
  <2>1. /\ Data!RxTypeOK
        /\ Data!FramesSound
        /\ \A i \in 1..Len(list) : Data!EntrySound(list[i])
    BY DEF Data!FramesInv
  <2>2. ASSUME UNCHANGED <<list, tx>>
        PROVE  (\A i \in 1..Len(list) : Data!EntrySound(list[i]))'
    BY <2>1, <2>2 DEF Data!EntrySound, Data!Past, Data!InOrder, Data!Key
  <2>3. CASE Data!RxData
    <3>1. PICK qos \in BOOLEAN, reord \in BOOLEAN, room \in BOOLEAN,
               dst \in Data!SeqOf(Data!Dsts, 2) \ {<<>>} : \E made \in 0..Len(dst) :
                 last' = Data!Whole(Data!DataFrame(qos, reord, dst), room, made)
      BY <2>3 DEF Data!RxData
    <3>2. dst \in Seq(Data!Dsts) /\ dst # <<>> /\ Len(dst) \in {1, 2}
      <4>1. PICK m \in 0..2 : dst \in [1..m -> Data!Dsts]
        BY <3>1 DEF Data!SeqOf
      <4>2. dst \in Seq(Data!Dsts) /\ Len(dst) = m
        BY <4>1
      <4>3. dst # <<>>
        BY <3>1
      <4>4. m # 0
        BY <4>2, <4>3
      <4> QED BY <4>1, <4>2, <4>3, <4>4
    <3>3. last'.out = <<>> /\ Data!UsedOnce(last')
      BY <2>1, <3>1, <3>2, WholeOnce
    <3> QED BY <2>1, <2>2, <2>3, <3>3, Sound DEF Data!RxData, Data!FramesInv, Data!RxTypeOK
  <2>4. CASE Data!RxOther
    <3>1. last'.out = <<>> /\ Data!UsedOnce(last')
      BY <2>1, <2>4, OtherOnce DEF Data!RxOther
    <3> QED BY <2>1, <2>2, <2>4, <3>1, Sound DEF Data!RxOther, Data!FramesInv, Data!RxTypeOK
  <2>5. CASE Data!Toggle
    <3>1. UNCHANGED <<list, tx, last, type>> /\ vifUp' \in BOOLEAN /\ monUp' \in BOOLEAN
      BY <2>1, <2>5 DEF Data!Toggle, Data!RxTypeOK
    <3> QED BY <2>1, <2>2, <3>1
              DEF Data!FramesInv, Data!RxTypeOK, Data!FramesSound, Data!SkbOnce,
                  Data!OnlyWhole
  <2>6. ASSUME NEW s \in Senders, Data!Begin(s) \/ Data!Lose(s) PROVE Data!FramesInv'
    <3>1. UNCHANGED <<list, last, type, vifUp, monUp>>
      BY <2>6 DEF Data!Begin, Data!Lose
    <3>2. /\ tx' \in [Senders -> [n : Nat, fn : Nat, len : Nat]]
          /\ \A x \in Senders : \/ tx'[x].n = tx[x].n /\ tx'[x].fn >= tx[x].fn
                                \/ tx'[x].n > tx[x].n
      <4> DEFINE T == [n : Nat, fn : Nat, len : Nat]
      <4>1. tx \in [Senders -> T] /\ tx[s] \in T
        BY <2>1 DEF Data!RxTypeOK
      <4>2. PICK u \in T : /\ tx' = [tx EXCEPT ![s] = u]
                           /\ \/ u.n = tx[s].n /\ u.fn >= tx[s].fn
                              \/ u.n > tx[s].n
        <5>1. CASE Data!Begin(s)
          <6>1. PICK len \in 2..MaxFrag : tx' = [tx EXCEPT ![s] = [n |-> tx[s].n + 1, fn |-> 0, len |-> len]]
            BY <5>1 DEF Data!Begin
          <6>2. [n |-> tx[s].n + 1, fn |-> 0, len |-> len] \in T /\ tx[s].n + 1 > tx[s].n
            BY <4>1 DEF Data!RxDataAssumption
          <6> QED BY <6>1, <6>2
        <5>2. CASE Data!Lose(s)
          <6>1. tx' = [tx EXCEPT ![s] = [tx[s] EXCEPT !.fn = tx[s].fn + 1]]
            BY <5>2 DEF Data!Lose, Data!Next1
          <6>2. [tx[s] EXCEPT !.fn = tx[s].fn + 1] \in T
                /\ [tx[s] EXCEPT !.fn = tx[s].fn + 1].n = tx[s].n
                /\ [tx[s] EXCEPT !.fn = tx[s].fn + 1].fn >= tx[s].fn
            BY <4>1
          <6> QED BY <6>1, <6>2
        <5> QED BY <2>6, <5>1, <5>2
      <4> HIDE DEF T
      <4>3. tx' \in [Senders -> T] /\ \A x \in Senders : tx'[x] = IF x = s THEN u ELSE tx[x]
        BY <4>1, <4>2
      <4>4. \A x \in Senders : tx[x].fn >= tx[x].fn
        BY <4>1 DEF T
      <4> QED BY <4>2, <4>3, <4>4 DEF T
    <3>3. ASSUME NEW e \in Data!Entries, Data!EntrySound(e) PROVE Data!EntrySound(e)'
      <4>1. e.key[1] \in Senders /\ e.key[2] \in Nat /\ e.next_fn \in Nat
        BY DEF Data!Entries
      <4> DEFINE x == e.key[1]
      <4>2. /\ tx[x].n \in Nat /\ tx[x].fn \in Nat /\ tx'[x].fn \in Nat /\ tx'[x].n \in Nat
            /\ \/ tx'[x].n = tx[x].n /\ tx'[x].fn >= tx[x].fn
               \/ tx'[x].n > tx[x].n
        BY <2>1, <3>2, <4>1 DEF Data!RxTypeOK
      <4>3. Data!Past(e) => Data!Past(e)'
        BY <3>3, <4>1, <4>2 DEF Data!Past, Data!EntrySound
      <4>4. Data!InOrder(e) => Data!InOrder(e)'
        BY DEF Data!InOrder, Data!Key
      <4> QED BY <3>3, <4>1, <4>2, <4>3, <4>4 DEF Data!EntrySound
    <3>4. (\A i \in 1..Len(list) : Data!EntrySound(list[i]))'
      <4> SUFFICES ASSUME NEW i \in 1..Len(list) PROVE Data!EntrySound(list[i])'
        BY <3>1
      <4>1. PICK e \in Data!Entries : e = list[i] /\ Data!EntrySound(e)
        BY <2>1 DEF Data!RxTypeOK
      <4> QED BY <3>1, <3>3, <4>1 DEF Data!EntrySound, Data!Past, Data!InOrder, Data!Key
    <3> QED BY <2>1, <3>1, <3>2, <3>4
              DEF Data!FramesInv, Data!RxTypeOK, Data!FramesSound, Data!SkbOnce,
                  Data!OnlyWhole
  <2>7. ASSUME NEW s \in Senders, Data!RxFragment(s) PROVE Data!FramesInv'
    BY <2>1, <2>7, FragmentStep DEF Data!FramesInv
  <2>8. ASSUME NEW k \in Data!Keys, Data!DefragTimeout(k) PROVE Data!FramesInv'
    <3>1. UNCHANGED <<type, vifUp, monUp, tx>> /\ last' = Data!Once
      BY <2>8 DEF Data!DefragTimeout
    <3>2. PICK i \in 1..Len(list) : list' = Data!RemoveAt(list, i)
      BY <2>8 DEF Data!DefragTimeout
    <3>3. list \in Seq(Data!Entries)
      BY <2>1 DEF Data!RxTypeOK
    <3>4. /\ list' \in Seq(Data!Entries)
          /\ \A n \in 1..Len(list') : \E j \in 1..Len(list) : list'[n] = list[j]
      BY <3>2, <3>3, Removed
    <3>5. (\A n \in 1..Len(list) : Data!EntrySound(list[n]))'
      <4> SUFFICES ASSUME NEW n \in 1..Len(list') PROVE Data!EntrySound(list[n])'
        OBVIOUS
      <4>1. PICK e \in Data!Entries : e = list'[n] /\ Data!EntrySound(e)
        BY <2>1, <3>3, <3>4
      <4>2. Data!EntrySound(e)'
        BY <3>1, <4>1 DEF Data!EntrySound, Data!Past, Data!InOrder, Data!Key
      <4>3. Data!EntrySound(list[n])' <=> Data!EntrySound(e)'
        BY <4>1 DEF Data!EntrySound, Data!Past, Data!InOrder, Data!Key
      <4> QED BY <4>2, <4>3
    <3>6. Data!UsedOnce(last') /\ last'.out = <<>>
      BY <3>1, OnceUsed
    <3> QED BY <2>1, <3>1, <3>4, <3>5, <3>6, Sound DEF Data!FramesInv, Data!RxTypeOK
  <2>9. CASE UNCHANGED Data!vars
    BY <2>1, <2>2, <2>9
      DEF Data!vars, Data!FramesInv, Data!RxTypeOK, Data!FramesSound, Data!SkbOnce,
          Data!OnlyWhole
  <2> QED BY <2>3, <2>4, <2>5, <2>6, <2>7, <2>8, <2>9 DEF Data!Next
<1>3. Data!FramesInv => Data!FramesSound
  BY DEF Data!FramesInv
<1> QED BY <1>1, <1>2, <1>3, PTL DEF Data!Spec

(* The same for the behaviours of the receive run.                         *)
THEOREM RxFramesSound == MCSpec => []FramesSound
<1>1. MCInit => Data!Init
  BY DEF MCInit
<1>2. [MCNext]_allVars => [Data!Next]_Data!vars
  BY DEF MCNext, Usb, Pipe, Frames, allVars, dataVars, Data!vars
<1>3. Data!FramesSound => FramesSound
  BY DEF FramesSound
<1>4. Data!RxDataAssumption
  BY DataAssumption
<1> QED
  BY <1>1, <1>2, <1>3, <1>4, DataFramesSound, PTL DEF MCSpec, Data!Spec
=============================================================================
