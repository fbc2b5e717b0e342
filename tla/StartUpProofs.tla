--------------------------- MODULE StartUpProofs ----------------------------
(***************************************************************************)
(* Proofs about the start and the stop of the main driver (StartUp).       *)
(***************************************************************************)
EXTENDS StartUp, TLAPS

(* What the init holds of a device that works; the filter's timers, which  *)
(* the error labels forget, are left out of the account.                   *)
Full == {"wiphy", "wakelock", "cache", "wq", "registered", "debugfs", "netdev"}
H == held \ {"tcp"}

Inner == {"deinit", "unregister", "off", "free"}
InProbe == {"wiphy", "cache", "wq", "script", "debugfs", "netdev", "out",
            "err_interface", "err_debugfs", "err_lmac", "err_cache"}
Stopping == {"disc_sem", "up"} \cup Inner
TypeInv ==
    /\ pc \in [Threads -> {"idle", "sem", "deregister", "gone"} \cup InProbe \cup Stopping]
    /\ pc["usb"] \in {"idle"} \cup InProbe \cup Stopping
    /\ pc["exit"] \in {"idle", "sem", "deregister", "gone"} \cup Stopping
    /\ sem \in {"free", "usb", "exit"} /\ hw \in {"none", "live", "freed"}
    /\ ret \in {-1, 0}
    /\ held \subseteq Full \cup {"tcp"}

(* The semaphore is held by the thread that stops the device.              *)
SemInv == \A t \in Threads : pc[t] \in Inner \cup {"up"} <=> sem = t

(* While the probe runs the device is not bound nor enabled, and nobody    *)
(* stops it; what it holds is what its labels give back.                   *)
ProbeInv ==
    pc["usb"] \in InProbe =>
      /\ ~bound /\ ~enabled /\ pc["exit"] \notin Inner \cup {"disc_sem"}
      /\ pc["usb"] = "wiphy" => H = {}
      /\ pc["usb"] = "cache" => H = {"wiphy", "wakelock"}
      /\ pc["usb"] = "wq" => H = {"wiphy", "wakelock", "cache"}
      /\ pc["usb"] \in {"script", "err_lmac"} => H = {"wiphy", "wakelock", "cache", "wq"}
      /\ pc["usb"] \in {"debugfs", "err_debugfs"} =>
           H = {"wiphy", "wakelock", "cache", "wq", "registered"}
      /\ pc["usb"] \in {"netdev", "err_interface"} => H = Full \ {"netdev"}
      /\ pc["usb"] = "err_cache" => H \subseteq {"wiphy", "wakelock"}
      /\ pc["usb"] = "out" => H = (IF ret = 0 THEN Full ELSE {})
      /\ pc["usb"] \in {"err_lmac", "err_debugfs", "err_interface", "err_cache"} => ret = -1
      /\ pc["usb"] \in {"cache", "wq", "script", "debugfs", "netdev"} => ret = 0
      /\ pc["usb"] # "wiphy" /\ (pc["usb"] = "out" => ret = 0) => hw = "live"

(* Between the probe and the stop a device is whole or gone, as enabled    *)
(* says, and a stop takes it apart in order.                               *)
StopInv ==
    /\ (\A t \in Threads : pc[t] \notin Inner) /\ pc["usb"] \notin InProbe =>
         H = IF enabled THEN Full ELSE {}
    /\ \A t \in Threads :
         /\ pc[t] \in Inner => hw = "live" /\ (enabled <=> pc[t] # "free")
         /\ pc[t] = "deinit" => H = Full
         /\ pc[t] = "unregister" => H = Full \ {"debugfs", "wq"}
         /\ pc[t] \in {"off", "free"} => H = {"wiphy", "wakelock", "cache"}
    /\ enabled => hw = "live"

(* An enabled device is bound, or a thread is there that stops it.         *)
BoundInv ==
    /\ enabled => bound \/ \E t \in Threads : pc[t] \in Inner \cup {"disc_sem"}
    /\ pc["usb"] \in Stopping => ~bound
    /\ pc["exit"] = "disc_sem" => ~bound /\ pc["usb"] = "idle"
    /\ pc["exit"] \in Inner /\ listed => bound \/ pc["usb"] = "disc_sem"
    /\ pc["exit"] \in Inner /\ ~listed => ~bound /\ pc["usb"] = "idle"
    /\ pc["exit"] \in {"deregister", "disc_sem", "gone"} => ~listed
    /\ pc["exit"] \in {"idle", "sem"} => listed

DeviceInv == TypeInv /\ SemInv /\ ProbeInv /\ StopInv /\ BoundInv

(* Every step of the probe, of a disconnect and of the exit keeps it.      *)
LEMMA DeviceStep ==
    ASSUME WqFails = FALSE, DeviceInv, [Next]_vars
    PROVE  DeviceInv'
<1> USE DEF DeviceInv, TypeInv, SemInv, ProbeInv, StopInv, BoundInv, Full, H, Inner,
        InProbe, Stopping, Threads, setup, chipVars, glob, drv, Goto, Fail
<1>1. CASE Plug
  BY <1>1 DEF Plug
<1>2. CASE Unplug
  BY <1>2 DEF Unplug
<1>3. CASE WiphyNew
  <2>1. TypeInv'
    BY <1>3 DEF WiphyNew
  <2>2. SemInv'
    BY <1>3 DEF WiphyNew
  <2>3. ProbeInv'
    <3>1. CASE pc' = [pc EXCEPT !["usb"] = "cache"]
      <4>1. H' = {"wiphy", "wakelock"} /\ hw' = "live" /\ ret' = 0 /\ ~enabled'
        BY <1>3, <3>1 DEF WiphyNew
      <4> QED
        BY <1>3, <3>1, <4>1 DEF WiphyNew
    <3>2. CASE pc' = [pc EXCEPT !["usb"] = "out"]
      <4>1. H' = {} /\ ret' = -1 /\ ~enabled'
        BY <1>3, <3>2 DEF WiphyNew
      <4> QED
        BY <1>3, <3>2, <4>1 DEF WiphyNew
    <3> QED
      BY <1>3, <3>1, <3>2 DEF WiphyNew
  <2>4. StopInv'
    BY <1>3 DEF WiphyNew
  <2>5. BoundInv'
    BY <1>3 DEF WiphyNew
  <2> QED
    BY <2>1, <2>2, <2>3, <2>4, <2>5
<1>4. CASE CacheNew
  BY <1>4 DEF CacheNew
<1>5. CASE WqNew
  BY <1>5 DEF WqNew
<1>6. CASE Skip
  BY <1>6 DEF Skip, InScript
<1>7. CASE Answered
  BY <1>7 DEF Answered, InScript
<1>8. CASE Lost
  BY <1>8 DEF Lost, InScript, OnError
<1>9. CASE NoCommand
  BY <1>9 DEF NoCommand, InScript, OnError
<1>10. CASE WrongRegister
  BY <1>10 DEF WrongRegister, InScript
<1>11. CASE WiphyRegister
  BY <1>11 DEF WiphyRegister
<1>12. CASE DbgfsRegister
  BY <1>12 DEF DbgfsRegister
<1>13. CASE InterfaceAdd
  BY <1>13 DEF InterfaceAdd
<1>14. CASE ErrInterface
  BY <1>14 DEF ErrInterface, Label
<1>15. CASE ErrDebugfs
  BY <1>15 DEF ErrDebugfs, Label
<1>16. CASE ErrLmac
  BY <1>16 DEF ErrLmac, Label
<1>17. CASE ErrCache
  <2>1. TypeInv'
    BY <1>17 DEF ErrCache, Label
  <2>2. SemInv'
    BY <1>17 DEF ErrCache, Label
  <2>3. ProbeInv'
    <3>1. H' = {} /\ pc'["usb"] = "out" /\ ret' = -1
      BY <1>17 DEF ErrCache, Label
    <3> QED
      BY <1>17, <3>1 DEF ErrCache, Label
  <2>4. StopInv'
    BY <1>17 DEF ErrCache, Label
  <2>5. BoundInv'
    BY <1>17 DEF ErrCache, Label
  <2> QED
    BY <2>1, <2>2, <2>3, <2>4, <2>5
<1>18. CASE ProbeEnd
  <2>1. CASE ret = 0
    <3>1. enabled' /\ bound'
      <4>1. ~(ret < 0) /\ ret >= 0
        BY <2>1
      <4> QED
        BY <1>18, <4>1, Zenon DEF ProbeEnd
    <3> QED
      BY <1>18, <2>1, <3>1 DEF ProbeEnd
  <2>2. CASE ret = -1
    <3>1. ~enabled' /\ ~bound'
      <4>1. ret < 0 /\ ~(ret >= 0) /\ ~enabled
        BY <1>18, <2>2 DEF ProbeEnd
      <4> QED
        BY <1>18, <4>1, Zenon DEF ProbeEnd
    <3> QED
      BY <1>18, <2>2, <3>1 DEF ProbeEnd
  <2> QED
    BY <2>1, <2>2
<1>19. CASE ExitBegin
  BY <1>19 DEF ExitBegin
<1>20. CASE ExitSem
  BY <1>20 DEF ExitSem
<1>21. CASE ExitEnd
  BY <1>21 DEF ExitEnd
<1>22. ASSUME NEW t \in Threads, Disconnect(t) PROVE DeviceInv'
  BY <1>22 DEF Disconnect
<1>23. ASSUME NEW t \in Threads, DiscSem(t) PROVE DeviceInv'
  BY <1>23 DEF DiscSem
<1>24. ASSUME NEW t \in Threads, DeinitUp(t) PROVE DeviceInv'
  <2>1. CASE t = "usb"
    <3>1. listed' <=> listed
      BY <1>24, <2>1 DEF DeinitUp
    <3> QED
      BY <1>24, <2>1, <3>1 DEF DeinitUp
  <2>2. CASE t = "exit"
    <3>1. ~listed'
      BY <1>24, <2>2 DEF DeinitUp
    <3> QED
      BY <1>24, <2>2, <3>1 DEF DeinitUp
  <2> QED
    BY <2>1, <2>2
<1>25. ASSUME NEW t \in Threads, DeinitStop(t) PROVE DeviceInv'
  BY <1>25 DEF DeinitStop, Release
<1>26. ASSUME NEW t \in Threads, DeinitUnregister(t) PROVE DeviceInv'
  BY <1>26 DEF DeinitUnregister, Release
<1>27. ASSUME NEW t \in Threads, DeinitOff(t) PROVE DeviceInv'
  BY <1>27 DEF DeinitOff, Release
<1>28. ASSUME NEW t \in Threads, DeinitFree(t) PROVE DeviceInv'
  BY <1>28 DEF DeinitFree, Release
<1>29. CASE UNCHANGED vars
  BY <1>29 DEF vars
<1> QED
  BY <1>1, <1>2, <1>3, <1>4, <1>5, <1>6, <1>7, <1>8, <1>9, <1>10, <1>11, <1>12, <1>13, <1>14, <1>15, <1>16, <1>17, <1>18, <1>19, <1>20, <1>21, <1>22, <1>23, <1>24, <1>25, <1>26, <1>27, <1>28, <1>29
     DEF Next, Probe, Exit, Stop

(* When the workqueue can be made, for every product, revision, mode and   *)
(* order of plugging, unplugging and unloading: what the init took is      *)
(* given back, and an enabled platform has a live device, which is stopped *)
(* once.                                                                   *)
THEOREM SpecDeviceSound ==
    ASSUME WqFails = FALSE PROVE Spec => []DeviceSound
<1>1. Init => DeviceInv
  BY DEF Init, DeviceInv, TypeInv, SemInv, ProbeInv, StopInv, BoundInv, Full, H, Inner,
         InProbe, Stopping, Threads
<1>2. DeviceInv /\ [Next]_vars => DeviceInv'
  BY DeviceStep
<1>3. DeviceInv => DeviceSound
  BY DEF DeviceInv, TypeInv, ProbeInv, StopInv, BoundInv, Full, H, Inner, InProbe,
         Stopping, Threads, DeviceSound, Unwound, HwLive
<1> QED
  BY <1>1, <1>2, <1>3, PTL DEF Spec

-----------------------------------------------------------------------------
(* A registered device is enabled, but for the end of the probe, and bound *)
(* or being stopped; so no device is registered when one is plugged.       *)
Registered == "registered" \in held
TypedPc ==
    /\ pc \in [Threads -> {"idle", "sem", "deregister", "gone"} \cup InProbe \cup Stopping]
    /\ pc["usb"] \in {"idle"} \cup InProbe \cup Stopping
    /\ pc["exit"] \in {"idle", "sem", "deregister", "gone"} \cup Stopping
    /\ sem \in {"free", "usb", "exit"} /\ ret \in {-1, 0}
ProbeAlone ==
    /\ pc["usb"] \in InProbe => ~bound /\ ~enabled /\ pc["exit"] \notin Inner \cup {"disc_sem"}
    /\ pc["usb"] \in {"wiphy", "cache", "wq", "script", "err_lmac", "err_cache"} => ~Registered
    /\ pc["usb"] = "out" /\ ret # 0 => ~Registered
    /\ pc["usb"] \in {"cache", "wq", "script", "debugfs", "netdev"} => ret = 0
StopEnabled ==
    /\ pc["usb"] \notin InProbe /\ Registered => enabled
    /\ \A t \in Threads : /\ pc[t] \in {"off", "free"} => ~Registered
                          /\ pc[t] \in Inner => (enabled <=> pc[t] # "free")
RegisteredInv == TypedPc /\ SemInv /\ ProbeAlone /\ StopEnabled /\ BoundInv

(* Every step keeps it, also without a workqueue.                          *)
LEMMA RegisteredStep ==
    ASSUME RegisteredInv, [Next]_vars
    PROVE  RegisteredInv'
<1> USE DEF RegisteredInv, TypedPc, SemInv, ProbeAlone, StopEnabled, BoundInv, Registered, Inner,
        InProbe, Stopping, Threads, setup, chipVars, glob, drv, Goto, Fail
<1>1. CASE Plug
  BY <1>1 DEF Plug
<1>2. CASE Unplug
  BY <1>2 DEF Unplug
<1>3. CASE WiphyNew
  BY <1>3 DEF WiphyNew
<1>4. CASE CacheNew
  BY <1>4 DEF CacheNew
<1>5. CASE WqNew
  BY <1>5 DEF WqNew
<1>6. CASE Skip
  BY <1>6 DEF Skip, InScript
<1>7. CASE Answered
  BY <1>7 DEF Answered, InScript
<1>8. CASE Lost
  BY <1>8 DEF Lost, InScript, OnError
<1>9. CASE NoCommand
  BY <1>9 DEF NoCommand, InScript, OnError
<1>10. CASE WrongRegister
  BY <1>10 DEF WrongRegister, InScript
<1>11. CASE WiphyRegister
  BY <1>11 DEF WiphyRegister
<1>12. CASE DbgfsRegister
  BY <1>12 DEF DbgfsRegister
<1>13. CASE InterfaceAdd
  BY <1>13 DEF InterfaceAdd
<1>14. CASE ErrInterface
  BY <1>14 DEF ErrInterface, Label
<1>15. CASE ErrDebugfs
  BY <1>15 DEF ErrDebugfs, Label
<1>16. CASE ErrLmac
  BY <1>16 DEF ErrLmac, Label
<1>17. CASE ErrCache
  BY <1>17 DEF ErrCache, Label
<1>18. CASE ProbeEnd
  <2>1. CASE ret = 0
    <3>1. enabled' /\ bound'
      <4>1. ~(ret < 0) /\ ret >= 0
        BY <2>1
      <4> QED BY <1>18, <4>1, Zenon DEF ProbeEnd
    <3> QED BY <1>18, <2>1, <3>1 DEF ProbeEnd
  <2>2. CASE ret = -1
    <3>1. ~enabled' /\ ~bound'
      <4>1. ret < 0 /\ ~(ret >= 0) /\ ~enabled
        BY <1>18, <2>2 DEF ProbeEnd
      <4> QED BY <1>18, <4>1, Zenon DEF ProbeEnd
    <3> QED BY <1>18, <2>2, <3>1 DEF ProbeEnd
  <2> QED BY <2>1, <2>2
<1>19. CASE ExitBegin
  BY <1>19 DEF ExitBegin
<1>20. CASE ExitSem
  BY <1>20 DEF ExitSem
<1>21. CASE ExitEnd
  BY <1>21 DEF ExitEnd
<1>22. ASSUME NEW t \in Threads, Disconnect(t) PROVE RegisteredInv'
  BY <1>22 DEF Disconnect
<1>23. ASSUME NEW t \in Threads, DiscSem(t) PROVE RegisteredInv'
  BY <1>23 DEF DiscSem
<1>24. ASSUME NEW t \in Threads, DeinitUp(t) PROVE RegisteredInv'
  <2>1. CASE t = "usb"
    <3>1. listed' <=> listed
      BY <1>24, <2>1 DEF DeinitUp
    <3> QED BY <1>24, <2>1, <3>1 DEF DeinitUp
  <2>2. CASE t = "exit"
    <3>1. ~listed'
      BY <1>24, <2>2 DEF DeinitUp
    <3> QED BY <1>24, <2>2, <3>1 DEF DeinitUp
  <2> QED BY <2>1, <2>2
<1>25. ASSUME NEW t \in Threads, DeinitStop(t) PROVE RegisteredInv'
  BY <1>25 DEF DeinitStop, Release
<1>26. ASSUME NEW t \in Threads, DeinitUnregister(t) PROVE RegisteredInv'
  BY <1>26 DEF DeinitUnregister, Release
<1>27. ASSUME NEW t \in Threads, DeinitOff(t) PROVE RegisteredInv'
  BY <1>27 DEF DeinitOff, Release
<1>28. ASSUME NEW t \in Threads, DeinitFree(t) PROVE RegisteredInv'
  BY <1>28 DEF DeinitFree, Release
<1>29. CASE UNCHANGED vars
  BY <1>29 DEF vars
<1> QED BY <1>1, <1>2, <1>3, <1>4, <1>5, <1>6, <1>7, <1>8, <1>9, <1>10, <1>11, <1>12, <1>13, <1>14, <1>15, <1>16, <1>17, <1>18, <1>19, <1>20, <1>21, <1>22, <1>23, <1>24, <1>25, <1>26, <1>27, <1>28, <1>29
       DEF Next, Probe, Exit, Stop

(* The message whose error fails the init, at the end of a script.         *)
Final == CHOOSE v \in DOMAIN Script : Last(Script, v)

(* Before its first command the chip knows nothing, and the command        *)
(* manager works.                                                          *)
Fresh ==
    pc["usb"] \in {"wiphy", "cache", "wq"} =>
        done = {} /\ known = {} /\ ~wild /\ (pc["usb"] # "wiphy" => ~dead)

(* While commands are answered every step for the chip has taken effect,   *)
(* every address and the revision were read; after one was lost nothing    *)
(* does, and only the last message comes after the one that then fails.    *)
Answers ==
    /\ \A i \in Due : i < pos => i \in done
    /\ \A i \in Mine : i < pos /\ Script[i].op = "read" => Script[i].r \in known
    /\ "sub" \in known => sub = rev
Sending ==
    pc["usb"] = "script" =>
        /\ pos \in 1 .. Len(Script) + 1 /\ ~wild /\ done \subseteq Mine
        /\ ~dead => Answers
        /\ dead /\ pos > Final => \A i \in Due : i <= Final => i \in done

Setup == chip \in Chips /\ mode \in Modes /\ rev \in ChipRevs /\ sub \in ChipRevs
StartInv == RegisteredInv /\ Setup /\ Fresh /\ Sending /\ StartedRight

(* What the order of the scripts gives.                                    *)
LEMMA ScriptIs ==
    ASSUME chip \in Chips, mode \in Modes
    PROVE  /\ Script \in Seq(Steps) /\ Len(Script) \in Nat /\ DOMAIN Script = 1 .. Len(Script)
           /\ Final \in 1 .. Len(Script) /\ Last(Script, Final)
           /\ ReadFirst(Script) /\ Ends(Script)
<1>1. PICK s : s = Script
  OBVIOUS
<1>2. s \in Seq(Steps) /\ (\E v \in DOMAIN s : Last(s, v)) /\ ReadFirst(s) /\ Ends(s)
  BY <1>1, ScriptsOrdered DEF Script
<1>3. Len(s) \in Nat /\ DOMAIN s = 1 .. Len(s)
  BY <1>2
<1>4. Final \in DOMAIN s /\ Last(s, Final)
  BY <1>1, <1>2, Zenon DEF Final
<1> QED BY <1>1, <1>2, <1>3, <1>4

(* While commands are answered the revision the driver knows is as good as *)
(* the chip's.                                                             *)
LEMMA RevisionKnown ==
    ASSUME Setup, InScript, pos \in 1 .. Len(Script), Answers
    PROVE  /\ rev \in Cur.revs <=> sub \in Cur.revs
           /\ Cur.op = "check" => sub = rev
<1>1. /\ Script \in Seq(Steps) /\ DOMAIN Script = 1 .. Len(Script) /\ Len(Script) \in Nat
      /\ ReadFirst(Script)
  BY ScriptIs DEF Setup
<1>2. CASE Cur.revs = ChipRevs /\ Cur.op # "check"
  BY <1>2 DEF Setup
<1>3. CASE \E j \in 1 .. pos - 1 : /\ Script[j].op = "read" /\ Script[j].r = "sub"
                                   /\ Script[j].revs = ChipRevs
  <2>1. PICK j \in 1 .. pos - 1 : /\ Script[j].op = "read" /\ Script[j].r = "sub"
                                  /\ Script[j].revs = ChipRevs
    BY <1>3
  <2>2. j \in Mine /\ j < pos
    BY <1>1, <2>1 DEF Mine, Setup
  <2>3. sub = rev
    BY <2>1, <2>2 DEF Answers
  <2> QED BY <2>3
<1> QED BY <1>1, <1>2, <1>3 DEF ReadFirst, Cur

(* A step of the script, whatever becomes of its commands.                 *)
LEMMA SkipKeeps ==
    ASSUME StartInv, Skip
    PROVE  Sending' /\ Setup'
<1>1. /\ InScript /\ pos' = pos + 1 /\ (~Applies \/ Cur.op = "may")
      /\ UNCHANGED <<chip, rev, mode, absent, sub, dpdRes, dead, done, known, wild>>
  BY DEF Skip, setup, glob, chipVars
<1>2. /\ Script' = Script /\ Mine' = Mine /\ Due' = Due /\ Final' = Final
  BY <1>1 DEF Script, Mine, Due, Optional, Final
<1>3. /\ Len(Script) \in Nat /\ Final \in 1 .. Len(Script) /\ Last(Script, Final)
      /\ Script \in Seq(Steps) /\ DOMAIN Script = 1 .. Len(Script)
  BY ScriptIs DEF StartInv, Setup
<1>4. /\ pos \in 1 .. Len(Script) /\ pos' \in 1 .. Len(Script) + 1 /\ ~wild /\ done \subseteq Mine
      /\ ~dead => Answers
      /\ dead /\ pos > Final => \A i \in Due : i <= Final => i \in done
  BY <1>1, <1>3 DEF StartInv, Sending, InScript
<1>5. ASSUME ~dead PROVE Answers'
  <2>1. pos \in Mine => sub \in Cur.revs
    BY <1>1, <1>4, <1>5, RevisionKnown DEF StartInv, Mine, Cur
  <2>2. pos \notin Due
    BY <1>1, <2>1 DEF Applies, Due, Optional, Cur
  <2>3. pos \in Mine => Cur.op # "read"
    BY <1>1, <2>1 DEF Applies
  <2>4. \A i \in Mine : i < pos' => i < pos \/ i = pos
    BY <1>1, <1>3, <1>4 DEF Mine
  <2> QED BY <1>1, <1>2, <1>4, <1>5, <2>2, <2>3, <2>4 DEF Answers, Due, Cur
<1>6. ASSUME dead, pos' > Final PROVE pos > Final
  <2>1. pos # Final
    BY <1>1, <1>3 DEF Last, Applies, Cur, StartInv, Setup
  <2> QED BY <1>1, <1>3, <1>4, <1>6, <2>1
<1> QED BY <1>1, <1>2, <1>4, <1>5, <1>6 DEF Sending, Setup, StartInv

(* The step is answered.                                                   *)
LEMMA AnsweredKeeps ==
    ASSUME StartInv, Answered
    PROVE  Sending' /\ Setup'
<1>1. /\ InScript /\ sub \in Cur.revs /\ ~dead /\ dead' = dead
      /\ UNCHANGED <<chip, rev, mode, absent, pc>>
      /\ sub' = IF Cur.op = "read" /\ Cur.r = "sub" THEN rev ELSE sub
      /\ known' = IF Cur.op = "read" THEN known \cup {Cur.r} ELSE known
      /\ wild' = (wild \/ (Cur.at # "-" /\ Cur.at \notin known))
  BY DEF Answered, Applies, Refuses, setup
<1>2. /\ Script' = Script /\ Mine' = Mine /\ Due' = Due /\ Final' = Final
  BY <1>1 DEF Script, Mine, Due, Optional, Final
<1>3. /\ Len(Script) \in Nat /\ Final \in 1 .. Len(Script) /\ Last(Script, Final)
      /\ Script \in Seq(Steps) /\ DOMAIN Script = 1 .. Len(Script)
      /\ ReadFirst(Script) /\ Ends(Script)
  BY ScriptIs DEF StartInv, Setup
<1>4. /\ pos \in 1 .. Len(Script) /\ ~wild /\ done \subseteq Mine /\ Answers /\ Setup
  BY <1>1, <1>3 DEF StartInv, Sending, InScript
<1>5. pos \in Mine /\ (Cur.op = "check" => sub = rev)
  BY <1>1, <1>3, <1>4, RevisionKnown DEF Mine, Cur
<1>6. ~wild'
  <2>1. ASSUME Cur.at # "-" PROVE Cur.at \in known
    <3>1. PICK j \in 1 .. pos - 1 : /\ Script[j].op = "read" /\ Script[j].r = Cur.at
                                    /\ Cur.revs \subseteq Script[j].revs
      BY <1>3, <1>4, <2>1 DEF ReadFirst, Cur
    <3>2. j \in Mine /\ j < pos
      BY <1>3, <1>4, <1>5, <3>1 DEF Mine, Cur
    <3> QED BY <1>4, <3>1, <3>2 DEF Answers
  <2> QED BY <1>1, <1>4, <2>1
<1>7. Setup' /\ ("sub" \in known' => sub' = rev')
  <2>1. CASE Cur.op = "read" /\ Cur.r = "sub"
    BY <1>1, <1>4, <2>1 DEF Setup
  <2>2. CASE ~(Cur.op = "read" /\ Cur.r = "sub")
    BY <1>1, <1>4, <2>2 DEF Setup, Answers
  <2> QED BY <2>1, <2>2
<1>8. known \subseteq known' /\ (Cur.op = "read" => Cur.r \in known')
  BY <1>1
<1>9. CASE pos' = pos + 1 /\ done' = done \cup {pos}
  <2>1. \A i \in Mine : i < pos' => i < pos \/ i = pos
    BY <1>3, <1>4, <1>9 DEF Mine
  <2>2. pos' \in 1 .. Len(Script) + 1 /\ done' \subseteq Mine
    BY <1>3, <1>4, <1>5, <1>9
  <2>3. \A i \in Due : i < pos' => i \in done'
    BY <1>4, <1>9, <2>1 DEF Answers, Due
  <2>4. \A i \in Mine : i < pos' /\ Script[i].op = "read" => Script[i].r \in known'
    BY <1>4, <1>8, <2>1 DEF Answers, Cur
  <2>5. Answers'
    BY <1>2, <1>7, <2>3, <2>4 DEF Answers
  <2> QED BY <1>1, <1>2, <1>6, <1>7, <2>2, <2>5 DEF Sending
<1>10. CASE /\ Cur.op = "check" /\ pos' = pos + Cur.over + 1
            /\ done' = done \cup {j \in pos .. pos + Cur.over : sub \in Script[j].revs}
  <2>1. pos < Final /\ Cur.over \in Nat /\ pos + Cur.over < Final
    <3>1. pos # Final /\ ~(pos > Final)
      BY <1>3, <1>4, <1>10 DEF Last, Cur
    <3>2. pos < Final
      BY <1>3, <1>4, <3>1
    <3>3. Cur \in Steps
      BY <1>3, <1>4 DEF Cur
    <3> QED BY <1>3, <1>4, <3>2, <3>3 DEF Last, Cur, Steps
  <2>2. PICK o \in Nat : o = Cur.over
    BY <2>1
  <2>3. pos' = pos + o + 1 /\ pos' \in 1 .. Len(Script) + 1 /\ pos .. pos + o \subseteq 1 .. Len(Script)
    BY <1>3, <1>4, <1>10, <2>1, <2>2
  <2>4. done' \subseteq Mine
    BY <1>3, <1>4, <1>5, <1>10, <2>2, <2>3 DEF Mine
  <2>5. \A i \in Mine : i < pos' => i < pos \/ i \in pos .. pos + o
    BY <1>3, <1>4, <2>3 DEF Mine
  <2>6. \A i \in Due : i < pos' => i \in done'
    BY <1>4, <1>5, <1>10, <2>2, <2>5 DEF Answers, Due, Mine
  <2>7. \A i \in pos .. pos + o : Script[i].op # "read"
    BY <1>3, <1>4, <1>10, <2>2, <2>3 DEF Ends, Cur
  <2>8. \A i \in Mine : i < pos' /\ Script[i].op = "read" => Script[i].r \in known'
    BY <1>4, <1>8, <2>5, <2>7 DEF Answers
  <2>9. Answers'
    BY <1>2, <1>7, <2>6, <2>8 DEF Answers
  <2> QED BY <1>1, <1>2, <1>6, <1>7, <2>3, <2>4, <2>9 DEF Sending
<1> QED BY <1>9, <1>10 DEF Answered

(* A command is lost, or a file is missing.                                *)
LEMMA LostKeeps ==
    ASSUME StartInv, Lost
    PROVE  Sending' /\ Setup'
<1>1. /\ InScript /\ dead' /\ OnError
      /\ UNCHANGED <<chip, rev, mode, absent, sub, done, known, wild>>
  BY DEF Lost, setup, glob
<1>2. /\ Script' = Script /\ Mine' = Mine /\ Due' = Due /\ Final' = Final
  BY <1>1 DEF Script, Mine, Due, Optional, Final
<1>3. /\ Len(Script) \in Nat /\ Final \in 1 .. Len(Script) /\ Last(Script, Final)
      /\ Script \in Seq(Steps) /\ DOMAIN Script = 1 .. Len(Script)
  BY ScriptIs DEF StartInv, Setup
<1>4. /\ pos \in 1 .. Len(Script) /\ ~wild /\ done \subseteq Mine
      /\ ~dead => Answers
      /\ dead /\ pos > Final => \A i \in Due : i <= Final => i \in done
  BY <1>1, <1>3 DEF StartInv, Sending, InScript
<1>5. PICK o \in Nat : o = Cur.over
  <2>1. Cur \in Steps
    BY <1>3, <1>4 DEF Cur
  <2> QED BY <2>1 DEF Steps
<1>6. Setup'
  BY <1>1 DEF StartInv, Setup
<1>7. CASE Cur.on = "fail"
  <2>1. pc'["usb"] # "script"
    BY <1>1, <1>7 DEF OnError, Fail, Goto, StartInv, RegisteredInv, TypedPc, Threads
  <2> QED BY <1>6, <2>1 DEF Sending
<1>8. CASE Cur.on # "fail"
  <2>1. pos # Final /\ (pos < Final => pos + o < Final) /\ (pos > Final => Cur.on = "log")
    BY <1>3, <1>4, <1>5, <1>8 DEF Last, Cur
  <2>2. (pos' = pos + 1 /\ Cur.on = "log") \/ (pos' = pos + o + 1 /\ Cur.on = "return")
    BY <1>1, <1>5, <1>8 DEF OnError
  <2>3. CASE pos < Final
    <3>1. pos' \in 1 .. Len(Script) + 1 /\ ~(pos' > Final)
      BY <1>3, <1>4, <2>1, <2>2, <2>3
    <3> QED BY <1>1, <1>2, <1>4, <1>6, <3>1 DEF Sending
  <2>4. CASE pos > Final
    <3>1. pos' \in 1 .. Len(Script) + 1
      BY <1>3, <1>4, <2>1, <2>2, <2>4
    <3>2. \A i \in Due : i <= Final => i < pos
      BY <1>3, <1>4, <2>4 DEF Due, Mine
    <3>3. \A i \in Due : i <= Final => i \in done
      BY <1>4, <2>4, <3>2 DEF Answers
    <3> QED BY <1>1, <1>2, <1>4, <1>6, <3>1, <3>3 DEF Sending
  <2> QED BY <1>3, <1>4, <2>1, <2>3, <2>4
<1> QED BY <1>7, <1>8

(* A file is missing, or only an optional one is read.                     *)
LEMMA NoCommandKeeps ==
    ASSUME StartInv, NoCommand
    PROVE  Sending' /\ Setup'
<1>1. /\ InScript /\ OnError /\ Silent
      /\ UNCHANGED <<chip, rev, mode, absent, sub, dead, done, known, wild>>
  BY DEF NoCommand, setup, glob, chipVars
<1>2. /\ Script' = Script /\ Mine' = Mine /\ Due' = Due /\ Final' = Final
  BY <1>1 DEF Script, Mine, Due, Optional, Final
<1>3. /\ Len(Script) \in Nat /\ Final \in 1 .. Len(Script) /\ Last(Script, Final)
      /\ Script \in Seq(Steps) /\ DOMAIN Script = 1 .. Len(Script) /\ Ends(Script)
  BY ScriptIs DEF StartInv, Setup
<1>4. /\ pos \in 1 .. Len(Script) /\ ~wild /\ done \subseteq Mine
      /\ ~dead => Answers
      /\ dead /\ pos > Final => \A i \in Due : i <= Final => i \in done
  BY <1>1, <1>3 DEF StartInv, Sending, InScript
<1>5. Cur.op \in {"file", "config"} /\ Cur.on # "return" /\ (Cur.op = "config" \/ Cur.r \in absent)
  BY <1>1, <1>3, <1>4 DEF Silent, NeedsFile, Ends, Cur
<1>6. pos < Final
  <2>1. pos # Final /\ ~(pos > Final)
    BY <1>3, <1>4, <1>5 DEF Last, Cur
  <2> QED BY <1>3, <1>4, <2>1
<1>7. Setup'
  BY <1>1 DEF StartInv, Setup
<1>8. CASE Cur.on = "fail"
  <2>1. pc'["usb"] # "script"
    BY <1>1, <1>8 DEF OnError, Fail, Goto, StartInv, RegisteredInv, TypedPc, Threads
  <2> QED BY <1>7, <2>1 DEF Sending
<1>9. CASE Cur.on = "log"
  <2>1. pos' = pos + 1
    BY <1>1, <1>9 DEF OnError
  <2>2. pos' \in 1 .. Len(Script) + 1 /\ ~(pos' > Final)
    BY <1>3, <1>4, <1>6, <2>1
  <2>3. pos \notin Due /\ Cur.op # "read"
    BY <1>5, <1>9 DEF Due, Optional, Cur
  <2>4. \A i \in Mine : i < pos' => i < pos \/ i = pos
    BY <1>3, <1>4, <2>1 DEF Mine
  <2>5. ~dead => Answers'
    BY <1>1, <1>2, <1>4, <2>3, <2>4 DEF Answers, Due, Cur
  <2> QED BY <1>1, <1>2, <1>4, <1>7, <2>2, <2>5 DEF Sending
<1> QED BY <1>1, <1>5, <1>8, <1>9 DEF OnError

(* What a step that sends nothing leaves alone.                            *)
Quiet == UNCHANGED <<chip, rev, mode, absent, sub, dead, done, known, wild, pos>>

(* Such a step of the probe, of a disconnect or of the exit.               *)
LEMMA QuietKeeps ==
    ASSUME StartInv, RegisteredInv', Quiet, Registered' => Registered,
           pc'["usb"] \in {"wiphy", "cache", "wq", "script"} => pc'["usb"] = pc["usb"]
    PROVE  StartInv'
<1>1. /\ Script' = Script /\ Mine' = Mine /\ Due' = Due /\ Final' = Final
  BY DEF Quiet, Script, Mine, Due, Optional, Final
<1>2. Setup' /\ Fresh'
  BY DEF StartInv, Setup, Fresh, Quiet
<1>3. Sending'
  BY <1>1 DEF StartInv, Sending, Answers, Quiet
<1>4. StartedRight'
  <2>1. ASSUME Registered', pc'["usb"] # "wiphy" PROVE Registered /\ pc["usb"] # "wiphy"
    BY <2>1 DEF StartInv, RegisteredInv, ProbeAlone
  <2>2. ASSUME Registered, pc["usb"] # "wiphy"
        PROVE  ~wild /\ done \subseteq Mine /\ \A i \in Due \ done : dead /\ Script[i].r = "me_config"
    BY <2>2 DEF StartInv, StartedRight, Registered
  <2> QED BY <1>1, <2>1, <2>2 DEF StartedRight, Registered, Quiet
<1> QED BY <1>2, <1>3, <1>4 DEF StartInv

(* Every step keeps the invariant.                                         *)
LEMMA StartStep ==
    ASSUME StartInv, [Next]_vars
    PROVE  StartInv'
<1>1. RegisteredInv'
  BY RegisteredStep DEF StartInv
<1>2. TypedPc /\ RegisteredInv
  BY DEF StartInv, RegisteredInv
<1> USE DEF Goto, Fail, TypedPc, Threads, setup, glob, chipVars, drv, Registered
<1>3. ASSUME Plug PROVE StartInv'
  <2>1. /\ pc'["usb"] = "wiphy" /\ done' = {} /\ known' = {} /\ ~wild'
        /\ rev' \in ChipRevs /\ UNCHANGED <<chip, mode, sub>>
    BY <1>2, <1>3 DEF Plug
  <2> QED BY <1>1, <2>1 DEF StartInv, Setup, Fresh, Sending, StartedRight
<1>4. ASSUME WiphyNew PROVE StartInv'
  <2>1. /\ pc["usb"] = "wiphy" /\ pc'["usb"] \in {"cache", "out"} /\ (pc'["usb"] = "cache" => ~dead')
        /\ "registered" \notin held'
        /\ UNCHANGED <<chip, rev, mode, sub, done, known, wild>>
    BY <1>2, <1>4 DEF WiphyNew, RegisteredInv, ProbeAlone
  <2> QED BY <1>1, <2>1 DEF StartInv, Setup, Fresh, Sending, StartedRight
<1>5. ASSUME CacheNew PROVE StartInv'
  <2>1. /\ pc["usb"] = "cache" /\ pc'["usb"] \in {"wq", "err_cache"} /\ "registered" \notin held'
        /\ UNCHANGED <<chip, rev, mode, sub, dead, done, known, wild>>
    BY <1>2, <1>5 DEF CacheNew, RegisteredInv, ProbeAlone
  <2> QED BY <1>1, <2>1 DEF StartInv, Setup, Fresh, Sending, StartedRight
<1>6. ASSUME WqNew PROVE StartInv'
  <2>1. /\ pc["usb"] = "wq" /\ pc'["usb"] \in {"script", "err_cache"} /\ "registered" \notin held'
        /\ pc'["usb"] = "script" => pos' = 1
        /\ UNCHANGED <<chip, rev, mode, absent, sub, dead, done, known, wild>>
    BY <1>2, <1>6 DEF WqNew, RegisteredInv, ProbeAlone
  <2>2. done = {} /\ known = {} /\ ~wild /\ ~dead
    BY <2>1 DEF StartInv, Fresh
  <2>3. /\ Len(Script) \in Nat /\ DOMAIN Script = 1 .. Len(Script) /\ Script' = Script /\ Mine' = Mine
    BY <2>1, ScriptIs DEF StartInv, Setup, Script, Mine
  <2>4. ASSUME pc'["usb"] = "script" PROVE Answers' /\ pos' \in 1 .. Len(Script) + 1
    <3>1. \A i \in Mine' : ~(i < pos')
      BY <2>1, <2>3, <2>4 DEF Mine
    <3> QED BY <2>1, <2>2, <2>3, <2>4, <3>1 DEF Answers, Due
  <2>5. Sending'
    BY <2>1, <2>2, <2>3, <2>4 DEF Sending
  <2> QED BY <1>1, <2>1, <2>5 DEF StartInv, Setup, Fresh, StartedRight
<1>7. ASSUME Skip \/ Answered \/ Lost \/ NoCommand PROVE StartInv'
  <2>1. Sending' /\ Setup'
    BY <1>7, SkipKeeps, AnsweredKeeps, LostKeeps, NoCommandKeeps
  <2>2. pc["usb"] = "script" /\ pc'["usb"] \in {"script", "err_lmac"} /\ held' = held
    BY <1>2, <1>7 DEF Skip, Answered, Lost, NoCommand, OnError, InScript
  <2>3. "registered" \notin held'
    BY <1>2, <2>2 DEF RegisteredInv, ProbeAlone
  <2> QED BY <1>1, <2>1, <2>2, <2>3 DEF StartInv, Fresh, StartedRight
<1>8. ASSUME WiphyRegister PROVE StartInv'
  <2>1. /\ pc["usb"] = "script" /\ pos > Len(Script) /\ pc'["usb"] \in {"debugfs", "err_lmac"}
        /\ (dead => dead')
        /\ UNCHANGED <<chip, rev, mode, absent, sub, done, known, wild>>
    BY <1>2, <1>8 DEF WiphyRegister
  <2>2. /\ Script' = Script /\ Mine' = Mine /\ Due' = Due
    BY <2>1 DEF Script, Mine, Due, Optional
  <2>3. /\ Len(Script) \in Nat /\ Final \in 1 .. Len(Script) /\ Last(Script, Final)
        /\ DOMAIN Script = 1 .. Len(Script)
    BY ScriptIs DEF StartInv, Setup
  <2>4. pos \in 1 .. Len(Script) + 1 /\ pos > Final
    BY <2>1, <2>3 DEF StartInv, Sending
  <2>5. ASSUME NEW i \in Due \ done PROVE dead' /\ Script[i].r = "me_config"
    <3>1. i \in 1 .. Len(Script) /\ i < pos
      BY <2>1, <2>3, <2>4 DEF Due, Mine
    <3>2. dead
      BY <2>1, <3>1 DEF StartInv, Sending, Answers
    <3>3. i > Final
      BY <2>1, <2>3, <2>4, <3>1, <3>2 DEF StartInv, Sending
    <3> QED BY <2>1, <2>3, <3>1, <3>2, <3>3 DEF Last
  <2>6. StartedRight'
    BY <2>1, <2>2, <2>5 DEF StartInv, Sending, StartedRight
  <2> QED BY <1>1, <2>1, <2>6 DEF StartInv, Setup, Fresh, Sending
<1>9. ASSUME DbgfsRegister \/ InterfaceAdd \/ WrongRegister PROVE StartInv'
  <2>1. /\ Quiet /\ ("registered" \in held' => "registered" \in held)
        /\ pc'["usb"] \notin {"wiphy", "cache", "wq", "script"}
    BY <1>2, <1>9 DEF DbgfsRegister, InterfaceAdd, WrongRegister, InScript, Quiet
  <2> QED BY <1>1, <2>1, QuietKeeps
<1>10. ASSUME ErrInterface \/ ErrDebugfs \/ ErrLmac \/ ErrCache PROVE StartInv'
  <2>1. /\ Quiet /\ ("registered" \in held' => "registered" \in held)
        /\ pc'["usb"] \notin {"wiphy", "cache", "wq", "script"}
    BY <1>2, <1>10 DEF ErrInterface, ErrDebugfs, ErrLmac, ErrCache, Label, Quiet
  <2> QED BY <1>1, <2>1, QuietKeeps
<1>11. ASSUME ProbeEnd \/ Unplug \/ ExitBegin \/ ExitSem \/ ExitEnd PROVE StartInv'
  <2>1. /\ Quiet /\ ("registered" \in held' => "registered" \in held)
        /\ pc'["usb"] \in {"wiphy", "cache", "wq", "script"} => pc'["usb"] = pc["usb"]
    BY <1>2, <1>11 DEF ProbeEnd, Unplug, ExitBegin, ExitSem, ExitEnd, Quiet
  <2> QED BY <1>1, <2>1, QuietKeeps
<1>12. ASSUME NEW t \in Threads, Stop(t) PROVE StartInv'
  <2>1. /\ Quiet /\ ("registered" \in held' => "registered" \in held)
        /\ pc'["usb"] \in {"wiphy", "cache", "wq", "script"} => pc'["usb"] = pc["usb"]
    BY <1>2, <1>12 DEF Stop, Disconnect, DiscSem, DeinitUp, DeinitStop, DeinitUnregister, DeinitOff,
                       DeinitFree, Release, Quiet
  <2> QED BY <1>1, <2>1, QuietKeeps
<1>13. ASSUME UNCHANGED vars PROVE StartInv'
  <2>1. /\ Quiet /\ held' = held /\ pc' = pc
    BY <1>13 DEF vars, Quiet
  <2> QED BY <1>1, <2>1, QuietKeeps
<1> QED BY <1>3, <1>4, <1>5, <1>6, <1>7, <1>8, <1>9, <1>10, <1>11, <1>12, <1>13 DEF Next, Probe, Exit

(* For every product, revision, mode and missing file, and every order of  *)
(* plugging, unplugging, lost commands and unloading: a registered device  *)
(* has received the whole script of its own revision, every table at an    *)
(* address that was read (StartedRight).                                   *)
THEOREM SpecStartedRight == Spec => []StartedRight
<1>1. Init => StartInv
  BY StartUpAssumption
     DEF Init, StartInv, RegisteredInv, TypedPc, SemInv, ProbeAlone, StopEnabled, BoundInv,
         Registered, Inner, InProbe, Stopping, Threads, Setup, Fresh, Sending, StartedRight
<1>2. StartInv /\ [Next]_vars => StartInv'
  BY StartStep
<1>3. StartInv => StartedRight
  BY DEF StartInv
<1> QED BY <1>1, <1>2, <1>3, PTL DEF Spec
=============================================================================
