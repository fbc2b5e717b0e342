------------------------------- MODULE LoadFw -------------------------------
(***************************************************************************)
(* The firmware loader (aic_load_fw).  A device in its boot ROM is probed  *)
(* by the loader, which configures the chip and writes the firmware with   *)
(* memory commands, one at a time, each waiting for its confirmation, and  *)
(* starts it; the device leaves the bus and comes back running, for the    *)
(* main driver.  A running device the loader has not loaded is rebooted.   *)
(*                                                                         *)
(* A probe is a script of steps, chosen by the chip, the revision that was *)
(* read from it and the module's test mode.  One action is one command of  *)
(* a step with its outcome.  The probes of one device are serialised by    *)
(* the kernel; the device may go away between any two commands.            *)
(***************************************************************************)
EXTENDS Integers, Sequences

CONSTANTS
    Chips,      \* chips that are plugged: "8800", "d80", "d80x2"
    Modes,      \* values of the module parameter testmode
    Sizes,      \* sizes of the files, in words
    B,          \* words of a full block (1024 bytes in the code)
    Regs,       \* entries of a register table
    MaxRetry,   \* retries of the poll loop (20 in the code)
    MaxPlugs    \* bound on plugging and on reloading the modules

ASSUME LoadFwAssumption ==
    /\ Chips \subseteq {"8800", "d80", "d80x2"}
    /\ Modes \subseteq {"normal", "test", "wakeup", "adfilter"}
    /\ Sizes \subseteq Nat \ {0} /\ B \in Nat \ {0} /\ Regs \in Nat \ {0}
    /\ MaxRetry \in Nat /\ MaxPlugs \in Nat

VARIABLES
    chip, rev, isMcu,   \* the device: product, revision, MCU variant
    size, missing,      \* the files: their size, the one not installed
    mode,               \* testmode
    dev,        \* "absent", "rom", "app" (running), "ble" (wake-up firmware)
    fast,       \* the port runs at high or super speed
    mem,        \* what has been written: pairs <<item, word>>
    pending,    \* the device will leave the bus: "no", "start", "reboot"
    fwLoaded,   \* fw_loaded
    chipId, chipMcuId,  \* chip_id, chip_mcu_id
    bound,      \* driver of the device: "none", "loader", "fdrv"
    tried,      \* the loader has refused this device, or its probe failed
    pc,         \* the loader's probe: "idle", "run", "reboot", "out"
    at, cmdNo,  \* step of the script, command of the step
    crashed,    \* the loader's command manager is CRASHED
    faulty,     \* ghost: a message was lost or the port is slow
    plugs

setupVars == <<chip, rev, isMcu, size, missing, mode>>
devVars == <<dev, fast, mem, pending, faulty>>
drvVars == <<fwLoaded, chipId, chipMcuId>>
prbVars == <<pc, at, cmdNo, crashed>>
vars == <<setupVars, devVars, drvVars, bound, tried, prbVars, plugs>>

Revs(c) == CASE c = "8800"  -> {"U02", "U03", "U04"}
             [] c = "d80"   -> {"U01", "U02"}
             [] c = "d80x2" -> {"U03", "U05"}

-----------------------------------------------------------------------------
(* The block loop of rwnx_plat_bin_fw_upload_android: full blocks while    *)
(* one block would not do, then what is left.                              *)
NFull(sz) == IF sz > B THEN (sz - 1) \div B ELSE 0
NBlocks(sz) == NFull(sz) + (IF NFull(sz) * B < sz THEN 1 ELSE 0)

(* Seeded fault of the block loop, for the mutation runs.                  *)
BlockWordsShort(sz, b) ==
    IF b < NFull(sz) THEN (b * B) .. (b * B + B - 1)
                     ELSE (b * B) .. (sz - 2)

BlockWords(sz, b) ==
    IF b < NFull(sz) THEN (b * B) .. (b * B + B - 1)
                     ELSE (b * B) .. (sz - 1)

-----------------------------------------------------------------------------
(* Steps.  "on" is what the code does with an error of a command: "fail"   *)
(* the probe, "skip" the rest of the step, "last" (only the last command's *)
(* result counts), "ignore".                                               *)
RStep(op, f, r, on) == [op |-> op, f |-> <<f, r>>, on |-> on]
Step(op, f, on) == RStep(op, f, "any", on)
Write(f) == Step("write", f, "fail")
File(f) == Step("file", f, "fail")
Return == Step("return", "-1", "fail")
If(c, s) == IF c THEN s ELSE <<>>

(* The file of revision r of the chip.                                     *)
RFile(f, r) == RStep("file", f, r, "fail")

SystemConfig8800(r) ==
    <<Step("readid", "id", "fail"), Step("read", "sub", "fail")>>
    \o If(r = "U02", <<Write("pmic_u02")>>)
    \o If(r = "U04", <<Write("u04")>>)
    \o <<Write("syscfg")>>

SystemConfigD80(m) ==
    <<Step("readid", "id", "fail")>>
    \o If(m, <<Step("read", "cache", "fail"), Write("cache")>>)
    \o <<Write("syscfg"), Write("masked")>>

SystemConfigD80X2 ==
    <<Write("clock"), Step("read", "clock", "fail"),
      Step("readid", "id", "fail"), Step("readmcu", "mcu", "fail"),
      Write("syscfg"), Write("masked")>>

(* BLE wake-up modes: every error is ignored and the probe fails at the    *)
(* end; the D80X2 starts its firmware by two register writes.              *)
BleWakeup == <<Step("file", "ble", "ignore"), Step("write", "wakeup", "ignore")>>
BleStart8800 == BleWakeup \o <<Step("start", "ble", "ignore"), Return>>
BleStartD80 == BleWakeup \o <<Step("start", "ble", "ignore"), Return>>
BleStartD80X2 == BleWakeup \o <<Step("write", "boot", "ignore"), Return>>

(* The file names of the 8800 tell U03 from the rest.                      *)
Rev8800(r) == IF r = "U02" THEN "U02" ELSE "U03"

PatchTableUpload(r) == RStep("table", "table", Rev8800(r), "skip")
UserConfig == Step("may", "userconfig", "fail")  \* may be missing
PatchConfig8800 == Step("write", "patch_config", "last")
RfConfig == Write("rf_config")
StartFmac == Step("start", "fmac", "fail")

Download8800(r, md) ==
    IF md \in {"wakeup", "adfilter"} THEN BleStart8800 ELSE
    <<File(IF md = "test" THEN "fmac_rf" ELSE "fmac"),
      RFile("adid", Rev8800(r)), RFile("patch", Rev8800(r)),
      PatchTableUpload(r), UserConfig, PatchConfig8800, RfConfig, StartFmac>>

PatchTableAlloc(r) == RStep("alloc", "table", r, "fail")
PatchTableLoad(r) == RStep("load", "table", r, "fail")
ExtPatchD80(r) == If(r # "U01", <<RFile("ext", r)>>)
PatchConfigD80(r) == If(r # "U01", <<Write("patch_config")>>)
FlashBin(m) == If(m, <<Step("flash", "flash", "fail")>>)

BtPatchD80(r) ==
    <<RFile("adid", r), RFile("patch", r)>> \o ExtPatchD80(r)
    \o <<PatchTableLoad(r)>>

DownloadD80(r, m, md) ==
    <<PatchTableAlloc(r)>> \o
    CASE md = "normal" ->
            BtPatchD80(r) \o <<RFile("fmac", r)>> \o PatchConfigD80(r)
            \o <<StartFmac>>
      [] md = "test" ->
            If(r # "U01", BtPatchD80(r) \o FlashBin(m))
            \o <<RFile("fmac_rf", r), StartFmac>>
      [] OTHER -> BleStartD80

PllPoll(m) == If(m, <<Step("read", "pll", "fail"), Write("pll"),
                      Step("poll", "pll", "fail")>>)
ExtPatchD80X2(r) == <<Write("ext"), RFile("ext", r)>>
PatchConfigD80X2 == <<Write("patch_config")>>

DownloadD80X2(r, m, md) ==
    <<PatchTableAlloc(r)>> \o PllPoll(m) \o
    CASE md \in {"normal", "test"} ->
            <<RFile("adid", r), RFile("patch", r)>> \o ExtPatchD80X2(r)
            \o <<PatchTableLoad(r),
                 File(IF md = "normal" THEN "fmac" ELSE "fmac_rf")>>
            \o If(md = "normal", PatchConfigD80X2) \o <<StartFmac>>
      [] OTHER -> BleStartD80X2

(* system_config and aicfw_download_fw dispatch on the product ...         *)
FastScript(c, r, m, md) ==
    CASE c = "8800"  -> SystemConfig8800(r) \o Download8800(r, md)
      [] c = "d80"   -> SystemConfigD80(m) \o DownloadD80(r, m, md)
      [] c = "d80x2" -> SystemConfigD80X2 \o DownloadD80X2(r, m, md)

(* ... and on a slow port the probe only writes the table that resets the  *)
(* chip, with no look at the result.                                       *)
Script(c, r, m, md) ==
    IF ~fast THEN <<Step("write", "reboot", "skip")>> ELSE FastScript(c, r, m, md)

Current == Script(chip, chipId, chipMcuId, mode)
S == Current[at]

(* The commands of a step and the words that command n of it writes.       *)
NCmds(s) == CASE s.op \in {"file", "flash"} -> NBlocks(size)
              [] s.op \in {"write", "load", "table"} -> Regs
              [] s.op \in {"read", "readid", "readmcu", "poll"} -> 1
              [] OTHER -> 0
Words(s, n) == CASE s.op \in {"file", "flash"} -> BlockWords(size, n)
                 [] s.op \in {"write", "load", "table"} -> {n}
                 [] OTHER -> {}
Writes(s, n) == {<<s.f, w>> : w \in Words(s, n)}

-----------------------------------------------------------------------------
(* How the scripts of the normal and the test mode are written, for what a *)
(* start promises.  Sent: the step has commands.                           *)
Sent(s) == s.op \in {"file", "flash", "write", "load", "table", "read", "readid", "readmcu", "poll"}
LastSent(s, n) == n \in DOMAIN s /\ Sent(s[n]) /\ \A j \in DOMAIN s : j > n => ~Sent(s[j])
Kept(s) == Sent(s) /\ s.op # "poll"

(* What is read of the chip, up to the last of it: the same steps whatever *)
(* was read before, and then one that fails when the manager is crashed.   *)
Identify(c) ==
    IF c = "d80x2"
    THEN <<Write("clock"), Step("read", "clock", "fail"),
           Step("readid", "id", "fail"), Step("readmcu", "mcu", "fail")>>
    ELSE <<Step("readid", "id", "fail")>>

(* The firmware is started by the last step, no error is ignored that      *)
(* another command does not meet, and no step resets the chip.             *)
Steps == [op : STRING, f : STRING \X STRING, on : {"fail", "skip", "last"}]
Written(c, s) ==
    LET k == Len(Identify(c)) IN
    /\ s \in Seq(Steps) /\ Len(s) > k + 1
    /\ \A n \in 1 .. k : s[n] = Identify(c)[n]
    /\ \A n \in k + 1 .. Len(s) : s[n].op \notin {"readid", "readmcu"}
    /\ s[k + 1].op \in {"read", "write"} /\ s[k + 1].on = "fail" /\ s[k + 1].f[2] = "any"
    /\ \A n \in DOMAIN s :
         /\ s[n].op = "start" <=> n = Len(s)
         /\ ~Sent(s[n]) => s[n].op \in {"start", "may", "alloc"}
         /\ s[n].op = "flash" => s[n].f[1] = "flash"
         /\ s[n].f[1] \notin {"reboot", "boot"}
         /\ Sent(s[n]) /\ s[n].f[2] # "any" => s[n].op \in {"file", "load", "table"}
    /\ \E n \in DOMAIN s :
         LastSent(s, n) /\ n > k + 1 /\ s[n].op \in {"write", "file"}
         /\ \A j \in DOMAIN s :
              Sent(s[j]) /\ (s[j].on # "fail" \/ s[j].op \in {"load", "table"}) => j < n

(* The steps N of one script s are steps of another one, t, before its     *)
(* last command if they are before that of s.                              *)
Within(N, s, t) ==
    \A n \in N : \E j \in DOMAIN t : t[j] = s[n] /\ (LastSent(t, j) => LastSent(s, n))
KeptIn(s) == {n \in DOMAIN s : Kept(s[n])}

(* The script of an MCU variant, t, has the steps of the other one, s, and *)
(* no other files of the revision.                                         *)
Extends(s, t) ==
    /\ Within(KeptIn(s), s, t)
    /\ Within({n \in KeptIn(t) : t[n].f[2] # "any"}, t, s)

(* All scripts above are written so; it does not depend on any size.       *)
ASSUME ScriptsWritten ==
    \A c \in Chips, md \in Modes \cap {"normal", "test"} :
    \A r \in Revs(c) \cup {"0"} :
      /\ \A m \in BOOLEAN : Written(c, FastScript(c, r, m, md))
      /\ Extends(FastScript(c, r, FALSE, md), FastScript(c, r, TRUE, md))

-----------------------------------------------------------------------------
Init ==
    /\ chip \in Chips /\ rev \in Revs(chip) /\ isMcu \in BOOLEAN
    /\ (chip = "8800" => ~isMcu)
    /\ mode \in Modes /\ (chip # "8800" => mode # "wakeup")
    /\ size \in Sizes
    /\ missing \in {"none"} \union (CASE mode = "normal" -> {"fmac"}
                                      [] mode = "test" -> {"flash"}
                                      [] OTHER -> {"ble"})
    /\ dev = "absent" /\ fast = TRUE /\ mem = {} /\ pending = "no"
    /\ faulty = FALSE
    /\ fwLoaded = FALSE
    /\ chipId = "0"
    /\ chipMcuId = FALSE
    /\ bound = "none" /\ tried = FALSE
    /\ pc = "idle" /\ at = 1 /\ cmdNo = 0 /\ crashed = FALSE
    /\ plugs = 0

-----------------------------------------------------------------------------
(* The device and its bus.                                                 *)
Arrive(d, f) ==
    /\ dev' = d /\ fast' = f /\ mem' = {} /\ pending' = "no"
    /\ bound' = "none" /\ tried' = FALSE

(* A device may be found running, when only the host was restarted.        *)
Plug ==
    /\ dev = "absent" /\ pc = "idle" /\ plugs < MaxPlugs
    /\ plugs' = plugs + 1
    /\ \E d \in {"rom", "app"}, f \in BOOLEAN :
          Arrive(d, f) /\ faulty' = ~f
    /\ UNCHANGED <<setupVars, drvVars, prbVars>>

(* A driver's disconnect runs once no probe does.                          *)
Unplug ==
    /\ dev # "absent"
    /\ dev' = "absent" /\ pending' = "no"
    /\ bound' = (IF pc = "idle" THEN "none" ELSE bound)
    /\ UNCHANGED <<setupVars, fast, mem, faulty, drvVars, tried, prbVars, plugs>>

(* The started firmware takes over, or the chip resets: the device leaves  *)
(* the bus and is enumerated again; the loader's disconnect frees what its *)
(* probe has left, nothing after a reboot.                                 *)
Reenumerate ==
    /\ pending # "no" /\ pc = "idle"
    /\ Arrive(CASE pending = "reboot" -> "rom"
                [] mode \in {"wakeup", "adfilter"} -> "ble"
                [] OTHER -> "app", fast)
    /\ UNCHANGED <<setupVars, faulty, drvVars, prbVars, plugs>>

(* rmmod and insmod of both drivers: the loader's globals start over.      *)
ReloadModules ==
    /\ pc = "idle" /\ plugs < MaxPlugs /\ plugs' = plugs + 1
    /\ fwLoaded' = FALSE /\ chipMcuId' = FALSE /\ chipId' = "0"
    /\ bound' = "none" /\ tried' = FALSE
    /\ UNCHANGED <<setupVars, devVars, prbVars>>

-----------------------------------------------------------------------------
(* A message reaches the chip, if it is there.                             *)
Reaches == dev # "absent"

(* aicwf_usb_probe.                                                        *)
CanProbe ==
    pc = "idle" /\ bound = "none" /\ ~tried /\ dev \in {"rom", "app"}
    /\ pending = "no"

(* Seeded fault: the test of fw_loaded is missing.                         *)
NeverRefuses == FALSE

(* A running device is left to the main driver once a firmware was loaded. *)
Refuses == fwLoaded /\ dev = "app"

ProbeRefuse ==
    /\ CanProbe /\ Refuses
    /\ tried' = TRUE
    /\ UNCHANGED <<setupVars, devVars, drvVars, bound, prbVars, plugs>>

ProbeStart ==
    /\ CanProbe /\ ~Refuses
    /\ pc' = (IF fast /\ dev = "app" THEN "reboot" ELSE "run")
    /\ at' = 1 /\ cmdNo' = 0 /\ crashed' = FALSE
    /\ UNCHANGED <<setupVars, devVars, drvVars, bound, tried, plugs>>

(* rwnx_send_reboot; the probe then frees everything and returns 0.        *)
Reboot ==
    /\ pc = "reboot"
    /\ \/ Reaches /\ pending' = "reboot" /\ UNCHANGED faulty
       \/ pending' = pending /\ faulty' = TRUE
    /\ pc' = "idle" /\ bound' = (IF dev = "absent" THEN "none" ELSE "loader")
    /\ UNCHANGED <<setupVars, dev, fast, mem, drvVars, tried, at, cmdNo, crashed, plugs>>

-----------------------------------------------------------------------------
(* One command of a step.                                                  *)
NextStep == at' = at + 1 /\ cmdNo' = 0 /\ UNCHANGED pc
NextCmd == IF cmdNo + 1 < NCmds(S) THEN cmdNo' = cmdNo + 1 /\ UNCHANGED <<pc, at>>
                               ELSE NextStep
Fail == pc' = "out" /\ UNCHANGED <<at, cmdNo>>

(* Seeded fault: errors of commands are not looked at.                     *)
OnErrorIgnored == NextCmd

(* The error of a command, after the policy of the step.                   *)
OnError ==
    \/ S.on = "fail" /\ Fail
    \/ S.on = "skip" /\ NextStep
    \/ S.on = "last" /\ (IF cmdNo + 1 = NCmds(S) THEN Fail ELSE NextCmd)
    \/ S.on = "ignore" /\ NextCmd

Running == pc = "run" /\ at <= Len(Current)
Absent(s) == missing = s.f[1]

(* What a step needs before its first command: the file.                   *)
Loaded == cmdNo = 0 => ~(S.op \in {"file", "flash", "table", "alloc"} /\ Absent(S))

FileMissing ==
    /\ Running /\ ~Loaded
    /\ CASE S.op = "flash" -> NextStep              \* ENOENT is tolerated
         [] S.on = "ignore" -> NextStep
         [] OTHER -> Fail
    /\ UNCHANGED <<setupVars, devVars, drvVars, bound, tried, crashed, plugs>>

(* Steps without a confirmed command: parsing the configuration file,      *)
(* building the patch table, the return of the wake-up modes.              *)
NoCommand ==
    /\ Running /\ Loaded /\ S.op \in {"may", "alloc", "return"}
    /\ IF S.op = "return" THEN Fail ELSE NextStep
    /\ UNCHANGED <<setupVars, devVars, drvVars, bound, tried, crashed, plugs>>

(* DBG_START_APP_REQ asks for no confirmation and passes the manager by.   *)
StartApp ==
    /\ Running /\ S.op = "start"
    /\ \/ Reaches /\ pending' = "start" /\ UNCHANGED faulty
       \/ pending' = pending /\ faulty' = TRUE
    /\ NextStep
    /\ UNCHANGED <<setupVars, dev, fast, mem, drvVars, bound, tried, crashed, plugs>>

Sends == Running /\ Loaded /\ NCmds(S) > 0

(* Seeded fault: the state of the manager is not tested.                   *)
NotRefused == FALSE

(* cmd_mgr_queue: a crashed manager refuses the command.                   *)
Refused == crashed

CmdRefused ==
    /\ Sends /\ Refused
    /\ OnError
    /\ UNCHANGED <<setupVars, devVars, drvVars, bound, tried, crashed, plugs>>

(* What a read leaves in the loader's globals.                             *)
ReadBack(r, m) ==
    /\ chipId' = (IF S.op = "readid" THEN r ELSE chipId)
    /\ chipMcuId' = (\/ chipMcuId
                     \/ m /\ S.op = "readid" /\ chip = "d80"
                     \/ m /\ S.op = "readmcu")

(* The chip resets at the last write of the reset table, and the wake-up   *)
(* firmware of the D80X2 starts at the last one of its boot registers.     *)
Effect(s, n) ==
    /\ mem' = mem \union Writes(s, n)
    /\ pending' = CASE s.f[1] = "reboot" /\ n = Regs - 1 -> "reboot"
                    [] s.f[1] = "boot" /\ n = Regs - 1 -> "start"
                    [] OTHER -> pending

CmdConfirmed ==
    /\ Sends /\ ~Refused /\ Reaches
    /\ Effect(S, cmdNo)
    /\ ReadBack(rev, isMcu)
    /\ IF S.op = "poll" /\ cmdNo < MaxRetry
       THEN NextStep \/ (cmdNo' = cmdNo + 1 /\ UNCHANGED <<pc, at>>)
       ELSE IF S.op = "poll" THEN NextStep \/ Fail ELSE NextCmd
    /\ UNCHANGED <<setupVars, dev, fast, faulty, fwLoaded, bound, tried, crashed, plugs>>

(* No confirmation came: the manager crashes, but the call returns 0 and   *)
(* a read leaves its uninitialised answer behind.                          *)
CmdTimedOut ==
    /\ Sends /\ ~Refused
    /\ \/ Reaches /\ Effect(S, cmdNo)
       \/ UNCHANGED <<mem, pending>>
    /\ \E r \in Revs(chip), m \in BOOLEAN : ReadBack(r, m)
    /\ crashed' = TRUE /\ faulty' = TRUE
    /\ NextCmd
    /\ UNCHANGED <<setupVars, dev, fast, fwLoaded, bound, tried, plugs>>

(* The probe succeeds.  After a reset of a slow port it frees everything   *)
(* as well, but returns 0 and leaves fw_loaded alone.                      *)
ProbeDone ==
    /\ pc = "run" /\ at > Len(Current)
    /\ pc' = "idle"
    /\ bound' = (IF dev = "absent" THEN "none" ELSE "loader")
    /\ fwLoaded' = (fwLoaded \/ fast)
    /\ UNCHANGED <<setupVars, devVars, chipId, chipMcuId, tried, at, cmdNo, crashed, plugs>>

(* The out_free labels.                                                    *)
ProbeFailed ==
    /\ pc = "out"
    /\ pc' = "idle" /\ tried' = TRUE /\ bound' = "none"
    /\ UNCHANGED <<setupVars, devVars, drvVars, at, cmdNo, crashed, plugs>>

(* The main driver takes a running device that nobody has.                 *)
FdrvProbe ==
    /\ dev = "app" /\ bound = "none" /\ pc = "idle" /\ pending = "no"
    /\ bound' = "fdrv"
    /\ UNCHANGED <<setupVars, devVars, drvVars, tried, prbVars, plugs>>

Loader ==
    \/ ProbeRefuse \/ ProbeStart \/ Reboot \/ FileMissing \/ NoCommand
    \/ StartApp \/ CmdRefused \/ CmdConfirmed \/ CmdTimedOut
    \/ ProbeDone \/ ProbeFailed

Next ==
    \/ Plug \/ Unplug \/ Reenumerate \/ ReloadModules \/ Loader \/ FdrvProbe

(* A probe goes on, the kernel probes what it finds, and a device that was *)
(* told to start or to reboot does.                                        *)
Fairness == WF_vars(Loader) /\ WF_vars(FdrvProbe) /\ WF_vars(Reenumerate)
Spec == Init /\ [][Next]_vars /\ Fairness

-----------------------------------------------------------------------------
TypeOK ==
    /\ dev \in {"absent", "rom", "app", "ble"}
    /\ fast \in BOOLEAN /\ fwLoaded \in BOOLEAN /\ crashed \in BOOLEAN
    /\ pending \in {"no", "start", "reboot"}
    /\ chipId \in Revs(chip) \union {"0"}
    /\ bound \in {"none", "loader", "fdrv"}
    /\ pc \in {"idle", "run", "reboot", "out"}
    /\ at \in Nat \ {0} /\ cmdNo \in Nat /\ plugs \in 0 .. MaxPlugs

(* What a device of this revision must hold before its firmware starts.    *)
Commands(sc) ==
    {x \in (1 .. Len(sc)) \X (0 .. (Regs + NBlocks(size))) :
        /\ x[2] < NCmds(sc[x[1]]) /\ sc[x[1]].op # "poll"
        /\ ~(sc[x[1]].op = "flash" /\ missing = "flash")}
Later(a, b) == a[1] > b[1] \/ (a[1] = b[1] /\ a[2] > b[2])
Needed(sc) ==
    UNION {Writes(sc[x[1]], x[2]) : x \in
        {y \in Commands(sc) : \E z \in Commands(sc) : Later(z, y)}}
LastWords(sc) ==
    UNION {Writes(sc[x[1]], x[2]) : x \in
        {y \in Commands(sc) : ~ \E z \in Commands(sc) : Later(z, y)}}
AllWords(sc) == UNION {{<<f, w>> : w \in 0 .. (size - 1)} : f \in
    {sc[n].f : n \in {x \in 1 .. Len(sc) :
        sc[x].op \in {"file", "flash"} /\ ~(sc[x].op = "flash" /\ missing = "flash")}}}

(* Whenever the loader has told a chip to run its firmware (DBG_START_APP  *)
(* in the normal and test modes), the chip holds every word of every file  *)
(* and table of its own revision - although a command that timed out       *)
(* reports success, a patch table's errors are dropped and patch_config    *)
(* only looks at its last write - except for the words of the very last    *)
(* confirmed command, whose loss the loader cannot see; and it holds no    *)
(* file of another revision, although a read that timed out leaves an      *)
(* uninitialised chip_id.                                                  *)
StartedComplete ==
    pending = "start" /\ mode \in {"normal", "test"} =>
        LET sc == Script(chip, rev, isMcu, mode) IN
        /\ Needed(sc) \subseteq mem
        /\ AllWords(sc) \subseteq mem \union LastWords(sc)
        /\ {x \in mem : x[1][2] # "any"} \subseteq AllWords(sc) \union Needed(sc)

(* A device that loses no message, on a fast port, in the normal or test   *)
(* mode with all its files, ends with the main driver bound to it: the     *)
(* loader neither reboots running devices for ever nor keeps one (an MCU   *)
(* variant of the D80X2 may never raise the bit its probe polls).          *)
GetsDriver ==
    [](dev # "absent" /\ mode \in {"normal", "test"} /\ missing # "fmac" =>
        <>(bound = "fdrv" \/ dev \in {"absent", "ble"} \/ faulty
           \/ (chipMcuId /\ chip = "d80x2" /\ tried)))
=============================================================================
