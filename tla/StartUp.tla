------------------------------- MODULE StartUp -------------------------------
(***************************************************************************)
(* Start and stop of the main driver for one device: the probe, the        *)
(* commands that configure the chip, write its patches and start its       *)
(* firmware, the registration with cfg80211, the error labels of           *)
(* rwnx_cfg80211_init, and the two ways a device is stopped, unplugging    *)
(* it and unloading the module, which may happen together.                 *)
(*                                                                         *)
(* What the probe sends is a script of steps chosen by the product and the *)
(* test mode; a step names the chip revisions it is for, because the code  *)
(* branches on chip_sub_id, which an early step reads from the chip.  One  *)
(* action is one step, a table or a file being one step.                   *)
(***************************************************************************)
EXTENDS Integers, Sequences, FiniteSets

CONSTANTS
    Chips,      \* products: "8801", "dc", "dw", "d81", "x2", "d80n", "dln"
    ChipRevs,       \* values of the chip's revision register
    Modes,      \* "normal", "rftest"
    MaxPlugs,   \* bound on plugging a device
    WqFails     \* create_singlethread_workqueue may fail

ASSUME StartUpAssumption ==
    /\ Chips \subseteq {"8801", "dc", "dw", "d81", "x2", "d80n", "dln"}
    /\ ChipRevs \subseteq Nat /\ 0 \in ChipRevs
    /\ Modes \subseteq {"normal", "rftest"}
    /\ MaxPlugs \in Nat /\ WqFails \in BOOLEAN

VARIABLES
    chip, rev, mode,    \* the device and the test mode
    absent,     \* files that are not installed
    plugged, plugs,
    sub,        \* chip_sub_id, a global of the module
    dpdRes,     \* dpd_res holds a calibration result, a global too
    dead,       \* the command manager is CRASHED
    done,       \* steps that took effect on the chip
    known,      \* addresses whose read was answered
    wild,       \* ghost: something was written to an address never read
    pos,        \* position in the script
    held,       \* what rwnx_cfg80211_init has allocated or registered
    hw,         \* rwnx_hw: "none", "live", "freed"
    enabled,    \* g_rwnx_plat->enabled
    bound,      \* the device is bound to the driver
    listed,     \* the driver is registered with the USB core
    ret,        \* what the init returns
    sem,        \* aicwf_deinit_sem: thread that holds it, or "free"
    pc          \* of the threads "usb" (probe, disconnect) and "exit"

setup == <<chip, rev, mode, absent>>
chipVars == <<dead, done, known, wild>>
glob == <<sub, dpdRes>>
drv == <<held, hw, enabled, bound, listed, ret>>
vars == <<setup, plugged, plugs, glob, chipVars, pos, drv, sem, pc>>

Threads == {"usb", "exit"}

-----------------------------------------------------------------------------
(* Steps.  "on" is what an error does: "fail" the init, "return" from the  *)
(* function the step is in, "log" and go on.  "at" is the read that gives  *)
(* the address of a write, "-" for a constant.                             *)
Step(op, r, on) ==
    [op |-> op, r |-> r, on |-> on, at |-> "-", revs |-> ChipRevs, over |-> 0]
Read(r, on) == Step("read", r, on)
Write(r, on) == Step("write", r, on)
WriteAt(r, a, on) == [Write(r, on) EXCEPT !.at = a]
File(r, on) == Step("file", r, on)
Start(r) == Step("start", r, "fail")
Send(r, on) == Step("send", r, on)

If(c, s) == IF c THEN s ELSE <<>>
(* The steps s for the revisions R only.                                   *)
For(R, s) == <<>> \o [i \in 1..Len(s) |->
                        [s[i] EXCEPT !.revs = @ \cap R]]
(* A function whose failing steps end it.                                  *)
Function(s) == <<>> \o [i \in 1..Len(s) |-> [s[i] EXCEPT !.over = Len(s) - i]]

U01 == {0}
U02on == {r \in ChipRevs : r >= 1}

-----------------------------------------------------------------------------
(* Configuration of the chip, before and after its revision is known.      *)
system_config_8800 ==
    Function(<<Read("id", "return"), Read("sub", "return"),
               Write("syscfg", "return"), Write("masked", "return")>>)

(* Two configurations are written only when a register asks for it.        *)
aicwf_usb_config == <<Read("usbcfg", "log"), Step("may", "usbcfg", "log")>>
set_bbpll_config == <<Read("bbpll", "return"), Step("may", "bbpll", "log")>>

system_config_8800dc ==
    Function(<<Read("id", "return"), Read("sub", "return")>> \o set_bbpll_config
             \o <<Read("boot", "return"), Write("syscfg", "return"),
                  Write("masked", "return")>>
             \o For(U01, <<Write("masked_u01", "return")>>))

system_config_8800d80(m) ==
    <<Read("id", "fail")>> \o If(m = "rftest", <<Read("rftest", "fail")>>)

system_config_8800d80n ==
    Function(<<Read("id", "return"), Read("sub", "return"),
               Write("masked", "return")>>)
system_config_8800dln ==
    Function(<<Read("id", "return"), Read("sub", "return"),
               Write("masked", "return")>>)

-----------------------------------------------------------------------------
(* A file is sent in blocks, up to the first that fails; the version text  *)
(* of the second form is only printed.                                     *)
rwnx_plat_bin_fw_upload_2(f) == <<File(f, "fail")>>
rwnx_plat_bin_fw_upload_2_with_version(f) == <<File(f, "fail")>>

(* Patches.  The tables of patch_config go where the chip says: an address *)
(* is read first and used even when its read failed.                       *)
aicwf_plat_patch_load_8800dc ==
    For(U01, rwnx_plat_bin_fw_upload_2("patch_u01"))
    \o For({1}, rwnx_plat_bin_fw_upload_2("patch_u02"))
    \o For({2}, rwnx_plat_bin_fw_upload_2("patch_h"))

aicwf_patch_var_config_8800dc == 
    For({2}, <<Read("magic", "log"), Step("may", "flags", "log")>>)

aicwf_patch_table_load(f) == <<File(f, "log")>>

aicwf_patch_config_8800dc ==
    <<Read("wifi", "log")>> \o For(U01, <<Read("jump", "log")>>)
    \o <<Read("ldpc", "log"), Read("agc", "log"), Read("txgain", "log"),
         WriteAt("wifi", "wifi", "log"), WriteAt("ldpc", "ldpc", "log"),
         WriteAt("agc", "agc", "log"), WriteAt("txgain", "txgain", "log")>>
    \o For(U01, <<WriteAt("jump", "jump", "log"), Write("func", "log")>>)
    \o For({1}, aicwf_patch_table_load("table_u02"))
    \o For({2}, aicwf_patch_table_load("table_h"))
    \o aicwf_patch_var_config_8800dc

aicwf_plat_rftest_load_8800dc == rwnx_plat_bin_fw_upload_2("rf")

(* A chip that keeps the results of an earlier calibration (the check) is  *)
(* not calibrated again.                                                   *)
aicwf_misc_ram_valid_check_8800dc == <<Step("check", "misc", "fail")>>
aicwf_plat_calib_load_8800dc ==
    For({1}, rwnx_plat_bin_fw_upload_2("calib_u02"))
    \o For({2}, rwnx_plat_bin_fw_upload_2("calib_h"))
aicwf_dpd_calib_8800dc ==
    Function(aicwf_misc_ram_valid_check_8800dc \o aicwf_plat_calib_load_8800dc
             \o <<Start("calib"), Step("result", "misc", "fail")>>)
aicwf_dpd_result_apply_8800dc ==
    <<Step("apply", "misc", "fail"), Step("apply", "dpd", "fail")>>

aicwf_plat_patch_load_8800d80n ==
    rwnx_plat_bin_fw_upload_2_with_version("patch_u02")
aicwf_plat_patch_table_load_8800d80n == <<File("table_u02", "fail")>>
aicwf_patch_config_8800d80n ==
    <<Read("wifi", "log"), Read("jump", "log"), Read("agc", "log"),
      Read("txgain", "log"), WriteAt("wifi", "wifi", "log")>>
aicwf_plat_rftest_load_8800d80n == rwnx_plat_bin_fw_upload_2("rf")
aicwf_plat_rftest_exec_8800d80n == <<Read("reset", "fail"), Start("rf")>>

aicwf_patch_config_8800dln ==
    <<Read("wifi", "log"), Read("jump", "log"), Read("agc", "log"),
      Read("txgain", "log"), WriteAt("wifi", "wifi", "log"),
      [File("initvar", "log") EXCEPT !.at = "txgain"]>>
aicwf_plat_rftest_load_8800dln == rwnx_plat_bin_fw_upload_2("rf")

rwnx_plat_patch_load(c, m) ==
    CASE c \in {"dc", "dw"} /\ m = "normal" ->
            aicwf_plat_patch_load_8800dc \o aicwf_patch_config_8800dc
            \o For(U02on, aicwf_dpd_calib_8800dc)
      [] c \in {"dc", "dw"} /\ m = "rftest" ->
            For(U02on, aicwf_plat_patch_load_8800dc \o aicwf_dpd_calib_8800dc)
            \o aicwf_plat_rftest_load_8800dc
      [] c = "d80n" /\ m = "normal" ->
            aicwf_plat_patch_load_8800d80n \o aicwf_plat_patch_table_load_8800d80n
            \o aicwf_patch_config_8800d80n
      [] c = "d80n" /\ m = "rftest" -> aicwf_plat_rftest_load_8800d80n
      [] c = "dln" /\ m = "normal" -> aicwf_patch_config_8800dln
      [] c = "dln" /\ m = "rftest" -> aicwf_plat_rftest_load_8800dln

(* The user's power settings; the file may be missing.                     *)
UserConfig(f) == <<Step("config", f, "log")>>
rwnx_plat_userconfig_load_8800dc == UserConfig("aic_userconfig_8800dc")
rwnx_plat_userconfig_load_8800dw == UserConfig("aic_userconfig_8800dw")
rwnx_plat_userconfig_load_8800d80 == UserConfig("aic_userconfig_8800d80")
rwnx_plat_userconfig_load_8800d80x2 == UserConfig("aic_userconfig_8800d80x2")
rwnx_plat_userconfig_load_8800d80n == UserConfig("aic_userconfig_8800d80n")
rwnx_plat_userconfig_load_8800dln == UserConfig("aic_userconfig_8800dln")
rwnx_plat_userconfig_load(c) ==
    CASE c = "dc"   -> rwnx_plat_userconfig_load_8800dc
      [] c = "dw"   -> rwnx_plat_userconfig_load_8800dw
      [] c = "d80n" -> rwnx_plat_userconfig_load_8800d80n
      [] c = "dln"  -> rwnx_plat_userconfig_load_8800dln
rwnx_platform_on(c, m) == rwnx_plat_patch_load(c, m) \o rwnx_plat_userconfig_load(c)

wdt_config == <<Write("wdt", "fail")>>
start_from_bootrom(m) ==
    <<Read("boot", "fail"), Start(IF m = "normal" THEN "fmac" ELSE "rf")>>

rwnx_ic_system_init(c, m) ==
    CASE c = "8801" -> system_config_8800
      [] c \in {"dc", "dw"} ->
            aicwf_usb_config \o system_config_8800dc \o rwnx_platform_on(c, m)
            \o For({r \in ChipRevs : r < 2}, wdt_config) \o start_from_bootrom(m)
      [] c = "d81" -> system_config_8800d80(m) \o rwnx_plat_userconfig_load_8800d80
      [] c = "x2" -> rwnx_plat_userconfig_load_8800d80x2
      [] c = "d80n" ->
            system_config_8800d80n \o rwnx_platform_on(c, m)
            \o (IF m = "normal" THEN start_from_bootrom(m)
                                   ELSE aicwf_plat_rftest_exec_8800d80n)
      [] c = "dln" ->
            system_config_8800dln \o rwnx_platform_on(c, m) \o start_from_bootrom(m)

-----------------------------------------------------------------------------
(* Radio configuration, then the first messages to the running firmware.   *)
aicwf_set_rf_config_8800dc(m) ==
    <<Send("txpwr", "fail"), Send("ofst", "fail")>>
    \o (IF m = "normal"
        THEN <<Send("txgain", "fail"), Send("rxgain", "fail"), Send("calib", "fail")>>
        ELSE For(U02on, aicwf_dpd_result_apply_8800dc \o <<Send("calib", "fail")>>))
aicwf_set_rf_config_8800d80 ==
    <<Send("txpwr", "fail"), Send("adj", "fail"), Send("ofst", "fail"),
      Send("calib", "fail")>>
aicwf_set_rf_config_8800d80x2 ==
    <<Send("txpwr", "fail"), Send("adj", "fail"), Send("ofst", "fail"),
      Send("calib", "fail")>>
aicwf_set_rf_config_8800d80n ==
    <<Send("txpwr", "fail"), Send("adj", "fail"), Send("ofst", "fail"),
      Send("calib", "fail")>>
aicwf_plat_gain_table_load_8800dln == <<File("gain", "log")>>
aicwf_set_rf_config_8800dln(m) ==
    <<Send("txpwr", "fail"), Send("adj", "fail"), Send("ofst", "fail")>>
    \o If(m = "normal", aicwf_plat_gain_table_load_8800dln)
    \o <<Send("calib", "fail")>>

rwnx_ic_rf_init(c, m) ==
    CASE c = "8801" ->
            <<Send("txpwr", "fail"), Send("ofst", "fail")>>
            \o If(m = "normal", <<Send("calib", "fail")>>)
      [] c \in {"dc", "dw"} -> aicwf_set_rf_config_8800dc(m)
      [] c = "d81"  -> aicwf_set_rf_config_8800d80
      [] c = "x2"   -> aicwf_set_rf_config_8800d80x2
      [] c = "d80n" -> aicwf_set_rf_config_8800d80n
      [] c = "dln"  -> aicwf_set_rf_config_8800dln(m)

(* The messages between the start of the stack and the registration.       *)
FirstMessages(c, m) ==
    <<Send("macaddr", "fail"), Send("reset", "fail"), Send("version", "fail")>>
    \o If(c = "8801" \/ m = "normal", <<Send("me_config", "log")>>)

(* Everything rwnx_cfg80211_init sends before it registers the device.     *)
ScriptFor(c, m) ==
    rwnx_ic_system_init(c, m)
    \o <<Send("stack_start", "fail"), Send("fw_version", "log")>>
    \o rwnx_ic_rf_init(c, m) \o FirstMessages(c, m)

Scripts == [c \in Chips |-> [m \in Modes |-> ScriptFor(c, m)]]
Script == Scripts[chip][mode]

Steps == [op : STRING, r : STRING, on : {"fail", "return", "log"}, at : STRING,
          revs : SUBSET ChipRevs, over : Nat]

(* How the code orders a script: a message every chip gets, and whose      *)
(* error fails the init, is the last but for one that is only logged, and  *)
(* no function returns past it; ...                                        *)
Last(s, v) ==
    /\ s[v].op = "send" /\ s[v].on = "fail" /\ s[v].revs = ChipRevs
    /\ \A i \in DOMAIN s :
          /\ i < v => i + s[i].over < v
          /\ i > v => s[i].op = "send" /\ s[i].r = "me_config" /\ s[i].on = "log"
(* ... nothing depends on the revision before it is read, and no table is  *)
(* for an address that is not read before, for the same revisions; ...     *)
ReadFirst(s) ==
    \A i \in DOMAIN s :
      /\ \/ s[i].revs = ChipRevs /\ s[i].op # "check"
         \/ \E j \in 1 .. i - 1 : s[j].op = "read" /\ s[j].r = "sub" /\ s[j].revs = ChipRevs
      /\ \/ s[i].at = "-"
         \/ \E j \in 1 .. i - 1 :
               s[j].op = "read" /\ s[j].r = s[i].at /\ s[i].revs \subseteq s[j].revs
(* ... a check passes over no read, and a missing file ends no function.   *)
Ends(s) ==
    \A i \in DOMAIN s :
      /\ s[i].op = "check" => \A j \in i .. i + s[i].over : j \in DOMAIN s => s[j].op # "read"
      /\ s[i].op \in {"file", "config"} => s[i].on # "return"

ASSUME ScriptsOrdered ==
    \A c \in Chips, m \in Modes :
      /\ Scripts[c][m] \in Seq(Steps)
      /\ \E v \in DOMAIN Scripts[c][m] : Last(Scripts[c][m], v)
      /\ ReadFirst(Scripts[c][m]) /\ Ends(Scripts[c][m])

(* Files of the product's script.                                          *)
Files == {Script[i].r : i \in {j \in DOMAIN Script : Script[j].op = "file"}}

-----------------------------------------------------------------------------
(* No device yet; at most one of the files is missing.                     *)
Init ==
    /\ chip \in Chips /\ mode \in Modes /\ rev = 0
    /\ absent \in {{}} \cup {{f} : f \in Files}
    /\ plugged = FALSE /\ plugs = 0
    /\ sub = 0 /\ dpdRes = FALSE
    /\ dead = FALSE /\ done = {} /\ known = {} /\ wild = FALSE
    /\ pos = 1
    /\ held = {} /\ hw = "none" /\ enabled = FALSE /\ bound = FALSE
    /\ listed = TRUE /\ ret = 0
    /\ sem = "free"
    /\ pc = [t \in Threads |-> "idle"]

Goto(t, l) == pc' = [pc EXCEPT ![t] = l]

(* A device of the product is plugged, powered on afresh, of any revision. *)
Plug ==
    /\ ~plugged /\ ~bound /\ plugs < MaxPlugs
    /\ pc["usb"] = "idle" /\ listed
    /\ rev' \in ChipRevs
    /\ plugged' = TRUE /\ plugs' = plugs + 1
    /\ done' = {} /\ known' = {} /\ wild' = FALSE
    /\ Goto("usb", "wiphy")
    /\ UNCHANGED <<chip, mode, absent, glob, dead, pos, drv, sem>>

(* From here on nothing is answered.                                       *)
Unplug ==
    /\ plugged
    /\ plugged' = FALSE
    /\ UNCHANGED <<setup, plugs, glob, chipVars, pos, drv, sem, pc>>

-----------------------------------------------------------------------------
(* rwnx_cfg80211_init up to the first command.                             *)
Fail(l) == ret' = -1 /\ Goto("usb", l)

WiphyNew ==
    /\ pc["usb"] = "wiphy"
    /\ enabled' = FALSE     \* rwnx_platform_init
    /\ \/ /\ held' = held \cup {"wiphy", "wakelock"} /\ hw' = "live"
          /\ dead' = FALSE  \* rwnx_init_aic: rwnx_cmd_mgr_init
          /\ ret' = 0 /\ Goto("usb", "cache")
       \/ Fail("out") /\ UNCHANGED <<held, hw, dead>>
    /\ UNCHANGED <<setup, plugged, plugs, glob, done, known, wild, pos, bound, listed, sem>>

CacheNew ==
    /\ pc["usb"] = "cache"
    /\ \/ held' = held \cup {"cache", "tcp"} /\ Goto("usb", "wq") /\ UNCHANGED ret
       \/ Fail("err_cache") /\ UNCHANGED held
    /\ UNCHANGED <<setup, plugged, plugs, glob, chipVars, pos, hw, enabled, bound, listed, sem>>

(* Without the workqueue the init gives up, but ret is still 0.            *)
WqNew ==
    /\ pc["usb"] = "wq"
    /\ \/ held' = held \cup {"wq"} /\ pos' = 1 /\ Goto("usb", "script")
       \/ WqFails /\ Goto("usb", "err_cache") /\ UNCHANGED <<held, pos>>
    /\ UNCHANGED <<setup, plugged, plugs, glob, chipVars, hw, enabled, bound, listed, ret, sem>>

-----------------------------------------------------------------------------
(* The step under the program counter.                                     *)
Cur == Script[pos]
Applies == sub \in Cur.revs /\ (Cur.op = "apply" => dpdRes)
InScript == pc["usb"] = "script" /\ pos <= Len(Script)

(* A step for other revisions, or one no register asks for, is passed over. *)
Skip ==
    /\ InScript /\ (~Applies \/ Cur.op = "may")
    /\ pos' = pos + 1
    /\ UNCHANGED <<setup, plugged, plugs, glob, chipVars, drv, sem, pc>>

(* Seeded fault for the mutation runs: a timed-out command leaves no mark. *)
RefusesAgain == FALSE
(* cmd_mgr_queue refuses every command after one has timed out.            *)
Refuses == dead

NeedsFile == Cur.op \in {"file", "config"}
Silent == Cur.op = "config" \/ (NeedsFile /\ Cur.r \in absent)

(* The chip answers every command of the step.  A check that finds the     *)
(* results of an earlier calibration ends aicwf_dpd_calib_8800dc.          *)
Answered ==
    /\ InScript /\ Applies /\ ~Silent /\ ~Refuses /\ plugged
    /\ sub' = IF Cur.op = "read" /\ Cur.r = "sub" THEN rev ELSE sub
    /\ known' = IF Cur.op = "read" THEN known \cup {Cur.r} ELSE known
    /\ dpdRes' = (dpdRes \/ Cur.op = "result")
    /\ wild' = (wild \/ (Cur.at # "-" /\ Cur.at \notin known))
    /\ \/ pos' = pos + 1 /\ done' = done \cup {pos}
       \/ /\ Cur.op = "check" /\ pos' = pos + Cur.over + 1
          /\ done' = done \cup {j \in pos .. pos + Cur.over : sub \in Script[j].revs}
    /\ UNCHANGED <<setup, plugged, plugs, dead, drv, sem, pc>>

(* A command of the step is refused or times out.                          *)
OnError ==
    \/ Cur.on = "fail" /\ Fail("err_lmac") /\ UNCHANGED pos
    \/ Cur.on = "log" /\ pos' = pos + 1 /\ UNCHANGED <<ret, pc>>
    \/ Cur.on = "return" /\ pos' = pos + Cur.over + 1 /\ UNCHANGED <<ret, pc>>

Lost ==
    /\ InScript /\ Applies /\ ~Silent
    /\ dead' = TRUE
    /\ OnError
    /\ UNCHANGED <<setup, plugged, plugs, glob, done, known, wild, held, hw, enabled,
                   bound, listed, sem>>

(* The file is missing, or nothing of it is sent to the chip.              *)
NoCommand ==
    /\ InScript /\ Applies /\ Silent
    /\ OnError
    /\ UNCHANGED <<setup, plugged, plugs, glob, chipVars, held, hw, enabled, bound, listed, sem>>

(* The D81's RF-test register may hold another value than 1.               *)
WrongRegister ==
    /\ InScript /\ Cur.op = "read" /\ Cur.r = "rftest"
    /\ plugged /\ ~Refuses
    /\ Fail("err_lmac")
    /\ UNCHANGED <<setup, plugged, plugs, glob, chipVars, pos, held, hw, enabled,
                   bound, listed, sem>>

-----------------------------------------------------------------------------
(* Registration; the channel configuration's result is ignored.            *)
WiphyRegister ==
    /\ pc["usb"] = "script" /\ pos > Len(Script)
    /\ \/ /\ held' = held \cup {"registered"} /\ Goto("usb", "debugfs")
          /\ \/ plugged /\ ~Refuses /\ UNCHANGED dead
             \/ (chip = "8801" \/ mode = "normal") /\ dead' = TRUE
             \/ ~(chip = "8801" \/ mode = "normal") /\ UNCHANGED dead
          /\ UNCHANGED ret
       \/ Fail("err_lmac") /\ UNCHANGED <<held, dead>>
    /\ UNCHANGED <<setup, plugged, plugs, glob, done, known, wild, pos, hw, enabled,
                   bound, listed, sem>>

DbgfsRegister ==
    /\ pc["usb"] = "debugfs"
    /\ \/ held' = held \cup {"debugfs"} /\ Goto("usb", "netdev") /\ UNCHANGED ret
       \/ Fail("err_debugfs") /\ UNCHANGED held
    /\ UNCHANGED <<setup, plugged, plugs, glob, chipVars, pos, hw, enabled, bound, listed, sem>>

InterfaceAdd ==
    /\ pc["usb"] = "netdev"
    /\ \/ held' = held \cup {"netdev"} /\ Goto("usb", "out") /\ UNCHANGED ret
       \/ Fail("err_interface") /\ UNCHANGED held
    /\ UNCHANGED <<setup, plugged, plugs, glob, chipVars, pos, hw, enabled, bound, listed, sem>>

(* The error labels, each falling into the next.                           *)
Label(l, s, next) ==
    /\ pc["usb"] = l
    /\ held' = held \ s
    /\ Goto("usb", next)
    /\ UNCHANGED <<setup, plugged, plugs, glob, chipVars, pos, bound, listed, ret, sem>>

ErrInterface == Label("err_interface", {"debugfs"}, "err_debugfs")
                /\ UNCHANGED <<hw, enabled>>
ErrDebugfs == Label("err_debugfs", {"registered"}, "err_lmac")
              /\ UNCHANGED <<hw, enabled>>
(* Seeded fault for the mutation runs: the workqueue is forgotten.         *)
ErrLmacKeepsWq == Label("err_lmac", {"cache"}, "err_cache") /\ enabled' = FALSE
                  /\ UNCHANGED hw
ErrLmac == Label("err_lmac", {"wq", "cache"}, "err_cache") /\ enabled' = FALSE
           /\ UNCHANGED hw
ErrCache == Label("err_cache", {"wakelock", "wiphy"}, "out") /\ hw' = "freed"
            /\ UNCHANGED enabled

(* The probe's end: a negative result unbinds; aicwf_hostif_ready enables. *)
ProbeEnd ==
    /\ pc["usb"] = "out"
    /\ enabled' = (IF ret < 0 THEN enabled ELSE TRUE)
    /\ bound' = (ret >= 0)
    /\ Goto("usb", "idle")
    /\ UNCHANGED <<setup, plugged, plugs, glob, chipVars, pos, held, hw, listed, ret, sem>>

-----------------------------------------------------------------------------
(* aicwf_usb_disconnect, called for an unplugged device by the usb thread  *)
(* and by usb_deregister in the exiting one; the core's device lock keeps  *)
(* the two and the probe apart.                                            *)
Disconnect(t) ==
    /\ bound
    /\ \/ t = "usb" /\ ~plugged /\ pc["usb"] = "idle"
       \/ t = "exit" /\ pc["exit"] = "deregister" /\ pc["usb"] = "idle"
    /\ bound' = FALSE
    /\ Goto(t, "disc_sem")
    /\ UNCHANGED <<setup, plugged, plugs, glob, chipVars, pos, held, hw, enabled, listed,
                   ret, sem>>

(* Seeded fault for the mutation runs: the semaphore is not waited for.    *)
DiscSemBarges(t) ==
    /\ pc[t] = "disc_sem"
    /\ Goto(t, IF enabled THEN "deinit" ELSE "up")
    /\ UNCHANGED <<setup, plugged, plugs, glob, chipVars, pos, drv, sem>>

(* aicwf_bus_deinit stops the platform only when it is enabled.            *)
DiscSem(t) ==
    /\ pc[t] = "disc_sem" /\ sem = "free"
    /\ sem' = t
    /\ Goto(t, IF enabled THEN "deinit" ELSE "up")
    /\ UNCHANGED <<setup, plugged, plugs, glob, chipVars, pos, drv>>

(* Seeded fault for the mutation runs: the semaphore is kept.              *)
DeinitUpNever(t) ==
    /\ pc[t] = "up"
    /\ Goto(t, IF t = "usb" THEN "idle" ELSE "deregister")
    /\ listed' = (listed /\ t = "usb")
    /\ UNCHANGED <<setup, plugged, plugs, glob, chipVars, pos, held, hw, enabled, bound,
                   ret, sem>>

(* The semaphore is released at the end of a disconnect and of the exit's  *)
(* own part.                                                               *)
DeinitUp(t) ==
    /\ pc[t] = "up"
    /\ sem' = "free"
    /\ Goto(t, IF t = "usb" THEN "idle" ELSE "deregister")
    /\ listed' = (listed /\ t = "usb")     \* usb_deregister comes next
    /\ UNCHANGED <<setup, plugged, plugs, glob, chipVars, pos, held, hw, enabled, bound,
                   ret>>

(* rwnx_cfg80211_deinit in the order of its calls.                         *)
Release(t, l, s, next) ==
    /\ pc[t] = l
    /\ held' = held \ s
    /\ Goto(t, next)
    /\ UNCHANGED <<setup, plugged, plugs, glob, chipVars, pos, bound, listed, ret, sem>>

DeinitStop(t) == Release(t, "deinit", {"debugfs", "wq"}, "unregister")
                 /\ UNCHANGED <<hw, enabled>>
DeinitUnregister(t) == Release(t, "unregister", {"netdev", "registered"}, "off")
                       /\ UNCHANGED <<hw, enabled>>
DeinitOff(t) == Release(t, "off", {}, "free") /\ enabled' = FALSE /\ UNCHANGED hw
DeinitFree(t) == Release(t, "free", {"cache", "tcp", "wakelock", "wiphy"}, "up")
                 /\ hw' = "freed" /\ UNCHANGED enabled

-----------------------------------------------------------------------------
(* aicwf_usb_exit.  The timeouts of its two waits are long against a       *)
(* disconnect and do not expire here.                                      *)
ExitBegin ==
    /\ pc["exit"] = "idle"
    /\ Goto("exit", "sem")
    /\ UNCHANGED <<setup, plugged, plugs, glob, chipVars, pos, drv, sem>>

ExitSem ==
    /\ pc["exit"] = "sem" /\ sem = "free"
    /\ sem' = "exit"
    /\ Goto("exit", IF enabled THEN "deinit" ELSE "up")
    /\ UNCHANGED <<setup, plugged, plugs, glob, chipVars, pos, drv>>

(* usb_deregister waits for a probe or a disconnect that is running.       *)
ExitEnd ==
    /\ pc["exit"] = "deregister" /\ ~bound /\ pc["usb"] = "idle"
    /\ Goto("exit", "gone")
    /\ UNCHANGED <<setup, plugged, plugs, glob, chipVars, pos, drv, sem>>

-----------------------------------------------------------------------------
Probe ==
    \/ WiphyNew \/ CacheNew \/ WqNew
    \/ Skip \/ Answered \/ Lost \/ NoCommand \/ WrongRegister
    \/ WiphyRegister \/ DbgfsRegister \/ InterfaceAdd
    \/ ErrInterface \/ ErrDebugfs \/ ErrLmac \/ ErrCache \/ ProbeEnd

Stop(t) ==
    \/ Disconnect(t) \/ DiscSem(t) \/ DeinitUp(t)
    \/ DeinitStop(t) \/ DeinitUnregister(t) \/ DeinitOff(t) \/ DeinitFree(t)

Exit == ExitSem \/ ExitEnd \/ Stop("exit")

Next == Plug \/ Unplug \/ Probe \/ Stop("usb") \/ ExitBegin \/ Exit

(* Each thread runs; plugging and unloading are up to the user.            *)
Spec == Init /\ [][Next]_vars
             /\ WF_vars(Probe) /\ WF_vars(Stop("usb")) /\ WF_vars(Exit)

-----------------------------------------------------------------------------
(* Steps of the script that are for the chip that is plugged.  Those of an *)
(* optional file and the ones a register may not ask for are left out.     *)
Mine == {i \in DOMAIN Script : rev \in Script[i].revs}
Optional(s) ==
    \/ s.op \in {"may", "config", "apply"}
    \/ s.op = "file" /\ s.on = "log" /\ s.r \in absent
Due == {i \in Mine : ~Optional(Script[i])}

(* A device that is registered with cfg80211 has received the whole script *)
(* of its own revision and nothing of another one, and no table went to an *)
(* address that was never read, although most results are ignored and the  *)
(* revision is kept in a global; only the last message, whose result is    *)
(* ignored as well, may be missing, and then every later command fails     *)
(* (rwnx_main.c, rwnx_cfg80211_init; aicwf_compat_8800dc.c,                *)
(* aicwf_patch_config_8800dc).                                             *)
StartedRight ==
    "registered" \in held /\ pc["usb"] # "wiphy" =>
        /\ ~wild
        /\ done \subseteq Mine
        /\ \A i \in Due \ done : dead /\ Script[i].r = "me_config"

(* Once the probe has failed or the device was stopped, nothing the init   *)
(* took is left but the filter's timers, which the error labels forget     *)
(* (rwnx_main.c, the labels err_add_interface to err_out).                 *)
Unwound ==
    pc["usb"] = "idle" /\ pc["exit"] \in {"idle", "sem", "gone"} /\ ~bound
        => held \subseteq {"tcp"}

(* An enabled platform has a live rwnx_hw, which a disconnect or the       *)
(* module's exit then stops, once (aicwf_txrxif.c, aicwf_bus_deinit;       *)
(* aicwf_usb.c, aicwf_usb_exit).  rwnx_platform.c:3940 says of the init    *)
(* "Return: 0 on success, < 0 otherwise".                                  *)
HwLive ==
    /\ enabled => hw = "live"
    /\ \A t \in Threads :
          pc[t] \in {"deinit", "unregister", "off", "free"} => hw = "live"

(* Whatever the init took is given back, and the platform is enabled only  *)
(* with a live device.                                                     *)
DeviceSound == Unwound /\ HwLive

(* Unloading the module ends: its exit, a disconnect and a probe do not    *)
(* wait for one another for ever (aicwf_usb.c, aicwf_usb_exit).            *)
ExitEnds == pc["exit"] = "sem" ~> pc["exit"] = "gone"
=============================================================================
