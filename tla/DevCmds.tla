------------------------------ MODULE DevCmds ------------------------------
(***************************************************************************)
(* The private commands of a network device (aic_priv_cmd.c) and the       *)
(* wireless extensions that reach the firmware (aicwf_wext_linux.c), each  *)
(* as the set of its paths.  The kernel calls them with rtnl held.  A test *)
(* command with an answer hands over the one buffer `cfm' of the file and  *)
(* copies it to user space whatever the send returned; one without an      *)
(* answer passes NULL.  `Opt' stands for wrong arguments, or a chip that   *)
(* lacks the command, for which nothing is sent.  The answer is assumed to *)
(* be shorter than the caller's buffer.                                    *)
(***************************************************************************)
EXTENDS CfgOps

RfGet == rwnx_send_rftest_req(TRUE)
RfSet == rwnx_send_rftest_req(FALSE)

(* --------------------------- transmit and receive ---------------------- *)

(* A power level given with the rate is written first.                     *)
aic_priv_cmd_set_tx == Opt(Opt(RfGet) ++ RfSet)
aic_priv_cmd_set_txstop == RfSet
aic_priv_cmd_set_rx == Opt(RfSet)
aic_priv_cmd_get_rx_result == RfGet
aic_priv_cmd_set_rxstop == RfSet
aic_priv_cmd_set_tx_tone == Opt(RfSet)
aic_priv_cmd_set_rx_meter == RfSet
aic_priv_cmd_set_set_power == Opt(RfSet)

(* -------------------------- crystal and frequency ---------------------- *)

aic_priv_cmd_set_xtal_cap == Opt(RfGet)
aic_priv_cmd_set_xtal_cap_fine == Opt(RfGet)
aic_priv_cmd_get_efuse_block == Opt(RfGet)
aic_priv_cmd_set_freq_cal == Opt(RfGet)
aic_priv_cmd_set_freq_cal_fine == Opt(RfGet)
aic_priv_cmd_get_freq_cal == RfGet
aic_priv_cmd_set_cal_xtal == RfSet
aic_priv_cmd_get_cal_xtal_res == RfGet

(* ------------------------- addresses and identity ---------------------- *)

aic_priv_cmd_set_mac_addr == Opt(RfSet)
aic_priv_cmd_get_mac_addr == RfGet
aic_priv_cmd_set_bt_mac_addr == Opt(RfSet)
aic_priv_cmd_get_bt_mac_addr == RfGet
aic_priv_cmd_set_vendor_info == RfGet
aic_priv_cmd_get_vendor_info == RfGet

(* ------------------------------ power tables --------------------------- *)

aic_priv_cmd_rdwr_pwrmm == RfGet
aic_priv_cmd_rdwr_pwridx == Opt(RfGet)
aic_priv_cmd_rdwr_pwrlvl == Opt(RfGet)
aic_priv_cmd_rdwr_pwrofst == Opt(RfGet)
aic_priv_cmd_rdwr_pwrofstfine == Opt(RfGet)
aic_priv_cmd_rdwr_drvibit == Opt(RfGet)
aic_priv_cmd_rdwr_pwradd2x == Opt(RfGet)
(* The loss is added to the table of the chip, and the table sent again.   *)
aic_priv_cmd_set_txpwr_loss ==
  Opt(rwnx_send_txpwr_lvl_v3_req \cup rwnx_send_txpwr_lvl_v4_req
        \cup rwnx_send_txpwr_lvl_req)

(* --------------------------------- fuses ------------------------------- *)

aic_priv_cmd_rdwr_efuse_pwrofst == Opt(RfGet)
aic_priv_cmd_rdwr_efuse_pwrofstfine == Opt(RfGet)
aic_priv_cmd_rdwr_efuse_drvibit == Opt(RfGet)
aic_priv_cmd_rdwr_efuse_usrdata == RfGet
aic_priv_cmd_rdwr_efuse_sdiocfg == Opt(RfGet)
aic_priv_cmd_rdwr_efuse_usbvidpid == Opt(RfGet)
aic_priv_cmd_rdwr_efuse_he_off == Opt(RfGet)
aic_priv_cmd_rdwr_bt_efuse_pwrofst == Opt(RfGet)
aic_priv_cmd_rdwr_efuse_pwradd2x == Opt(RfGet)

(* ---------------------------- tests and filters ------------------------ *)

aic_priv_cmd_set_cob_cal == Opt(RfSet)
aic_priv_cmd_get_cob_cal_res == RfGet
aic_priv_cmd_do_cob_test == RfSet ++ RfGet
aic_priv_cmd_set_papr == Opt(RfSet)
aic_priv_cmd_set_notch == Opt(RfSet)
aic_priv_cmd_set_srrc == Opt(RfSet)
aic_priv_cmd_set_fss == Opt(RfSet)
aic_priv_cmd_set_usb_off == RfSet
aic_priv_cmd_set_pll_test == Opt(RfGet)
aic_priv_cmd_set_ant_mode == Opt(RfSet)
aic_priv_cmd_exec_flash_oper == Opt(RfGet)
aic_priv_cmd_get_noise == RfGet
aic_priv_cmd_check_flash == RfGet
aic_priv_cmd_get_rssi == RfGet

(* The domain is handed to cfg80211, which calls the notifier later.       *)
aic_priv_cmd_country_set == Skip

(* ------------------------------- dispatch ------------------------------ *)

(* The table of commands: one that no name, or more than one, matches does *)
(* nothing.                                                                *)
handle_private_cmd ==
  Skip \cup
  aic_priv_cmd_set_tx \cup aic_priv_cmd_set_txstop \cup aic_priv_cmd_set_rx \cup
  aic_priv_cmd_get_rx_result \cup aic_priv_cmd_set_rxstop \cup
  aic_priv_cmd_set_tx_tone \cup aic_priv_cmd_set_rx_meter \cup
  aic_priv_cmd_set_set_power \cup aic_priv_cmd_set_xtal_cap \cup
  aic_priv_cmd_set_xtal_cap_fine \cup aic_priv_cmd_get_efuse_block \cup
  aic_priv_cmd_set_freq_cal \cup aic_priv_cmd_set_freq_cal_fine \cup
  aic_priv_cmd_get_freq_cal \cup aic_priv_cmd_set_cal_xtal \cup
  aic_priv_cmd_get_cal_xtal_res \cup aic_priv_cmd_set_mac_addr \cup
  aic_priv_cmd_get_mac_addr \cup aic_priv_cmd_set_bt_mac_addr \cup
  aic_priv_cmd_get_bt_mac_addr \cup aic_priv_cmd_set_vendor_info \cup
  aic_priv_cmd_get_vendor_info \cup aic_priv_cmd_rdwr_pwrmm \cup
  aic_priv_cmd_rdwr_pwridx \cup aic_priv_cmd_rdwr_pwrlvl \cup
  aic_priv_cmd_rdwr_pwrofst \cup aic_priv_cmd_rdwr_pwrofstfine \cup
  aic_priv_cmd_rdwr_drvibit \cup aic_priv_cmd_rdwr_pwradd2x \cup
  aic_priv_cmd_set_txpwr_loss \cup aic_priv_cmd_rdwr_efuse_pwrofst \cup
  aic_priv_cmd_rdwr_efuse_pwrofstfine \cup aic_priv_cmd_rdwr_efuse_drvibit \cup
  aic_priv_cmd_rdwr_efuse_usrdata \cup aic_priv_cmd_rdwr_efuse_sdiocfg \cup
  aic_priv_cmd_rdwr_efuse_usbvidpid \cup aic_priv_cmd_rdwr_efuse_he_off \cup
  aic_priv_cmd_rdwr_bt_efuse_pwrofst \cup aic_priv_cmd_rdwr_efuse_pwradd2x \cup
  aic_priv_cmd_set_cob_cal \cup aic_priv_cmd_get_cob_cal_res \cup
  aic_priv_cmd_do_cob_test \cup aic_priv_cmd_set_papr \cup
  aic_priv_cmd_set_notch \cup aic_priv_cmd_set_srrc \cup aic_priv_cmd_set_fss \cup
  aic_priv_cmd_set_usb_off \cup aic_priv_cmd_set_pll_test \cup
  aic_priv_cmd_set_ant_mode \cup aic_priv_cmd_exec_flash_oper \cup
  aic_priv_cmd_get_noise \cup aic_priv_cmd_check_flash \cup
  aic_priv_cmd_get_rssi \cup aic_priv_cmd_country_set

get_cs_info == Opt(Opt(Touch("cb")) ++ rwnx_fill_station_info)
(* The country, the test mode and the statistics come before the table.    *)
android_priv_cmd ==
  Skip \cup rwnx_send_reboot \cup get_cs_info \cup handle_private_cmd

(* -------------------------- wireless extensions ------------------------ *)

aicwf_get_name == Opt(rwnx_send_get_sta_info_req)
aicwf_get_rate == Opt(rwnx_send_get_sta_info_req)
(* A scan under way is cancelled first; the wait for the end of the scan   *)
(* that follows has a limit of its own, five seconds.                      *)
aicwf_set_scan ==
  rwnx_send_scanu_cancel_req \cup
    (Opt(rwnx_send_scanu_cancel_req) ++ rwnx_send_scanu_req)

rwnx_do_ioctl == Opt(android_priv_cmd)
WirelessExtensions == aicwf_get_name \cup aicwf_get_rate \cup aicwf_set_scan
=============================================================================
