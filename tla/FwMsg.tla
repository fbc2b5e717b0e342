------------------------------- MODULE FwMsg -------------------------------
(***************************************************************************)
(* The senders of rwnx_msg_tx.c: which message each one gives to the       *)
(* command manager, whether it is confirmed, whether the caller hands over *)
(* a buffer for the confirmation, and in which cases nothing is sent.      *)
(* Parameters are data and are left out; a message that cannot be          *)
(* allocated is not modelled.                                              *)
(*                                                                         *)
(* A call of the driver is the set of its paths.  A path is the sequence   *)
(* of the steps through which a call meets the other threads: the messages *)
(* it sends to the firmware, the locks it takes, the work items it queues  *)
(* or waits for.  The data of a call only decide which path it takes, and  *)
(* are abstracted to that choice; Calls.tla runs the paths.                *)
(***************************************************************************)
EXTENDS Sequences

(* One after the other; `Opt': may be skipped; `Then': the second part     *)
(* only when the first one succeeded; `Loop': zero, one or two rounds.     *)
P ++ Q == {p \o q : p \in P, q \in Q}

Skip == {<<>>}
Opt(P) == P \cup Skip
Then(P, Q) == P \cup (P ++ Q)
Loop(P) == Skip \cup P \cup (P ++ P)

(***************************************************************************)
(* The four ways to send a message.  `Ask': a confirmed command with a     *)
(* buffer for the answer (cmd->e2a_msg set), which waits until the list of *)
(* commands is empty.  `Tell': a confirmed command without a buffer, which *)
(* is deferred when the list is not empty.  `Defer': a command that is     *)
(* always left to the worker (cmd_mgr_queue_force_defer).  `Post': a       *)
(* message that has no confirmation and passes the list by.  The request   *)
(* X_REQ and its confirmation X_CFM share the name X.                      *)
(***************************************************************************)
Ask(m) == {<<[op |-> "ask", arg |-> m]>>}
Tell(m) == {<<[op |-> "tell", arg |-> m]>>}
Defer(m) == {<<[op |-> "defer", arg |-> m]>>}
Post(m) == {<<[op |-> "post", arg |-> m]>>}

(* spin_lock_bh, mutex_lock ... unlock around a part of the call.          *)
Hold(l, P) == {<<[op |-> "lock", arg |-> l]>>} ++ P
                 ++ {<<[op |-> "unlock", arg |-> l]>>}
(* A critical section in which the call does nothing that another thread   *)
(* could meet.                                                             *)
Touch(l) == {<<[op |-> "touch", arg |-> l]>>}

(* queue_work; flush_workqueue, cancel_work_sync and del_timer_sync, which *)
(* wait for a handler that runs; cancel_delayed_work, which does not, with *)
(* the command that is sent when the work was still pending.               *)
Queue(w) == {<<[op |-> "queue", arg |-> w]>>}
Flush(w) == {<<[op |-> "flush", arg |-> w]>>}
Cancel(w, m) == {<<[op |-> "cancel", arg |-> w], [op |-> "tell", arg |-> m]>>}

(* -------------------------- interfaces and keys ------------------------ *)

rwnx_send_reset == Tell("MM_RESET")
rwnx_send_start == Tell("MM_START")
rwnx_send_version_req == Ask("MM_VERSION")

(* An AP_VLAN interface is refused before anything is sent.                *)
rwnx_send_add_if == Opt(Ask("MM_ADD_IF"))
rwnx_send_remove_if(defer) ==
  IF defer THEN Defer("MM_REMOVE_IF") ELSE Tell("MM_REMOVE_IF")
rwnx_send_key_add == Ask("MM_KEY_ADD")
rwnx_send_key_del == Tell("MM_KEY_DEL")

(* A debugfs write asks for the second chain, which one-chain devices do   *)
(* not have: refused before the message is made.                           *)
rwnx_send_set_channel == Opt(Tell("MM_SET_CHANNEL"))

(* ------------------------------- beacons ------------------------------- *)

rwnx_send_bcn == Tell("APM_SET_BEACON_IE")
rwnx_send_bcn_change == Tell("MM_BCN_CHANGE")

(* --------------------- channels, power and parameters ------------------ *)

rwnx_send_roc == Ask("MM_REMAIN_ON_CHANNEL")
(* The cancellation is confirmed by the same message as the request.       *)
rwnx_send_cancel_roc == Tell("MM_REMAIN_ON_CHANNEL")
rwnx_send_set_power == Tell("MM_SET_POWER")
rwnx_send_set_edca == Tell("MM_SET_EDCA")
rwnx_send_arpoffload_en_req == Tell("MM_SET_ARPOFFLOAD")
rwnx_send_coex_req == Tell("MM_SET_COEX")
rwnx_send_rf_config_req == Tell("MM_SET_RF_CONFIG")
rwnx_send_rf_config_v2_req == Tell("MM_SET_RF_CONFIG")
(* Both layouts of the request, the D80X2's and the older one.             *)
rwnx_send_rf_calib_req == Ask("MM_SET_RF_CALIB")
rwnx_send_get_macaddr_req == Ask("MM_GET_MAC_ADDR")
rwnx_send_get_sta_info_req == Ask("MM_GET_STA_INFO")
rwnx_send_set_stack_start_req == Ask("MM_SET_STACK_START")
(* Only the chip temperature is answered into a buffer; an unknown         *)
(* identifier is refused.                                                  *)
rwnx_send_vendor_hwconfig_req ==
  Tell("MM_SET_VENDOR_HWCONFIG") \cup Opt(Ask("MM_SET_VENDOR_HWCONFIG"))
rwnx_send_vendor_hwconfig_req_x2 ==
  Tell("MM_SET_VENDOR_HWCONFIG") \cup Opt(Ask("MM_SET_VENDOR_HWCONFIG"))
(* Every software setting is answered into a buffer.                       *)
rwnx_send_vendor_swconfig_req == Opt(Ask("MM_SET_VENDOR_SWCONFIG"))
rwnx_send_vendor_swconfig_req_x2 == Opt(Ask("MM_SET_VENDOR_SWCONFIG"))
rwnx_send_p2p_oppps_req == Ask("MM_SET_P2P_OPPPS")
(* An absence that is not shorter than its interval is refused.            *)
rwnx_send_p2p_noa_req == Opt(Ask("MM_SET_P2P_NOA"))
rwnx_send_disable_agg_req == Tell("MM_SET_AGG_DISABLE")
rwnx_send_get_fw_version_req == Ask("MM_GET_FW_VERSION")
rwnx_send_cfg_rssi_req == Opt(Tell("MM_CFG_RSSI"))

(* The transmit power tables are sent only when the user configuration     *)
(* enables them; the index table of the AIC8801 always is.                 *)
rwnx_send_txpwr_idx_req == Tell("MM_SET_TXPWR_IDX_LVL")
rwnx_send_txpwr_lvl_req == Opt(Tell("MM_SET_TXPWR_IDX_LVL"))
rwnx_send_txpwr_lvl_v3_req == Opt(Tell("MM_SET_TXPWR_IDX_LVL"))
rwnx_send_txpwr_lvl_v4_req == Opt(Tell("MM_SET_TXPWR_IDX_LVL"))
rwnx_send_txpwr_lvl_adj_req == Opt(Tell("MM_SET_TXPWR_LVL_ADJ"))
rwnx_send_txpwr_lvl_adj_v2_req == Opt(Tell("MM_SET_TXPWR_LVL_ADJ"))
rwnx_send_txpwr_ofst_req == Opt(Tell("MM_SET_TXPWR_OFST"))
rwnx_send_txpwr_ofst2x_req == Opt(Tell("MM_SET_TXPWR_OFST"))
rwnx_send_txpwr_ofst2x_v2_req == Opt(Tell("MM_SET_TXPWR_OFST"))
rwnx_send_txpwr_ofst2x_v3_req == Opt(Tell("MM_SET_TXPWR_OFST"))

(* --------------------------- stations, traffic ------------------------- *)

rwnx_send_me_config_req == Tell("ME_CONFIG")
rwnx_send_me_chan_config_req == Tell("ME_CHAN_CONFIG")
rwnx_send_me_set_control_port_req == Tell("ME_SET_CONTROL_PORT")
rwnx_send_me_sta_add == Ask("ME_STA_ADD")
rwnx_send_me_sta_del == Tell("ME_STA_DEL")
rwnx_send_me_traffic_ind == Tell("ME_TRAFFIC_IND")
rwnx_send_me_rc_stats == Ask("ME_RC_STATS")
rwnx_send_me_rc_set_rate == Post("ME_RC_SET_RATE")
rwnx_send_config_monitor_req == Ask("ME_CONFIG_MONITOR")

(* ------------------------------ connection ----------------------------- *)

(* Invalid parameters are refused after the allocation.                    *)
rwnx_send_sm_connect_req == Opt(Ask("SM_CONNECT"))
rwnx_send_sm_disconnect_req == Tell("SM_DISCONNECT")
rwnx_send_sm_external_auth_required_rsp == Tell("SM_EXTERNAL_AUTH_REQUIRED_RSP")

(* -------------------------------- scan --------------------------------- *)

(* A scan for the P2P wildcard on a P2P device that is down first adds its *)
(* interface; the extra elements have a message of their own, whose        *)
(* failure ends the scan.                                                  *)
AddP2pDevice == Ask("MM_ADD_IF") ++ Touch("cb")
rwnx_send_scanu_req ==
  Ask("MM_ADD_IF") \cup
  (Opt(AddP2pDevice) ++
     (Tell("SCANU_START") \cup Then(Tell("SCANU_VENDOR_IE"), Tell("SCANU_START"))))
rwnx_send_scanu_cancel_req == Tell("SCANU_CANCEL")

(* --------------------------- access point, CAC ------------------------- *)

(* The beacon goes first, and its result is ignored.                       *)
rwnx_send_apm_start_req == rwnx_send_bcn ++ Ask("APM_START")
rwnx_send_apm_stop_req == Tell("APM_STOP")
rwnx_send_apm_start_cac_req == Ask("APM_START_CAC")
rwnx_send_apm_stop_cac_req == Tell("APM_STOP_CAC")

(* -------------------------------- mesh --------------------------------- *)

rwnx_send_mesh_start_req == Ask("MESH_START")
rwnx_send_mesh_stop_req == Ask("MESH_STOP")
(* Nothing is sent when no requested change is supported.                  *)
rwnx_send_mesh_update_req == Opt(Ask("MESH_UPDATE"))
rwnx_send_mesh_peer_update_ntf == Post("MESH_PEER_UPDATE_NTF")
(* Only one path creation is under way at a time.                          *)
rwnx_send_mesh_path_create_req == Opt(Post("MESH_PATH_CREATE"))
rwnx_send_mesh_path_update_req == Ask("MESH_PATH_UPDATE")
rwnx_send_mesh_proxy_add_req == Post("MESH_PROXY_ADD")
rwnx_send_tdls_peer_traffic_ind_req == Opt(Post("TDLS_PEER_TRAFFIC_IND"))

(* ----------------------------- debug and test -------------------------- *)

rwnx_send_dbg_mem_read_req == Ask("DBG_MEM_READ")
rwnx_send_dbg_mem_write_req == Tell("DBG_MEM_WRITE")
rwnx_send_dbg_mem_mask_write_req == Tell("DBG_MEM_MASK_WRITE")
rwnx_send_dbg_mem_block_write_req == Tell("DBG_MEM_BLOCK_WRITE")
rwnx_send_dbg_set_mod_filter_req == Tell("DBG_SET_MOD_FILTER")
rwnx_send_dbg_set_sev_filter_req == Tell("DBG_SET_SEV_FILTER")
rwnx_send_dbg_get_sys_stat_req == Ask("DBG_GET_SYS_STAT")
rwnx_send_dbg_start_app_req == Tell("DBG_START_APP")
rwnx_send_reboot == rwnx_send_dbg_start_app_req
(* The caller may pass no buffer; more than 30 arguments are refused.      *)
rwnx_send_rftest_req(cfm) ==
  IF cfm THEN Ask("DBG_RFTEST_CMD") ELSE Tell("DBG_RFTEST_CMD")
=============================================================================
