------------------------------ MODULE CfgOps -------------------------------
(***************************************************************************)
(* The operations the kernel calls on the driver (cfg80211 and net_device  *)
(* operations), the work items, the timer of the P2P device and the        *)
(* handlers of firmware indications, each as the set of its paths.         *)
(* Locks: "cb" and "tx" are the spin locks cb_lock and tx_lock, "defrag"   *)
(* and "reord" those of reassembly and of a reordering list; "wiphy" and   *)
(* "rtnl" are the mutexes of cfg80211 and of the network stack.            *)
(***************************************************************************)
EXTENDS FwMsg

(* ---------------------------- the transmit path ------------------------ *)

(* A TDLS peer is told through its own message, any other station through  *)
(* the beacon.                                                             *)
rwnx_set_traffic_status ==
  rwnx_send_tdls_peer_traffic_ind_req \cup rwnx_send_me_traffic_ind

(* The station's queues are stopped or started under the transmit lock;    *)
(* the indication that nothing is left goes out after it.                  *)
rwnx_ps_bh_enable == Touch("tx") ++ Opt(rwnx_set_traffic_status)

(* Called with the transmit lock held: a frame for a sleeping station is   *)
(* announced when it is the first one, and withdrawn when the last one has *)
(* gone.                                                                   *)
rwnx_txq_queue_skb == Opt(rwnx_set_traffic_status)
rwnx_set_more_data_flag == Opt(rwnx_set_traffic_status)
QueueAndPush == Hold("tx", rwnx_txq_queue_skb ++ rwnx_set_more_data_flag)

rwnx_select_txq ==
  Opt(Touch("cb")) \cup
  (Opt(rwnx_send_mesh_proxy_add_req) ++ Opt(rwnx_send_mesh_path_create_req))
rwnx_start_xmit == Opt(QueueAndPush)
rwnx_start_monitor_if_xmit == Opt(QueueAndPush)
rwnx_start_mgmt_xmit == Opt(QueueAndPush)
rwnx_task == Hold("tx", rwnx_set_more_data_flag)
Xmit == (rwnx_select_txq ++ rwnx_start_xmit) \cup rwnx_start_monitor_if_xmit
          \cup rwnx_task

(* ---------------------------- radar and CAC ---------------------------- *)

rwnx_radar_cancel_cac == Opt(Cancel("cac", "APM_STOP_CAC"))
rwnx_radar_cac_work == Opt(rwnx_send_apm_stop_cac_req)
rwnx_radar_detected == rwnx_radar_cancel_cac
rwnx_cfg80211_start_radar_detection ==
  Queue("cac") ++ Then(rwnx_send_apm_start_cac_req, Touch("cb"))

(* ------------------------ opening and closing -------------------------- *)

(* The first interface starts the firmware; a group interface first adds   *)
(* its P2P device; a monitor tunes to its channel.                         *)
StartFirmware ==
  Then(rwnx_send_start,
       Then(rwnx_send_dbg_mem_mask_write_req, Opt(rwnx_send_coex_req)))
AddVif == Then(rwnx_send_add_if, Touch("cb") ++ Opt(rwnx_send_config_monitor_req))
rwnx_open ==
  Opt(StartFirmware) ++
    (Touch("cb") \cup AddVif \cup Then(AddP2pDevice, AddVif))

(* A scan is cancelled, a connection ended and the interface removed; the  *)
(* last one resets the firmware and sets it up again.                      *)
ResetFirmware ==
  rwnx_send_reset ++ Opt(rwnx_send_me_config_req ++ rwnx_send_me_chan_config_req)
rwnx_close ==
  rwnx_radar_cancel_cac ++
    (rwnx_send_scanu_cancel_req \cup
     (Opt(rwnx_send_scanu_cancel_req) ++ Opt(rwnx_send_sm_disconnect_req)
        ++ rwnx_send_remove_if(FALSE) ++ Touch("cb") ++ Opt(ResetFirmware)))

rwnx_interface_add == Opt(Touch("cb"))
rwnx_virtual_interface_add == Opt(Touch("cb"))
rwnx_cfg80211_add_iface == rwnx_interface_add \cup rwnx_virtual_interface_add
(* Unregistering a device that is up closes it.                            *)
rwnx_cfg80211_del_iface == Opt(rwnx_close) ++ Touch("cb")
rwnx_wdev_unregister == Hold("rtnl", Opt(rwnx_cfg80211_del_iface))
rwnx_cfg80211_change_iface ==
  Opt(rwnx_send_scanu_cancel_req \cup
      (Opt(rwnx_send_scanu_cancel_req) ++
         Then(rwnx_send_remove_if(FALSE), Then(rwnx_send_add_if, Touch("cb")))))
rwnx_cfgp2p_stop_p2p_device ==
  Opt(rwnx_send_scanu_cancel_req) ++ Opt(Flush("timer")) ++
    Opt(rwnx_send_remove_if(TRUE) ++ Touch("cb"))
(* The timer runs in softirq context: its command is left to the worker.   *)
aicwf_p2p_alive_timeout == Opt(rwnx_send_remove_if(TRUE) ++ Touch("cb"))

(* ----------------------- scanning and connecting ----------------------- *)

rwnx_cfg80211_scan == Opt(rwnx_send_scanu_req)
rwnx_cfg80211_add_key == Opt(rwnx_send_key_add)
rwnx_cfg80211_del_key == Opt(rwnx_send_key_del)
rwnx_cfg80211_connect == Opt(rwnx_cfg80211_add_key) ++ Opt(rwnx_send_sm_connect_req)
rwnx_cfg80211_disconnect == Opt(rwnx_send_sm_disconnect_req)
rwnx_cfg80211_external_auth == Opt(rwnx_send_sm_external_auth_required_rsp)
rwnx_cfg80211_set_cqm_rssi_config == rwnx_send_cfg_rssi_req

(* ------------------------------ stations ------------------------------- *)

rwnx_update_mesh_power_mode == Opt(rwnx_send_mesh_update_req)
(* A station that comes or goes is handed to the work item that keeps its  *)
(* debugfs directory; RcStat.tla has the ring they share.                  *)
rwnx_dbgfs_register_rc_stat == Queue("rc")
rwnx_dbgfs_unregister_rc_stat == Queue("rc")
rwnx_cfg80211_add_station ==
  Opt(Then(rwnx_send_me_sta_add,
           rwnx_dbgfs_register_rc_stat ++ rwnx_update_mesh_power_mode
             ++ Hold("cb", rwnx_ps_bh_enable)))
(* reord_deinit_sta waits for the timers and work items of the station's   *)
(* reordering lists.                                                       *)
reord_deinit_sta == Flush("reord") ++ Touch("reord")
RemoveStation ==
  Opt(reord_deinit_sta) ++ Touch("tx")
    ++ Then(rwnx_send_me_sta_del, rwnx_dbgfs_unregister_rc_stat)
rwnx_cfg80211_del_station ==
  Touch("cb") ++ Opt(RemoveStation) ++ rwnx_update_mesh_power_mode
apm_staloss_work_process ==
  Opt(Touch("cb") ++ Opt(Then(RemoveStation, rwnx_update_mesh_power_mode)))
rwnx_cfg80211_change_station ==
  Opt(Opt(Then(rwnx_send_me_sta_add, rwnx_dbgfs_register_rc_stat ++ Touch("cb"))) ++
      Opt(rwnx_send_me_set_control_port_req) ++
      Opt(rwnx_send_mesh_peer_update_ntf) ++ rwnx_update_mesh_power_mode)
rwnx_fill_station_info == rwnx_send_get_sta_info_req
rwnx_cfg80211_get_station == Opt(Touch("cb")) ++ Opt(rwnx_fill_station_info)
rwnx_cfg80211_dump_station == Opt(rwnx_fill_station_info)
rwnx_cfg80211_probe_client == Opt(Touch("cb") ++ Queue("probe"))
apm_probe_sta_work_process == Touch("cb")

(* ---------------------------- access point ----------------------------- *)

rwnx_cfg80211_start_ap ==
  Opt(Then(rwnx_send_apm_start_req, Touch("cb")))
rwnx_cfg80211_change_beacon == rwnx_send_bcn ++ rwnx_send_bcn_change
rwnx_cfg80211_stop_ap ==
  Opt(rwnx_cfg80211_del_station) ++ rwnx_radar_cancel_cac
    ++ rwnx_send_apm_stop_req ++ Touch("cb") ++ Touch("tx") ++ Flush("probe")
rwnx_cfg80211_channel_switch ==
  Opt(Then(rwnx_send_bcn, rwnx_send_bcn_change))
(* The work item that ends a channel switch takes the lock under which     *)
(* cfg80211 calls every operation above.                                   *)
rwnx_csa_finish ==
  Then(rwnx_send_bcn,
       Then(rwnx_send_bcn_change, Hold("wiphy", Hold("cb", Touch("tx")))))

(* ----------------------- channels and parameters ----------------------- *)

rwnx_cfg80211_remain_on_channel_ == Opt(Opt(AddP2pDevice) ++ rwnx_send_roc)
rwnx_cfg80211_cancel_remain_on_channel == Opt(rwnx_send_cancel_roc)
rwnx_cfg80211_mgmt_tx ==
  Opt(Touch("cb")) ++ Opt(rwnx_cfg80211_remain_on_channel_) ++ rwnx_start_mgmt_xmit
rwnx_cfg80211_set_monitor_channel == Opt(rwnx_send_config_monitor_req)
rwnx_cfg80211_get_channel == Opt(rwnx_cfg80211_set_monitor_channel)
rwnx_cfg80211_set_tx_power == Loop(rwnx_send_set_power)
rwnx_cfg80211_set_txq_params == rwnx_send_set_edca
(* Called with rtnl held when the regulatory domain changes.               *)
rwnx_reg_notifier ==
  Opt(rwnx_send_me_chan_config_req) ++ Opt(rwnx_send_me_chan_config_req)

(* -------------------------------- mesh --------------------------------- *)

rwnx_cfg80211_change_mpath == Opt(rwnx_send_mesh_path_update_req)
rwnx_cfg80211_update_mesh_config == Opt(rwnx_send_mesh_update_req)
rwnx_cfg80211_join_mesh == Opt(Then(rwnx_send_mesh_start_req, Touch("cb")))
(* The availability check is cancelled with the spin lock held.            *)
rwnx_cfg80211_leave_mesh ==
  Then(rwnx_send_mesh_stop_req, Hold("cb", rwnx_radar_cancel_cac) ++ Touch("tx"))

(* ----------------------- the handlers of indications ------------------- *)

rwnx_rx_chan_pre_switch_ind == Opt(Touch("tx"))
rwnx_rx_chan_switch_ind == Opt(Touch("tx"))
rwnx_rx_remain_on_channel_exp_ind == Opt(Touch("tx"))
rwnx_rx_p2p_vif_ps_change_ind == Opt(Touch("tx"))
rwnx_rx_tdls_peer_ps_ind == Opt(rwnx_ps_bh_enable)
rwnx_radar_detect_ind == Queue("radar")
rwnx_apm_staloss_ind == Queue("staloss")
rwnx_rx_csa_finish_ind == Opt(Queue("csa") \cup Touch("tx"))
rwnx_rx_csa_traffic_ind == Opt(Touch("tx"))
rwnx_rx_ps_change_ind == Opt(rwnx_ps_bh_enable)
rwnx_rx_traffic_req_ind == Opt(Touch("tx"))
rwnx_txq_credit_update == Opt(Touch("tx"))
rwnx_rx_sm_connect_ind == Opt(rwnx_dbgfs_register_rc_stat)
rwnx_rx_sm_disconnect_ind ==
  Opt(rwnx_dbgfs_unregister_rc_stat ++ Opt(reord_deinit_sta) ++ Touch("tx"))
(* Without external authentication on the interface the handler answers    *)
(* itself, from the thread that delivers every confirmation.               *)
rwnx_rx_sm_external_auth_required_ind ==
  Opt(rwnx_send_sm_external_auth_required_rsp)
rwnx_rx_mesh_peer_update_ind ==
  Opt(Opt(Touch("tx")) ++ rwnx_dbgfs_register_rc_stat)

(* A data frame: reassembly, then the reordering list, whose timer's work  *)
(* the thread may wait for; a DHCP answer switches the ARP offload.        *)
arpoffload_proc == Opt(rwnx_send_arpoffload_en_req)
defrag_timeout_cb == Touch("defrag")
reord_process_unit == Hold("reord", arpoffload_proc)
reord_flush_tid == Hold("reord", arpoffload_proc) ++ Flush("reord")
reord_timeout_worker == Hold("reord", arpoffload_proc)
rwnx_rxdataind_aicwf ==
  Opt(Touch("defrag")) ++ Opt(Touch("cb")) ++
    Opt(reord_process_unit \cup reord_flush_tid \cup arpoffload_proc)
=============================================================================
