------------------------------ MODULE MCCalls ------------------------------
(***************************************************************************)
(* Which thread makes which calls, with the locks the kernel holds around  *)
(* them: netlink commands run under the mutex of the wiphy, those that add *)
(* or remove devices under rtnl as well; device operations, private        *)
(* commands and the regulatory notifier run under rtnl.  Two netlink       *)
(* sockets are not modelled: both would hold the same mutex.               *)
(***************************************************************************)
EXTENDS Calls

UnderWiphy ==
  rwnx_cfg80211_scan \cup rwnx_cfg80211_add_key \cup rwnx_cfg80211_del_key \cup
  rwnx_cfg80211_connect \cup rwnx_cfg80211_disconnect \cup
  rwnx_cfg80211_external_auth \cup rwnx_cfg80211_set_cqm_rssi_config \cup
  rwnx_cfg80211_add_station \cup rwnx_cfg80211_del_station \cup
  rwnx_cfg80211_change_station \cup rwnx_cfg80211_get_station \cup
  rwnx_cfg80211_dump_station \cup
  rwnx_cfg80211_probe_client \cup rwnx_cfg80211_start_ap \cup
  rwnx_cfg80211_change_beacon \cup rwnx_cfg80211_stop_ap \cup
  rwnx_cfg80211_channel_switch \cup rwnx_cfg80211_remain_on_channel_ \cup
  rwnx_cfg80211_cancel_remain_on_channel \cup rwnx_cfg80211_mgmt_tx \cup
  rwnx_cfg80211_set_monitor_channel \cup rwnx_cfg80211_get_channel \cup
  rwnx_cfg80211_set_tx_power \cup rwnx_cfg80211_set_txq_params \cup
  rwnx_cfg80211_change_mpath \cup rwnx_cfg80211_update_mesh_config \cup
  rwnx_cfg80211_join_mesh \cup rwnx_cfg80211_leave_mesh \cup
  rwnx_cfg80211_start_radar_detection
UnderBoth ==
  rwnx_cfg80211_add_iface \cup rwnx_cfg80211_del_iface \cup
  rwnx_cfg80211_change_iface \cup rwnx_cfgp2p_stop_p2p_device

Indications ==
  rwnx_rx_chan_pre_switch_ind \cup rwnx_rx_chan_switch_ind \cup
  rwnx_rx_remain_on_channel_exp_ind \cup rwnx_rx_p2p_vif_ps_change_ind \cup
  rwnx_rx_tdls_peer_ps_ind \cup rwnx_radar_detect_ind \cup rwnx_apm_staloss_ind \cup
  rwnx_rx_csa_finish_ind \cup rwnx_rx_csa_traffic_ind \cup rwnx_rx_ps_change_ind \cup
  rwnx_rx_traffic_req_ind \cup rwnx_txq_credit_update \cup
  rwnx_rx_sm_connect_ind \cup rwnx_rx_sm_disconnect_ind \cup rwnx_rx_sm_external_auth_required_ind \cup
  rwnx_rx_mesh_peer_update_ind

(* The names of commands that no rule of Calls tells apart become one.     *)
Told == {"ME_TRAFFIC_IND", "MM_SET_ARPOFFLOAD", "SM_EXTERNAL_AUTH_REQUIRED_RSP",
         "APM_STOP_CAC", "TDLS_PEER_TRAFFIC_IND", "MESH_PROXY_ADD", "MESH_PATH_CREATE"}
Short(s) ==
  IF s.op \in {"ask", "tell", "defer", "post"} /\ s.arg \notin Told
  THEN [s EXCEPT !.arg = "CMD"] ELSE s
(* A critical section of a lock that no path keeps across another step     *)
(* never meets anyone.                                                     *)
Meets(s) == s.op # "touch" \/ s.arg \notin {"defrag", "radar"}
(* Of equal steps in a row the first two are kept.                         *)
Repeats(q, i) == i > 2 /\ q[i] = q[i - 1] /\ q[i] = q[i - 2]
Squeeze(q) ==
  LET kept == SelectSeq([i \in DOMAIN q |-> i], LAMBDA i : ~Repeats(q, i))
  IN <<>> \o [i \in DOMAIN kept |-> q[kept[i]]]
Shorten(P) ==
  {LET q == SelectSeq(p, Meets) IN Squeeze([i \in DOMAIN q |-> Short(q[i])]) : p \in P}

Contexts ==
  [nl |-> Hold("wiphy", UnderWiphy) \cup Hold("rtnl", Hold("wiphy", UnderBoth)),
   net |-> Hold("rtnl", rwnx_open \cup rwnx_close \cup rwnx_reg_notifier
                          \cup rwnx_do_ioctl \cup WirelessExtensions),
   rx |-> Indications,
   data |-> rwnx_rxdataind_aicwf,
   reord |-> reord_timeout_worker,
   timer |-> aicwf_p2p_alive_timeout \cup defrag_timeout_cb,
   xmit |-> Xmit,
   staloss |-> apm_staloss_work_process,
   csa |-> rwnx_csa_finish,
   probe |-> apm_probe_sta_work_process,
   cac |-> rwnx_radar_cac_work,
   radar |-> rwnx_radar_detected,
   rc |-> rwnx_rc_stat_work,
   dbg |-> DebugFiles]
(* The paths as they are in the code are well written too, so that what    *)
(* CallsProofs shows is true of them.                                      *)
ASSUME ContextsWritten == WellWritten(Contexts)

MCPrograms == [t \in DOMAIN Contexts |-> Shorten(Contexts[t])]
=============================================================================
