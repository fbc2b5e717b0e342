------------------------------ MODULE DebugFs ------------------------------
(***************************************************************************)
(* The files under the driver's debugfs directory, which a kernel with     *)
(* CONFIG_DEBUG_FS builds in: each read and write handler as the set of    *)
(* its paths.  They run on the thread of whoever opened the file, without  *)
(* the wiphy mutex or rtnl, so next to every other call.  The work item of *)
(* the rate control directories is here as well.  "radar" is the spin lock *)
(* of the pulse buffers.                                                   *)
(***************************************************************************)
EXTENDS CfgOps

(* ------------------------- statistics and queues ----------------------- *)

rwnx_dbgfs_stats_write == Touch("tx")
rwnx_dbgfs_sys_stats_read == rwnx_send_dbg_get_sys_stat_req

(* Any number of severities, each sent at once, then one set of modules.   *)
rwnx_dbgfs_fw_dbg_write ==
  Loop(rwnx_send_dbg_set_sev_filter_req) ++ Opt(rwnx_send_dbg_set_mod_filter_req)

(* ----------------------------- P2P, channels --------------------------- *)

(* Sent for the first group owner of the list of interfaces, if any.       *)
rwnx_dbgfs_oppps_write == Opt(rwnx_send_p2p_oppps_req)
rwnx_dbgfs_noa_write == Opt(rwnx_send_p2p_noa_req)
rwnx_dbgfs_set_roc_write == Opt(rwnx_send_roc \cup rwnx_send_cancel_roc)

(* -------------------------------- radar -------------------------------- *)

rwnx_radar_detection_enable == Opt(Touch("radar"))
rwnx_dbgfs_pulses_read == Opt(Touch("radar"))
rwnx_dbgfs_enable_write == Opt(rwnx_radar_detection_enable) ++ rwnx_radar_detection_enable
rwnx_dbgfs_set_write == rwnx_send_set_channel ++ rwnx_radar_detection_enable

(* --------------------------- memory and settings ----------------------- *)

(* A read; or a read, a write and a read to see what came of it.           *)
rwnx_dbgfs_regdbg_write ==
  Opt(rwnx_send_dbg_mem_read_req) ++
    Opt(rwnx_send_dbg_mem_block_write_req ++ rwnx_send_dbg_mem_read_req)
rwnx_dbgfs_vendor_hwconfig_write == Opt(rwnx_send_vendor_hwconfig_req)
rwnx_dbgfs_vendor_swconfig_write == Opt(rwnx_send_vendor_swconfig_req)
rwnx_dbgfs_vendor_hwconfig_x2_write == Opt(rwnx_send_vendor_hwconfig_req_x2)
rwnx_dbgfs_vendor_swconfig_x2_write == Opt(rwnx_send_vendor_swconfig_req_x2)
rwnx_dbgfs_agg_disable_write == Opt(rwnx_send_disable_agg_req)

(* ----------------------------- rate control ---------------------------- *)

(* The station is looked up by the name of the directory.                  *)
rwnx_dbgfs_rc_stats_read == Opt(rwnx_send_me_rc_stats)
rwnx_dbgfs_rc_fixed_rate_idx_write == Opt(rwnx_send_me_rc_set_rate)
rwnx_dbgfs_last_rx_write == Opt(Touch("tx"))
(* A directory that is made restores the rate the station had before.      *)
rwnx_rc_stat_work == Opt(rwnx_send_me_rc_set_rate)

DebugFiles ==
  rwnx_dbgfs_stats_write \cup rwnx_dbgfs_sys_stats_read \cup
  rwnx_dbgfs_oppps_write \cup rwnx_dbgfs_noa_write \cup rwnx_dbgfs_set_roc_write \cup
  rwnx_dbgfs_pulses_read \cup rwnx_dbgfs_enable_write \cup rwnx_dbgfs_set_write \cup
  rwnx_dbgfs_regdbg_write \cup rwnx_dbgfs_vendor_hwconfig_write \cup
  rwnx_dbgfs_vendor_swconfig_write \cup rwnx_dbgfs_vendor_hwconfig_x2_write \cup
  rwnx_dbgfs_vendor_swconfig_x2_write \cup rwnx_dbgfs_agg_disable_write \cup
  rwnx_dbgfs_rc_stats_read \cup rwnx_dbgfs_rc_fixed_rate_idx_write \cup
  rwnx_dbgfs_last_rx_write
=============================================================================
