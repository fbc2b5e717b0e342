----------------------------- MODULE MCTxQueue -----------------------------
(* The transmit queues of a station for TLC in two setups: two queues in   *)
(* legacy power save that stop for each other's reasons while the station  *)
(* comes and goes; and one U-APSD queue with retries, where the net device *)
(* and the bus hold frames back.                                           *)
EXTENDS TxQueue

VARIABLE setup      \* "legacy" or "uapsd"

Flow == INSTANCE TxQueue WITH
          NTxq <- 1, Uapsd <- TRUE, FlowStop <- 1, FlowRestart <- 1, NeedCfm <- {1, 2},
          Reasons <- {"CHAN"}, MaxRetry <- 2, Leaves <- FALSE, Busies <- TRUE

(* The variables are functions on the queues of the setup.                 *)
MCInit ==
    \/ setup = "legacy" /\ Init
    \/ setup = "uapsd" /\ Flow!Init

MCNext ==
    /\ \/ setup = "legacy" /\ Next
       \/ setup = "uapsd" /\ Flow!Next
    /\ UNCHANGED setup

MCSpec == MCInit /\ [][MCNext]_<<setup, vars>>

(* rwnx_hwq_process meets no queue that it calls a bug, and no queue that  *)
(* may send is off its list.                                               *)
ServedByList ==
    /\ setup = "legacy" => NoBug /\ ReadyListed
    /\ setup = "uapsd" => Flow!NoBug /\ Flow!ReadyListed

(* The counters of power save are what the queues hold.                    *)
CountersMatch ==
    /\ setup = "legacy" => TypeOK /\ PktReady /\ SpCount
    /\ setup = "uapsd" => Flow!TypeOK /\ Flow!PktReady /\ Flow!SpCount

(* A sleeping station's frames are held but for a service period, retried  *)
(* frames go first, and whoever stops the net device will wake it.         *)
HeldInOrder ==
    /\ setup = "legacy" => PsHold
    /\ setup = "uapsd" => Flow!PsHold /\ Flow!NetdevWakes /\ Flow!RetryOrder
=============================================================================
