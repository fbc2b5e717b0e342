------------------------------- MODULE RcStat -------------------------------
(***************************************************************************)
(* The debugfs directories of the stations (rwnx_debugfs.c).  A station    *)
(* that comes or goes is written to the ring rc_sta, from a system call or *)
(* from the receive thread, and rc_stat_work is scheduled; the work item   *)
(* takes one entry and makes or removes the directory of the station, with *)
(* the table of its receive rates.  The ring does not say which of the two *)
(* is meant: the directory is there or it is not.                          *)
(*                                                                         *)
(* The writers are taken one at a time: two of them at once would race for *)
(* rc_write, which no lock protects.  The files of a directory, and the    *)
(* rates saved by address, are left out.                                   *)
(***************************************************************************)
EXTENDS Naturals, FiniteSets

CONSTANTS
  Sta,      \* station indexes
  Slots,    \* the size of rc_sta, NX_REMOTE_STA_MAX
  MaxOps    \* bound: stations that come or go

Free == "0xFF"
RcStatAssumption == Slots \in Nat \ {0} /\ MaxOps \in Nat /\ Free \notin Sta

VARIABLES
  present,  \* the stations between register_rc_stat and unregister_rc_stat
  ring,     \* rc_sta
  wr, rd,   \* rc_write, rc_read
  queued,   \* rc_stat_work is pending
  running,  \* the entry a running work item took, or Free
  dir,      \* the stations with dir_sta set
  table,    \* the stations with a table of rates
  phase,    \* "up", "flush" (unregistering is set, flush_work waits), "down"
  broken,   \* ghost: a directory could not be made, or an entry was lost
  ops       \* bound
vars == <<present, ring, wr, rd, queued, running, dir, table, phase, broken, ops>>

TypeOK ==
  /\ present \subseteq Sta /\ dir \subseteq Sta /\ table \subseteq Sta
  /\ ring \in [0..Slots - 1 -> Sta \cup {Free}] /\ wr \in 0..Slots - 1 /\ rd \in 0..Slots - 1
  /\ queued \in BOOLEAN /\ running \in Sta \cup {Free} /\ broken \in BOOLEAN
  /\ phase \in {"up", "flush", "down"} /\ ops \in 0..MaxOps

(* rwnx_dbgfs_register: the ring is empty.                                 *)
Init ==
  /\ present = {} /\ ring = [k \in 0..Slots - 1 |-> Free] /\ wr = 0 /\ rd = 0
  /\ queued = FALSE /\ running = Free /\ dir = {} /\ table = {}
  /\ phase = "up" /\ broken = FALSE /\ ops = 0

(* _rwnx_dbgfs_rc_stat_write.  An entry in the way is reported and         *)
(* overwritten.  Scheduling a work item that is pending changes nothing.   *)
_rwnx_dbgfs_rc_stat_write(s) ==
  IF phase # "up" THEN UNCHANGED <<ring, wr, queued, broken>>
  ELSE /\ ring' = [ring EXCEPT ![wr] = s] /\ wr' = (wr + 1) % Slots
       /\ queued' = TRUE
       /\ broken' = (broken \/ ring[wr] # Free)

(* rwnx_dbgfs_register_rc_stat and rwnx_dbgfs_unregister_rc_stat.          *)
Come(s) ==
  /\ s \notin present /\ ops < MaxOps /\ ops' = ops + 1
  /\ present' = present \cup {s} /\ _rwnx_dbgfs_rc_stat_write(s)
  /\ UNCHANGED <<rd, running, dir, table, phase>>
Go(s) ==
  /\ s \in present /\ ops < MaxOps /\ ops' = ops + 1
  /\ present' = present \ {s} /\ _rwnx_dbgfs_rc_stat_write(s)
  /\ UNCHANGED <<rd, running, dir, table, phase>>

(* Mutant: the work item empties the ring at once, as the scheduling of    *)
(* one item for several entries would suggest.                             *)
WorkTakeAll ==
  /\ queued /\ running = Free /\ queued' = FALSE
  /\ IF ring[rd] = Free THEN UNCHANGED <<running, ring, rd>>
     ELSE /\ running' = ring[rd] /\ ring' = [k \in DOMAIN ring |-> Free]
          /\ rd' = wr
  /\ UNCHANGED <<present, wr, dir, table, phase, broken, ops>>

(* rwnx_rc_stat_work takes one entry; an empty one (its index is too       *)
(* large) is reported and left.                                            *)
WorkTake ==
  /\ queued /\ running = Free /\ queued' = FALSE
  /\ IF ring[rd] = Free THEN UNCHANGED <<running, ring, rd>>
     ELSE /\ running' = ring[rd] /\ ring' = [ring EXCEPT ![rd] = Free]
          /\ rd' = (rd + 1) % Slots
  /\ UNCHANGED <<present, wr, dir, table, phase, broken, ops>>

(* ... and makes the directory, or removes it.                             *)
WorkMake ==
  /\ running # Free /\ running \notin dir
  /\ running' = Free /\ dir' = dir \cup {running} /\ table' = table \cup {running}
  /\ UNCHANGED <<present, ring, wr, rd, queued, phase, broken, ops>>
WorkRemove ==
  /\ running # Free /\ running \in dir
  /\ running' = Free /\ dir' = dir \ {running} /\ table' = table \ {running}
  /\ UNCHANGED <<present, ring, wr, rd, queued, phase, broken, ops>>

(* error_after_dir and error: a file, or the table, cannot be made.        *)
WorkFails ==
  /\ running # Free /\ running \notin dir
  /\ running' = Free /\ broken' = TRUE
  /\ UNCHANGED <<present, ring, wr, rd, queued, dir, table, phase, ops>>

(* rwnx_dbgfs_unregister: flush_work waits for the item that is pending or *)
(* running; the directories go with the tree, the tables stay.             *)
Unregister ==
  /\ phase = "up" /\ phase' = "flush"
  /\ UNCHANGED <<present, ring, wr, rd, queued, running, dir, table, broken, ops>>
Flushed ==
  /\ phase = "flush" /\ ~queued /\ running = Free /\ phase' = "down"
  /\ UNCHANGED <<present, ring, wr, rd, queued, running, dir, table, broken, ops>>

Work == WorkTake \/ WorkMake \/ WorkRemove \/ WorkFails
Next == (\E s \in Sta : Come(s) \/ Go(s)) \/ Work \/ Unregister \/ Flushed
Spec == Init /\ [][Next]_vars

-----------------------------------------------------------------------------
(* The entries of a station that have not been handled.                    *)
Waiting(s) == Cardinality({k \in 0..Slots - 1 : ring[k] = s})
              + (IF running = s THEN 1 ELSE 0)

(* The directories follow the stations: while no entry was overwritten and *)
(* no directory failed, a station has its directory unless an odd number   *)
(* of its entries waits; and a directory always has its table.             *)
RcDirs ==
  /\ dir = table
  /\ phase = "up" /\ ~broken =>
       \A s \in Sta : (s \in dir) = (s \in present) <=> Waiting(s) % 2 = 0
=============================================================================
