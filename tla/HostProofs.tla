----------------------------- MODULE HostProofs -----------------------------
(***************************************************************************)
(* Proofs about what the driver keeps for cfg80211: the channel contexts   *)
(* and the radar detection (Radar), the stations of an access point        *)
(* (ApSta), the debugfs directories of the stations (RcStat), the virtual  *)
(* interfaces (Iface) and the connection of a station (Conn).              *)
(***************************************************************************)
EXTENDS MCHost, FiniteSetTheorems, WellFoundedInduction, TLAPS

-----------------------------------------------------------------------------
(******************************* Radar ************************************)

(* Radar counts with the Cardinality of FiniteSets.                        *)
LEMMA DfsCardinality == ASSUME NEW S PROVE Dfs!Cardinality(S) = Cardinality(S)
  BY Zenon DEF Dfs!Cardinality, Cardinality

(* Two interfaces: the count covers one link or two.                       *)
LEMMA Links ==
    ASSUME NEW f, NEW v \in {"ap", "sta"}
    PROVE  Dfs!Cardinality({w \in {"ap", "sta"} : f[w] = f[v]})
             = IF f["ap"] = f["sta"] THEN 2 ELSE 1
<1>1. Cardinality({v}) = 1 /\ IsFiniteSet({v})
  BY FS_Singleton
<1>2. CASE f["ap"] = f["sta"]
  <2>1. {w \in {"ap", "sta"} : f[w] = f[v]} = {"ap"} \cup {"sta"}
    BY <1>2
  <2>2. Cardinality({"ap"} \cup {"sta"}) = 2
    <3>1. Cardinality({"ap"}) = 1 /\ IsFiniteSet({"ap"}) /\ "sta" \notin {"ap"}
      BY FS_Singleton
    <3> QED
      BY <3>1, FS_AddElement
  <2> QED
    BY <1>2, <2>1, <2>2, DfsCardinality
<1>3. CASE f["ap"] # f["sta"]
  <2>1. {w \in {"ap", "sta"} : f[w] = f[v]} = {v}
    BY <1>3
  <2> QED
    BY <1>1, <1>3, <2>1, DfsCardinality
<1> QED
  BY <1>2, <1>3

(* LinkedValid without counting.                                           *)
Covered ==
    \A v \in Dfs!Devs : chIndex[v] # Dfs!NotSet =>
        /\ chan[chIndex[v]] # "none"
        /\ r_count[chIndex[v]] >= 1
        /\ chIndex["ap"] = chIndex["sta"] => r_count[chIndex[v]] >= 2

(* The two say the same of a state of the right types, before and after.   *)
LEMMA LinkedCovered ==
    /\ Dfs!TypeOK => (Dfs!LinkedValid <=> Covered)
    /\ Dfs!TypeOK' => (Dfs!LinkedValid' <=> Covered')
<1> USE DEF Dfs!Devs, Dfs!LinkedValid, Covered, Dfs!TypeOK
<1>1. \A v \in {"ap", "sta"} :
        Dfs!Cardinality({w \in {"ap", "sta"} : chIndex[w] = chIndex[v]})
          = IF chIndex["ap"] = chIndex["sta"] THEN 2 ELSE 1
  BY Links
<1>2. \A v \in {"ap", "sta"} :
        Dfs!Cardinality({w \in {"ap", "sta"} : chIndex'[w] = chIndex'[v]})
          = IF chIndex'["ap"] = chIndex'["sta"] THEN 2 ELSE 1
  BY Links
<1>3. Dfs!TypeOK => (Dfs!LinkedValid <=> Covered)
  BY <1>1
<1>4. Dfs!TypeOK' => (Dfs!LinkedValid' <=> Covered')
  BY <1>2
<1> QED
  BY <1>3, <1>4

(* rwnx_chanctx_unlink: the other interface keeps its context, and the     *)
(* detection stays on where the other one needs it.                        *)
LEMMA Unlink ==
    ASSUME Dfs!RadarAssumption, Dfs!TypeOK, Covered, NEW v \in Dfs!Devs,
           chIndex' = Dfs!Unlinked(v).chIndex, r_count' = Dfs!Unlinked(v).count,
           chan' = Dfs!Unlinked(v).chan
    PROVE  /\ chIndex' = [chIndex EXCEPT ![v] = Dfs!NotSet]
           /\ r_count' \in [Ctx -> Nat] /\ chan' \in [Ctx -> {"none", "plain", "dfs"}]
           /\ Covered'
           /\ \A c \in Ctx : chan'[c] \in {chan[c], "none"}
           /\ \A w \in Dfs!Devs : chIndex'[w] # Dfs!NotSet =>
                /\ chan'[chIndex'[w]] = chan[chIndex[w]]
                /\ enabled /\ cur = chIndex'[w] => Dfs!Unlinked(v).on
<1>0. /\ Dfs!NotSet \notin Ctx /\ chIndex \in [{"ap", "sta"} -> Ctx \cup {Dfs!NotSet}]
      /\ r_count \in [Ctx -> Nat] /\ chan \in [Ctx -> {"none", "plain", "dfs"}]
  BY DEF Dfs!RadarAssumption, Dfs!TypeOK, Dfs!Devs
<1> USE <1>0 DEF Covered, Dfs!Devs
<1> DEFINE c == chIndex[v]
<1>1. CASE c = Dfs!NotSet
  <2>1. /\ UNCHANGED <<chIndex, r_count, chan>> /\ (enabled => Dfs!Unlinked(v).on)
    BY <1>1 DEF Dfs!Unlinked
  <2> QED
    BY <1>1, <2>1
<1>2. CASE c # Dfs!NotSet
  <2>1. c \in Ctx /\ r_count[c] \in Nat \ {0}
    <3>1. c \in Ctx
      BY <1>2
    <3>2. r_count[c] \in Nat
      BY <3>1
    <3>3. r_count[c] >= 1
      BY <1>2
    <3> QED
      BY <3>1, <3>2, <3>3
  <2>2. CASE r_count[c] = 1
    <3>1. /\ chIndex' = [chIndex EXCEPT ![v] = Dfs!NotSet]
          /\ r_count' = [r_count EXCEPT ![c] = 0] /\ chan' = [chan EXCEPT ![c] = "none"]
          /\ Dfs!Unlinked(v).on = (enabled /\ ~(c = cur))
      BY <1>2, <2>1, <2>2 DEF Dfs!Unlinked
    <3>2. \A w \in {"ap", "sta"} : chIndex'[w] # Dfs!NotSet => w # v /\ chIndex[w] # c
      BY <2>1, <2>2, <3>1
    <3>3. \A w \in {"ap", "sta"} : chIndex'[w] # Dfs!NotSet =>
             /\ chIndex[w] \in Ctx /\ chIndex'[w] = chIndex[w]
             /\ chan'[chIndex[w]] = chan[chIndex[w]]
             /\ r_count'[chIndex[w]] = r_count[chIndex[w]]
      BY <2>1, <3>1, <3>2
    <3>4. r_count' \in [Ctx -> Nat] /\ chan' \in [Ctx -> {"none", "plain", "dfs"}]
      BY <2>1, <3>1
    <3>5. Covered'
      BY <3>1, <3>2, <3>3
    <3>6. \A w \in {"ap", "sta"} :
             chIndex'[w] # Dfs!NotSet /\ enabled /\ cur = chIndex'[w] => Dfs!Unlinked(v).on
      BY <3>1, <3>2, <3>3
    <3> QED
      BY <2>1, <3>1, <3>3, <3>4, <3>5, <3>6
  <2>3. CASE r_count[c] > 1
    <3>1. /\ chIndex' = [chIndex EXCEPT ![v] = Dfs!NotSet]
          /\ r_count' = [r_count EXCEPT ![c] = r_count[c] - 1] /\ chan' = chan
          /\ (enabled => Dfs!Unlinked(v).on)
      <4>1. r_count[c] # 0 /\ r_count[c] - 1 # 0
        BY <2>1, <2>3
      <4> QED
        BY <1>2, <2>1, <4>1 DEF Dfs!Unlinked
    <3> QED
      BY <2>1, <2>3, <3>1
  <2> QED
    BY <2>1, <2>2, <2>3
<1> QED
  BY <1>1, <1>2

(* The places of a cfg80211 operation.                                     *)
LEMMA Places ==
    /\ \A p \in Dfs!After \cup {"oops"} : 
         Dfs!At(p) \in Dfs!CfgAt /\ Dfs!At(p).pc = p /\ Dfs!At(p).after = "idle"
    /\ \A p \in Dfs!After : LET r == [Dfs!At("cancel") EXCEPT !.after = p]
                           IN r \in Dfs!CfgAt /\ r.pc = "cancel" /\ r.after = p
    /\ \A c \in Ctx, p \in {"cac", "ap"}, ch \in {"plain", "dfs"} :
         LET r == [pc |-> p, c |-> c, ch |-> ch, after |-> "idle"]
         IN r \in Dfs!CfgAt /\ r.pc = p /\ r.c = c /\ r.ch = ch /\ r.after = "idle"
    /\ \A r \in Dfs!CfgAt : /\ r.pc \in {"cac", "ap"} => r.c \in Ctx
                            /\ r.pc \in {"cac", "ap"} => r.ch \in {"plain", "dfs"}
                            /\ r.pc = "cancel" => r.after \in Dfs!After
    /\ Dfs!Idle \in Dfs!CfgAt /\ Dfs!Idle.pc = "idle" /\ Dfs!Idle.after = "idle"
  BY DEF Dfs!At, Dfs!CfgAt, Dfs!After, Dfs!Idle

(* The typed part, the coverage of the links and the state of the check.   *)
RadarParts ==
    Dfs!TypeOK /\ Covered /\ Dfs!CacListens /\ Dfs!CheckOrBeacon /\ Dfs!CheckedChannel

(* Every step of the operations, the two works and the receive thread      *)
(* keeps them.                                                             *)
THEOREM RadarStep ==
    ASSUME Dfs!RadarAssumption, RadarParts, [Dfs!Next]_Dfs!vars
    PROVE  RadarParts'
<1>0. /\ Dfs!NotSet \notin Ctx /\ RadarOps \in Nat /\ PulseMax \in Nat
      /\ cfg.pc \in {"cac", "ap"} => cfg.c \in Ctx
  BY Places DEF Dfs!RadarAssumption, RadarParts, Dfs!TypeOK
<1> USE <1>0 DEF RadarParts, Dfs!TypeOK, Covered, Dfs!CacListens, Dfs!Oops,
        Dfs!CheckOrBeacon, Dfs!CheckedChannel, Dfs!Devs,
        Dfs!ctxVars, Dfs!detVars, Dfs!cfgVars
<1> DEFINE Unlinks(v) ==
      /\ chIndex' = [chIndex EXCEPT ![v] = Dfs!NotSet] /\ Covered'
      /\ r_count' \in [Ctx -> Nat] /\ chan' \in [Ctx -> {"none", "plain", "dfs"}]
      /\ \A c \in Ctx : chan'[c] \in {chan[c], "none"}
      /\ \A w \in Dfs!Devs : chIndex'[w] # Dfs!NotSet =>
           /\ chan'[chIndex'[w]] = chan[chIndex[w]]
           /\ enabled /\ cur = chIndex'[w] => Dfs!Unlinked(v).on
<1>1. CASE Dfs!StartCac
  <2>7. PICK c \in Ctx : /\ chan[c] \in {"none", "dfs"}
                        /\ cfg' = [pc |-> "cac", c |-> c, ch |-> "dfs", after |-> "idle"]
    BY <1>1 DEF Dfs!StartCac
  <2>6. cfg'.after = "idle" /\ cfg'.pc = "cac" /\ cfg'.c \in Ctx /\ chan[cfg'.c] \in {"none", "dfs"} /\ cfg' \in Dfs!CfgAt
    BY <2>7, Places
  <2>1. Dfs!TypeOK'
    BY <1>1, <2>6 DEF Dfs!StartCac
  <2>2. Covered'
    BY <1>1, <2>6 DEF Dfs!StartCac
  <2>3. Dfs!CacListens'
    BY <1>1, <2>6 DEF Dfs!StartCac
  <2>4. Dfs!CheckOrBeacon'
    BY <1>1, <2>6 DEF Dfs!StartCac
  <2>5. Dfs!CheckedChannel'
    BY <1>1, <2>6 DEF Dfs!StartCac
  <2> QED
    BY <2>1, <2>2, <2>3, <2>4, <2>5
<1>2. CASE Dfs!CacLinked
  <2>6. cfg'.after = "idle" /\ cfg'.pc = "idle" /\ cfg' \in Dfs!CfgAt /\ cfg.c \in Ctx
    BY <1>2, Places DEF Dfs!CacLinked, Dfs!rwnx_chanctx_link, Dfs!After
  <2>1. Dfs!TypeOK'
    BY <1>2, <2>6 DEF Dfs!CacLinked, Dfs!rwnx_chanctx_link
  <2>2. Covered'
    BY <1>2, <2>6 DEF Dfs!CacLinked, Dfs!rwnx_chanctx_link
  <2>3. Dfs!CacListens'
    BY <1>2, <2>6 DEF Dfs!CacLinked, Dfs!rwnx_chanctx_link
  <2>4. Dfs!CheckOrBeacon'
    BY <1>2, <2>6 DEF Dfs!CacLinked, Dfs!rwnx_chanctx_link
  <2>5. Dfs!CheckedChannel'
    BY <1>2, <2>6 DEF Dfs!CacLinked, Dfs!rwnx_chanctx_link
  <2> QED
    BY <2>1, <2>2, <2>3, <2>4, <2>5
<1>3. CASE Dfs!CacWork
  <2>1. Dfs!TypeOK'
    BY <1>3 DEF Dfs!CacWork
  <2>2. Covered'
    BY <1>3 DEF Dfs!CacWork
  <2>3. Dfs!CacListens'
    BY <1>3 DEF Dfs!CacWork
  <2>4. Dfs!CheckOrBeacon'
    BY <1>3 DEF Dfs!CacWork
  <2>5. Dfs!CheckedChannel'
    BY <1>3 DEF Dfs!CacWork
  <2> QED
    BY <2>1, <2>2, <2>3, <2>4, <2>5
<1>4. CASE Dfs!CacWorkEnds
  <2>8. cacVif => Unlinks("ap")
    BY <1>4, Unlink, Dfs!RadarAssumption DEF Dfs!CacWorkEnds, Dfs!Released, Dfs!rwnx_chanctx_unlink
  <2>1. Dfs!TypeOK'
    BY <1>4, <2>8 DEF Dfs!CacWorkEnds, Dfs!Released, Dfs!rwnx_chanctx_unlink
  <2>2. Covered'
    BY <1>4, <2>8 DEF Dfs!CacWorkEnds, Dfs!Released, Dfs!rwnx_chanctx_unlink
  <2>3. Dfs!CacListens'
    BY <1>4, <2>8 DEF Dfs!CacWorkEnds, Dfs!Released, Dfs!rwnx_chanctx_unlink
  <2>4. Dfs!CheckOrBeacon'
    BY <1>4, <2>8 DEF Dfs!CacWorkEnds, Dfs!Released, Dfs!rwnx_chanctx_unlink
  <2>5. Dfs!CheckedChannel'
    BY <1>4, <2>8 DEF Dfs!CacWorkEnds, Dfs!Released, Dfs!rwnx_chanctx_unlink
  <2> QED
    BY <2>1, <2>2, <2>3, <2>4, <2>5
<1>5. CASE Dfs!StopAp
  <2> DEFINE p == "apstop"
  <2>7. /\ cfg' \in {[Dfs!At("cancel") EXCEPT !.after = p], Dfs!At(p)} /\ cfg = Dfs!Idle
        /\ p \in Dfs!After \ {"idle"}
    BY <1>5 DEF Dfs!StopAp, Dfs!CfgCancelCac, Dfs!CancelCac, Dfs!After
  <2>6. cfg'.after \in {"idle", "apstop"} /\ cfg'.pc \in {"cancel", "apstop"} /\ cfg' \in Dfs!CfgAt /\ cfg.pc = "idle"
    <3>1. CASE cfg' = Dfs!At(p)
      BY <2>7, <3>1, Places DEF Dfs!After
    <3>2. CASE cfg' = [Dfs!At("cancel") EXCEPT !.after = p]
      BY <2>7, <3>2, Places DEF Dfs!After
    <3> QED
      BY <2>7, <3>1, <3>2
  <2> HIDE DEF p
  <2>1. Dfs!TypeOK'
    BY <1>5, <2>6 DEF Dfs!StopAp, Dfs!CfgCancelCac, Dfs!CancelCac
  <2>2. Covered'
    BY <1>5, <2>6 DEF Dfs!StopAp, Dfs!CfgCancelCac, Dfs!CancelCac
  <2>3. Dfs!CacListens'
    BY <1>5, <2>6 DEF Dfs!StopAp, Dfs!CfgCancelCac, Dfs!CancelCac
  <2>4. Dfs!CheckOrBeacon'
    BY <1>5, <2>6 DEF Dfs!StopAp, Dfs!CfgCancelCac, Dfs!CancelCac
  <2>5. Dfs!CheckedChannel'
    BY <1>5, <2>6 DEF Dfs!StopAp, Dfs!CfgCancelCac, Dfs!CancelCac
  <2> QED
    BY <2>1, <2>2, <2>3, <2>4, <2>5
<1>6. ASSUME NEW v \in Dfs!Devs, Dfs!CloseVif(v) PROVE RadarParts'
  <2> DEFINE p == IF v = "ap" THEN "closeap" ELSE "closesta"
  <2>7. /\ cfg' \in {[Dfs!At("cancel") EXCEPT !.after = p], Dfs!At(p)} /\ cfg = Dfs!Idle
        /\ p \in Dfs!After \ {"idle"}
    BY <1>6 DEF Dfs!CloseVif, Dfs!CfgCancelCac, Dfs!CancelCac, Dfs!After
  <2>6. cfg'.after \in {"idle", "closeap", "closesta"} /\ cfg'.pc \in {"cancel", "closeap", "closesta"} /\ cfg' \in Dfs!CfgAt /\ cfg.pc = "idle"
    <3>1. CASE cfg' = Dfs!At(p)
      BY <2>7, <3>1, Places DEF Dfs!After
    <3>2. CASE cfg' = [Dfs!At("cancel") EXCEPT !.after = p]
      BY <2>7, <3>2, Places DEF Dfs!After
    <3> QED
      BY <2>7, <3>1, <3>2
  <2> HIDE DEF p
  <2>1. Dfs!TypeOK'
    BY <1>6, <2>6 DEF Dfs!CloseVif, Dfs!CfgCancelCac, Dfs!CancelCac
  <2>2. Covered'
    BY <1>6, <2>6 DEF Dfs!CloseVif, Dfs!CfgCancelCac, Dfs!CancelCac
  <2>3. Dfs!CacListens'
    BY <1>6, <2>6 DEF Dfs!CloseVif, Dfs!CfgCancelCac, Dfs!CancelCac
  <2>4. Dfs!CheckOrBeacon'
    BY <1>6, <2>6 DEF Dfs!CloseVif, Dfs!CfgCancelCac, Dfs!CancelCac
  <2>5. Dfs!CheckedChannel'
    BY <1>6, <2>6 DEF Dfs!CloseVif, Dfs!CfgCancelCac, Dfs!CancelCac
  <2> QED
    BY <2>1, <2>2, <2>3, <2>4, <2>5
<1>7. CASE Dfs!CfgCancelled
  <2>6. cfg'.after = "idle" /\ cfg'.pc \in {cfg.after, "oops"} /\ cfg'.pc \in {"oops", "idle", "apstop", "closeap", "closesta"} /\ cfg' \in Dfs!CfgAt
    BY <1>7, Places DEF Dfs!CfgCancelled, Dfs!Released, Dfs!rwnx_chanctx_unlink, Dfs!After
  <2>8. cacVif => Unlinks("ap")
    BY <1>7, <2>6, Unlink, Dfs!RadarAssumption DEF Dfs!CfgCancelled, Dfs!Released, Dfs!rwnx_chanctx_unlink
  <2>1. Dfs!TypeOK'
    BY <1>7, <2>6, <2>8 DEF Dfs!CfgCancelled, Dfs!Released, Dfs!rwnx_chanctx_unlink
  <2>2. Covered'
    BY <1>7, <2>6, <2>8 DEF Dfs!CfgCancelled, Dfs!Released, Dfs!rwnx_chanctx_unlink
  <2>3. Dfs!CacListens'
    BY <1>7, <2>6, <2>8 DEF Dfs!CfgCancelled, Dfs!Released, Dfs!rwnx_chanctx_unlink
  <2>4. Dfs!CheckOrBeacon'
    BY <1>7, <2>6, <2>8 DEF Dfs!CfgCancelled, Dfs!Released, Dfs!rwnx_chanctx_unlink
  <2>5. Dfs!CheckedChannel'
    BY <1>7, <2>6, <2>8 DEF Dfs!CfgCancelled, Dfs!Released, Dfs!rwnx_chanctx_unlink
  <2> QED
    BY <2>1, <2>2, <2>3, <2>4, <2>5
<1>8. CASE Dfs!Stopped
  <2>6. cfg'.after = "idle" /\ cfg'.pc = "idle" /\ cfg' \in Dfs!CfgAt
    BY <1>8, Places DEF Dfs!Stopped, Dfs!rwnx_chanctx_unlink, Dfs!After
  <2> DEFINE v == IF cfg.pc = "closesta" THEN "sta" ELSE "ap"
  <2>0. Dfs!rwnx_chanctx_unlink(v) /\ v \in Dfs!Devs
    BY <1>8 DEF Dfs!Stopped, Dfs!rwnx_chanctx_unlink
  <2> HIDE DEF v
  <2>8. Unlinks(v)
    BY <1>8, <2>6, <2>0, Unlink, Dfs!RadarAssumption DEF Dfs!Stopped, Dfs!rwnx_chanctx_unlink
  <2>1. Dfs!TypeOK'
    BY <1>8, <2>6, <2>0, <2>8 DEF Dfs!Stopped, Dfs!rwnx_chanctx_unlink
  <2>2. Covered'
    BY <1>8, <2>6, <2>0, <2>8 DEF Dfs!Stopped, Dfs!rwnx_chanctx_unlink
  <2>3. Dfs!CacListens'
    BY <1>8, <2>6, <2>0, <2>8 DEF Dfs!Stopped, Dfs!rwnx_chanctx_unlink
  <2>4. Dfs!CheckOrBeacon'
    <3>1. (beacon' <=> beacon /\ cfg.pc # "apstop") /\ cac' = cac /\ staNum' = staNum
      BY <1>8, Zenon DEF Dfs!Stopped
    <3> QED
      BY <2>6, <3>1
  <2>5. Dfs!CheckedChannel'
    BY <1>8, <2>6, <2>0, <2>8 DEF Dfs!Stopped, Dfs!rwnx_chanctx_unlink
  <2> QED
    BY <2>1, <2>2, <2>3, <2>4, <2>5
<1>9. CASE Dfs!StartAp
  <2>7. PICK c \in Ctx, ch \in {"plain", "dfs"} :
          cfg' = [pc |-> "ap", c |-> c, ch |-> ch, after |-> "idle"]
    BY <1>9 DEF Dfs!StartAp
  <2>6. cfg'.after = "idle" /\ cfg'.pc = "ap" /\ cfg' \in Dfs!CfgAt
    BY <2>7, Places
  <2>1. Dfs!TypeOK'
    BY <1>9, <2>6 DEF Dfs!StartAp
  <2>2. Covered'
    BY <1>9, <2>6 DEF Dfs!StartAp
  <2>3. Dfs!CacListens'
    BY <1>9, <2>6 DEF Dfs!StartAp
  <2>4. Dfs!CheckOrBeacon'
    BY <1>9, <2>6 DEF Dfs!StartAp
  <2>5. Dfs!CheckedChannel'
    BY <1>9, <2>6 DEF Dfs!StartAp
  <2> QED
    BY <2>1, <2>2, <2>3, <2>4, <2>5
<1>10. CASE Dfs!ApStarted
  <2>6. cfg'.after = "idle" /\ cfg'.pc = "idle" /\ cfg' \in Dfs!CfgAt /\ cfg.c \in Ctx /\ cfg.ch \in {"plain", "dfs"}
    BY <1>10, Places DEF Dfs!ApStarted, Dfs!rwnx_chanctx_link, Dfs!OnCurChannel, Dfs!After
  <2>1. Dfs!TypeOK'
    BY <1>10, <2>6 DEF Dfs!ApStarted, Dfs!rwnx_chanctx_link, Dfs!OnCurChannel
  <2>2. Covered'
    BY <1>10, <2>6 DEF Dfs!ApStarted, Dfs!rwnx_chanctx_link, Dfs!OnCurChannel
  <2>3. Dfs!CacListens'
    BY <1>10, <2>6 DEF Dfs!ApStarted, Dfs!rwnx_chanctx_link, Dfs!OnCurChannel
  <2>4. Dfs!CheckOrBeacon'
    BY <1>10, <2>6 DEF Dfs!ApStarted, Dfs!rwnx_chanctx_link, Dfs!OnCurChannel
  <2>5. Dfs!CheckedChannel'
    BY <1>10, <2>6 DEF Dfs!ApStarted, Dfs!rwnx_chanctx_link, Dfs!OnCurChannel
  <2> QED
    BY <2>1, <2>2, <2>3, <2>4, <2>5
<1>11. CASE Dfs!StaAdd
  <2>6. cfg.pc = "idle" /\ cfg.after = "idle"
    BY <1>11, Places DEF Dfs!StaAdd, Dfs!After
  <2>1. Dfs!TypeOK'
    BY <1>11, <2>6 DEF Dfs!StaAdd
  <2>2. Covered'
    BY <1>11, <2>6 DEF Dfs!StaAdd
  <2>3. Dfs!CacListens'
    BY <1>11, <2>6 DEF Dfs!StaAdd
  <2>4. Dfs!CheckOrBeacon'
    BY <1>11, <2>6 DEF Dfs!StaAdd
  <2>5. Dfs!CheckedChannel'
    BY <1>11, <2>6 DEF Dfs!StaAdd
  <2> QED
    BY <2>1, <2>2, <2>3, <2>4, <2>5
<1>12. CASE Dfs!StaDel
  <2>6. cfg.pc = "idle"
    BY <1>12, Places DEF Dfs!StaDel, Dfs!After
  <2>1. Dfs!TypeOK'
    BY <1>12, <2>6 DEF Dfs!StaDel
  <2>2. Covered'
    BY <1>12, <2>6 DEF Dfs!StaDel
  <2>3. Dfs!CacListens'
    BY <1>12, <2>6 DEF Dfs!StaDel
  <2>4. Dfs!CheckOrBeacon'
    BY <1>12, <2>6 DEF Dfs!StaDel
  <2>5. Dfs!CheckedChannel'
    BY <1>12, <2>6 DEF Dfs!StaDel
  <2> QED
    BY <2>1, <2>2, <2>3, <2>4, <2>5
<1>13. CASE Dfs!ConnectInd
  <2>6. (cfg.pc \in {"cac", "ap"} => cfg.c \in Ctx) /\ cfg' = cfg
    BY <1>13, Places DEF Dfs!ConnectInd, Dfs!rwnx_chanctx_link, Dfs!After
  <2>1. Dfs!TypeOK'
    BY <1>13, <2>6 DEF Dfs!ConnectInd, Dfs!rwnx_chanctx_link
  <2>2. Covered'
    BY <1>13, <2>6 DEF Dfs!ConnectInd, Dfs!rwnx_chanctx_link
  <2>3. Dfs!CacListens'
    BY <1>13, <2>6 DEF Dfs!ConnectInd, Dfs!rwnx_chanctx_link
  <2>4. Dfs!CheckOrBeacon'
    BY <1>13, <2>6 DEF Dfs!ConnectInd, Dfs!rwnx_chanctx_link
  <2>5. Dfs!CheckedChannel'
    BY <1>13, <2>6 DEF Dfs!ConnectInd, Dfs!rwnx_chanctx_link
  <2> QED
    BY <2>1, <2>2, <2>3, <2>4, <2>5
<1>14. CASE Dfs!DisconnectInd
  <2>8. Unlinks("sta")
    BY <1>14, Unlink, Dfs!RadarAssumption DEF Dfs!DisconnectInd, Dfs!rwnx_chanctx_unlink
  <2>1. Dfs!TypeOK'
    BY <1>14, <2>8 DEF Dfs!DisconnectInd, Dfs!rwnx_chanctx_unlink
  <2>2. Covered'
    BY <1>14, <2>8 DEF Dfs!DisconnectInd, Dfs!rwnx_chanctx_unlink
  <2>3. Dfs!CacListens'
    BY <1>14, <2>8 DEF Dfs!DisconnectInd, Dfs!rwnx_chanctx_unlink
  <2>4. Dfs!CheckOrBeacon'
    BY <1>14, <2>8 DEF Dfs!DisconnectInd, Dfs!rwnx_chanctx_unlink
  <2>5. Dfs!CheckedChannel'
    BY <1>14, <2>8 DEF Dfs!DisconnectInd, Dfs!rwnx_chanctx_unlink
  <2> QED
    BY <2>1, <2>2, <2>3, <2>4, <2>5
<1>15. CASE Dfs!ChannelSwitchInd
  <2>1. Dfs!TypeOK'
    BY <1>15 DEF Dfs!ChannelSwitchInd, Dfs!FwCtx, Dfs!OnCurChannel
  <2>2. Covered'
    BY <1>15 DEF Dfs!ChannelSwitchInd, Dfs!FwCtx, Dfs!OnCurChannel
  <2>3. Dfs!CacListens'
    BY <1>15 DEF Dfs!ChannelSwitchInd, Dfs!FwCtx, Dfs!OnCurChannel
  <2>4. Dfs!CheckOrBeacon'
    BY <1>15 DEF Dfs!ChannelSwitchInd, Dfs!FwCtx, Dfs!OnCurChannel
  <2>5. Dfs!CheckedChannel'
    BY <1>15 DEF Dfs!ChannelSwitchInd, Dfs!FwCtx, Dfs!OnCurChannel
  <2> QED
    BY <2>1, <2>2, <2>3, <2>4, <2>5
<1>16. CASE Dfs!DetectInd
  <2>1. Dfs!TypeOK'
    BY <1>16 DEF Dfs!DetectInd
  <2>2. Covered'
    BY <1>16 DEF Dfs!DetectInd
  <2>3. Dfs!CacListens'
    BY <1>16 DEF Dfs!DetectInd
  <2>4. Dfs!CheckOrBeacon'
    BY <1>16 DEF Dfs!DetectInd
  <2>5. Dfs!CheckedChannel'
    BY <1>16 DEF Dfs!DetectInd
  <2> QED
    BY <2>1, <2>2, <2>3, <2>4, <2>5
<1>17. CASE Dfs!Take
  <2>1. Dfs!TypeOK'
    BY <1>17 DEF Dfs!Take
  <2>2. Covered'
    BY <1>17 DEF Dfs!Take
  <2>3. Dfs!CacListens'
    BY <1>17 DEF Dfs!Take
  <2>4. Dfs!CheckOrBeacon'
    BY <1>17 DEF Dfs!Take
  <2>5. Dfs!CheckedChannel'
    BY <1>17 DEF Dfs!Take
  <2> QED
    BY <2>1, <2>2, <2>3, <2>4, <2>5
<1>18. CASE Dfs!Found
  <2>1. Dfs!TypeOK'
    BY <1>18 DEF Dfs!Found, Dfs!CancelCac, Dfs!Reported, Dfs!rwnx_chanctx_valid
  <2>2. Covered'
    BY <1>18 DEF Dfs!Found, Dfs!CancelCac, Dfs!Reported, Dfs!rwnx_chanctx_valid
  <2>3. Dfs!CacListens'
    BY <1>18 DEF Dfs!Found, Dfs!CancelCac, Dfs!Reported, Dfs!rwnx_chanctx_valid
  <2>4. Dfs!CheckOrBeacon'
    BY <1>18 DEF Dfs!Found, Dfs!CancelCac, Dfs!Reported, Dfs!rwnx_chanctx_valid
  <2>5. Dfs!CheckedChannel'
    BY <1>18 DEF Dfs!Found, Dfs!CancelCac, Dfs!Reported, Dfs!rwnx_chanctx_valid
  <2> QED
    BY <2>1, <2>2, <2>3, <2>4, <2>5
<1>19. CASE Dfs!DetCancelled
  <2>8. cacVif => Unlinks("ap")
    BY <1>19, Unlink, Dfs!RadarAssumption DEF Dfs!DetCancelled, Dfs!Reported
  <2>1. Dfs!TypeOK'
    BY <1>19, <2>8 DEF Dfs!DetCancelled, Dfs!Reported
  <2>2. Covered'
    BY <1>19, <2>8 DEF Dfs!DetCancelled, Dfs!Reported
  <2>3. Dfs!CacListens'
    BY <1>19, <2>8 DEF Dfs!DetCancelled, Dfs!Reported
  <2>4. Dfs!CheckOrBeacon'
    BY <1>19, <2>8 DEF Dfs!DetCancelled, Dfs!Reported
  <2>5. Dfs!CheckedChannel'
    BY <1>19, <2>8 DEF Dfs!DetCancelled, Dfs!Reported
  <2> QED
    BY <2>1, <2>2, <2>3, <2>4, <2>5
<1>20. CASE UNCHANGED Dfs!vars
  BY <1>20 DEF Dfs!vars
<1> QED
  BY <1>1, <1>2, <1>3, <1>4, <1>5, <1>6, <1>7, <1>8, <1>9, <1>10, <1>11, <1>12, <1>13, <1>14, <1>15, <1>16, <1>17, <1>18, <1>19, <1>20 DEF Dfs!Next

(* Whatever the number of contexts, operations and pulses: a context an    *)
(* interface is linked to is valid and counted, and a running check of a   *)
(* channel listens.                                                        *)
THEOREM RadarListens ==
    ASSUME Dfs!RadarAssumption PROVE Dfs!Spec => []Dfs!ChannelListens
<1>1. Dfs!Init => RadarParts
  BY DEF Dfs!Init, RadarParts, Dfs!RadarAssumption, Dfs!TypeOK, Covered, Dfs!CacListens,
         Dfs!CheckOrBeacon, Dfs!CheckedChannel, Dfs!Devs, Dfs!Idle, Dfs!CfgAt, Dfs!After
<1>2. RadarParts /\ [Dfs!Next]_Dfs!vars => RadarParts'
  BY RadarStep
<1>3. RadarParts => Dfs!ChannelListens
  BY LinkedCovered DEF RadarParts, Dfs!ChannelListens
<1> QED
  BY <1>1, <1>2, <1>3, PTL DEF Dfs!Spec

(* The host run's behaviours are, for Radar's variables, behaviours of     *)
(* Radar or stand still.                                                   *)
THEOREM HostChannelListens == MCSpec => []ChannelListens
<1>1. MCInit => Dfs!Init
  BY DEF MCInit
<1>2. [MCNext]_allVars => [Dfs!Next]_Dfs!vars
  BY DEF MCNext, InSm, InApm, InDfs, allVars, dfsVars, Dfs!vars, Dfs!ctxVars,
         Dfs!detVars, Dfs!cfgVars
<1>3. Dfs!ChannelListens => ChannelListens
  BY DEF ChannelListens
<1>4. Dfs!RadarAssumption
  BY HostAssumption
<1> QED
  BY <1>1, <1>2, <1>3, <1>4, RadarListens, PTL DEF MCSpec, Dfs!Spec

-----------------------------------------------------------------------------
(******************************** ApSta ************************************)

(* The fields of a message.                                                *)
LEMMA MessageFields ==
    ASSUME NEW m \in Apm!Message
    PROVE  /\ m.type \in {"lost", "ps", "cfm"}
           /\ m.type = "ps" => m.idx \in StaIdx /\ m.ps \in BOOLEAN
           /\ m.type = "cfm" => /\ m.to \in Apm!Actor /\ m.reply \in Apm!Reply
                                /\ m.idx \in StaIdx \cup {None}
                                /\ m.reply \in Apm!Added => m.idx \in StaIdx
  BY DEF Apm!Message, Apm!Added, Apm!Reply

(* A queue with one more message, and without its first.                   *)
LEMMA AddedLast ==
    ASSUME NEW S, NEW q \in Seq(S), NEW m \in S, NEW r, r = Append(q, m)
    PROVE  /\ r \in Seq(S) /\ Len(q) \in Nat /\ DOMAIN q = 1..Len(q)
           /\ DOMAIN r = 1..(Len(q) + 1) /\ r[Len(q) + 1] = m
           /\ \A k \in DOMAIN q : r[k] = q[k] /\ k \in DOMAIN r /\ k < Len(q) + 1
           /\ \A k \in DOMAIN r : k \in DOMAIN q \/ k = Len(q) + 1
  OBVIOUS

(* What is left of a sequence when its first element is taken.             *)
LEMMA TakenFirst ==
    ASSUME NEW S, NEW q \in Seq(S), q # <<>>, NEW r, r = Tail(q)
    PROVE  /\ r \in Seq(S) /\ Head(q) = q[1] /\ 1 \in DOMAIN q /\ q[1] \in S
           /\ \A k \in DOMAIN r : k \in Nat /\ k + 1 \in DOMAIN q /\ r[k] = q[k + 1]
           /\ \A k \in DOMAIN q : k = 1 \/ (k - 1 \in DOMAIN r /\ r[k - 1] = q[k] /\ k \in Nat)
  OBVIOUS

(* What the rest of the invariant is made of, while commands are answered. *)
Rest == Apm!Awaited /\ Apm!Commands /\ Apm!Places /\ Apm!SleepOnItsWay

(* An actor that does not wait has no confirmation on its way.             *)
LEMMA NoneOnItsWay ==
    ASSUME Apm!Awaited, Apm!Commands, NEW a \in Apm!Actor,
           Apm!Of(a).reply # "none" \/ Apm!Of(a).at \in {"idle", "stop_loop"} \cup Apm!Before
    PROVE  \A k \in DOMAIN msgs : ~Apm!CfmOf(a, k)
  BY DEF Apm!Awaited, Apm!Before, Apm!After

(* Every step keeps the types, given the rest of the invariant.            *)
LEMMA TypeStep ==
    ASSUME Apm!ApStaAssumption, Apm!ApTypeOK, ~crashed => Rest, Apm!Next
    PROVE  Apm!ApTypeOK'
<1> USE DEF Apm!ApTypeOK, Apm!drvVars, Apm!actors, Apm!fwVars
<1>0. Apm!Idle \in Apm!Operation /\ Apm!Free \in Apm!Station /\ Apm!Idle.reply \notin Apm!Added
  BY DEF Apm!Idle, Apm!Operation, Apm!Free, Apm!Station, Apm!Reply, Apm!Added
<1>1. ASSUME NEW at, NEW m \in Mac \cup {None}, NEW i \in StaIdx \cup {None},
             at \in {"start", "stop", "add"} \cup Apm!After
      PROVE  Apm!Sent(at, m, i) \in Apm!Operation /\ Apm!Sent(at, m, i).reply \notin Apm!Added
  BY <1>1 DEF Apm!Sent, Apm!Operation, Apm!Reply, Apm!Added
<1>2. \A r \in Apm!Operation : /\ r.mac \in Mac \cup {None} /\ r.idx \in StaIdx \cup {None}
  BY DEF Apm!Operation
<1>3. CASE Apm!Calls
  <2>1. CASE Apm!StartAp
    BY <2>1, <1>1 DEF Apm!StartAp, Apm!Begin
  <2>2. CASE Apm!StopAp
    <3>1. [Apm!Idle EXCEPT !.at = "stop_loop"] \in Apm!Operation
      BY DEF Apm!Idle, Apm!Operation, Apm!Reply
    <3>2. [Apm!Idle EXCEPT !.at = "stop_loop"].reply \notin Apm!Added
      BY DEF Apm!Idle, Apm!Added
    <3> QED BY <2>2, <3>1, <3>2 DEF Apm!StopAp
  <2>3. ASSUME NEW m \in Mac, Apm!AddStation(m) PROVE Apm!ApTypeOK'
    BY <2>3, <1>1 DEF Apm!AddStation
  <2>4. ASSUME NEW m \in Mac, NEW i \in StaIdx, Apm!DelTake("del", m, i) PROVE Apm!ApTypeOK'
    <3>1. [Apm!Idle EXCEPT !.at = "del", !.mac = m, !.idx = i] \in Apm!Operation
      BY DEF Apm!Idle, Apm!Operation, Apm!Reply, Apm!Before
    <3>2. sta' \in [StaIdx -> Apm!Station]
      BY <2>4 DEF Apm!DelTake, Apm!Unlist, Apm!Station
    <3> QED BY <2>4, <3>1, <3>2 DEF Apm!DelTake, Apm!Unlist
  <2>5. ASSUME NEW m \in Mac, Apm!DelNone(m) PROVE Apm!ApTypeOK'
    BY <2>5 DEF Apm!DelNone
  <2> QED BY <1>3, <2>1, <2>2, <2>3, <2>4, <2>5 DEF Apm!Calls, Apm!DelStation
<1>4. CASE Apm!OpSteps
  <2>1. CASE Apm!StartApEnd
    BY <2>1, <1>0 DEF Apm!StartApEnd
  <2>2. CASE Apm!AddStationEnd
    <3>1. sta' \in [StaIdx -> Apm!Station] /\ sta_list' \subseteq StaIdx /\ txq' \subseteq StaIdx
      <4>1. CASE op.reply \in {"awake", "asleep"}
        <5>1. op.idx \in StaIdx /\ op.mac \in Mac \cup {None}
          BY <4>1, <1>2 DEF Apm!Added
        <5>2. Apm!Entered(op.idx, op.mac, op.reply = "asleep")
          BY <2>2, <4>1 DEF Apm!AddStationEnd
        <5>3. [valid |-> TRUE, mac |-> op.mac,
               ps |-> sta[op.idx].ps \/ op.reply = "asleep"] \in Apm!Station
          BY <5>1 DEF Apm!Station
        <5> QED BY <5>1, <5>2, <5>3 DEF Apm!Entered
      <4> QED BY <2>2, <4>1 DEF Apm!AddStationEnd
    <3>2. adding_sta' \in BOOLEAN
      BY <2>2 DEF Apm!AddStationEnd
    <3> QED BY <2>2, <3>1, <3>2, <1>0 DEF Apm!AddStationEnd
  <2>3. CASE Apm!DelEnd
    BY <2>3, <1>0 DEF Apm!DelEnd
  <2>4. CASE Apm!StopNext
    <3>1. CASE sta_list = {}
      <4>1. Apm!Sent("stop", None, None) \in Apm!Operation /\ Apm!Sent("stop", None, None).reply \notin Apm!Added
        BY <1>1 DEF Apm!Sent, Apm!Added
      <4> QED BY <2>4, <3>1, <4>1 DEF Apm!StopNext
    <3>2. ASSUME NEW i \in StaIdx, Apm!DelTake("stop_del", None, i) PROVE Apm!ApTypeOK'
      <4>1. [Apm!Idle EXCEPT !.at = "stop_del", !.mac = None, !.idx = i] \in Apm!Operation
        BY DEF Apm!Idle, Apm!Operation, Apm!Reply, Apm!Before
      <4>2. sta' \in [StaIdx -> Apm!Station]
        BY <3>2 DEF Apm!DelTake, Apm!Unlist, Apm!Station
      <4> QED BY <3>2, <4>1, <4>2 DEF Apm!DelTake, Apm!Unlist
    <3> QED BY <2>4, <3>1, <3>2 DEF Apm!StopNext
  <2>5. CASE Apm!StopApEnd
    BY <2>5, <1>0 DEF Apm!StopApEnd
  <2>6. CASE Apm!DelSend("del", "del_sent")
    BY <2>6, <1>1, <1>2 DEF Apm!DelSend, Apm!Undo, Apm!After
  <2>7. CASE Apm!DelSend("stop_del", "stop_del_sent")
    BY <2>7, <1>1, <1>2 DEF Apm!DelSend, Apm!Undo, Apm!After
  <2> QED BY <1>4, <2>1, <2>2, <2>3, <2>4, <2>5, <2>6, <2>7 DEF Apm!OpSteps
<1>5. CASE Apm!WorkTake
  <2>1. ASSUME NEW i \in sta_list, Apm!Unlist(i) PROVE sta' \in [StaIdx -> Apm!Station]
    BY <2>1 DEF Apm!Unlist, Apm!Station
  <2>2. ASSUME NEW i \in sta_list, sta[i].mac = lost
        PROVE  [Apm!Idle EXCEPT !.at = "del", !.mac = lost, !.idx = i] \in Apm!Operation
    BY <2>2 DEF Apm!Idle, Apm!Operation, Apm!Reply, Apm!Before, Apm!Station
  <2> QED BY <1>5, <2>1, <2>2 DEF Apm!WorkTake, Apm!Unlist
<1>6. CASE Apm!WorkSend
  BY <1>6, <1>1, <1>2 DEF Apm!WorkSend, Apm!Undo, Apm!After
<1>7. CASE Apm!WorkEnd
  BY <1>7, <1>0 DEF Apm!WorkEnd
<1>8. CASE Apm!Receive
  <2>1. msgs' \in Seq(Apm!Message) /\ Head(msgs) \in Apm!Message
    BY <1>8, TakenFirst DEF Apm!Receive
  <2>2. UNCHANGED <<crashed, fwSta, fwPs, ap, sta_list, txq, adding_sta>>
    BY <1>8, <2>1, MessageFields DEF Apm!Receive, Apm!ApmStalossInd, Apm!PsChangeInd,
      Apm!Confirm
  <2>3. sta' \in [StaIdx -> Apm!Station]
    <3>1. CASE Head(msgs).type = "ps"
      <4>1. Head(msgs).idx \in StaIdx /\ Head(msgs).ps \in BOOLEAN
        BY <2>1, <3>1, MessageFields
      <4>2. \/ sta' = sta
            \/ sta' = [sta EXCEPT ![Head(msgs).idx].ps = Head(msgs).ps]
        BY <1>8, <3>1 DEF Apm!Receive, Apm!PsChangeInd
      <4> QED BY <4>1, <4>2 DEF Apm!Station
    <3>2. CASE Head(msgs).type # "ps"
      BY <1>8, <2>1, <3>2, MessageFields DEF Apm!Receive, Apm!ApmStalossInd, Apm!Confirm
    <3> QED BY <3>1, <3>2
  <2>4. op' \in Apm!Operation /\ work' \in Apm!Operation /\ (op'.reply \in Apm!Added => op'.idx \in StaIdx)
    <3>1. CASE Head(msgs).type = "cfm"
      <4>1. /\ Head(msgs).reply \in Apm!Reply /\ Head(msgs).idx \in StaIdx \cup {None}
            /\ Head(msgs).reply \in Apm!Added => Head(msgs).idx \in StaIdx
        BY <2>1, <3>1, MessageFields
      <4> QED BY <1>8, <3>1, <4>1, ZenonT(60) DEF Apm!Receive, Apm!Confirm, Apm!Operation,
                Apm!ApStaAssumption
    <3>2. CASE Head(msgs).type # "cfm"
      BY <1>8, <2>1, <3>2, MessageFields DEF Apm!Receive, Apm!ApmStalossInd,
        Apm!PsChangeInd
    <3> QED BY <3>1, <3>2
  <2> QED BY <2>1, <2>2, <2>3, <2>4
<1>9. /\ \A a \in Apm!Actor, r \in {"ok", "busy", "full"} : Apm!CfmMsg(a, r, None) \in Apm!Message
      /\ \A a \in Apm!Actor, r \in Apm!Added, i \in StaIdx : Apm!CfmMsg(a, r, i) \in Apm!Message
  BY DEF Apm!CfmMsg, Apm!Message, Apm!Reply, Apm!Added
<1>10. ASSUME NEW m \in Apm!Message, msgs' = Append(msgs, m) PROVE msgs' \in Seq(Apm!Message)
  BY <1>10
<1>11. CASE Apm!FwAdd
  <2>1. msgs' \in Seq(Apm!Message)
    BY <1>9, <1>10, <1>11 DEF Apm!FwAdd, Apm!Actor, Apm!Added
  <2>2. fwSta' \in [StaIdx -> Mac \cup {None}] /\ fwPs' \subseteq StaIdx
    BY <1>11, <1>2 DEF Apm!FwAdd
  <2> QED BY <1>11, <2>1, <2>2 DEF Apm!FwAdd
<1>12. ASSUME NEW at, Apm!FwApm(at) PROVE Apm!ApTypeOK'
  <2>1. msgs' \in Seq(Apm!Message)
    BY <1>9, <1>10, <1>12 DEF Apm!FwApm, Apm!Actor
  <2> QED BY <1>12, <2>1 DEF Apm!FwApm
<1>13. ASSUME NEW a \in Apm!Actor, NEW at, Apm!FwDel(a, at) PROVE Apm!ApTypeOK'
  <2>1. msgs' \in Seq(Apm!Message)
    BY <1>9, <1>10, <1>13 DEF Apm!FwDel
  <2>2. fwSta' \in [StaIdx -> Mac \cup {None}] /\ fwPs' \subseteq StaIdx
    BY <1>13 DEF Apm!FwDel
  <2> QED BY <1>13, <2>1, <2>2 DEF Apm!FwDel
<1>14. ASSUME NEW i \in StaIdx, Apm!FwPs(i) PROVE Apm!ApTypeOK'
  <2>1. [type |-> "ps", idx |-> i, ps |-> i \notin fwPs] \in Apm!Message
    BY DEF Apm!Message
  <2> QED BY <1>10, <1>14, <2>1 DEF Apm!FwPs
<1>15. ASSUME NEW i \in StaIdx, Apm!FwLost(i) PROVE Apm!ApTypeOK'
  <2>1. [type |-> "lost", mac |-> fwSta[i]] \in Apm!Message
    BY DEF Apm!Message
  <2> QED BY <1>10, <1>15, <2>1 DEF Apm!FwLost
<1>16. CASE Apm!Die
  BY <1>16 DEF Apm!Die
<1>17. ASSUME NEW a \in Apm!Actor, Apm!Timeout(a) PROVE Apm!ApTypeOK'
  BY <1>17 DEF Apm!Timeout, Apm!Operation, Apm!Reply, Apm!Added
<1> QED
  BY <1>3, <1>4, <1>5, <1>6, <1>7, <1>8, <1>11, <1>12, <1>13, <1>14, <1>15, <1>16,
     <1>17 DEF Apm!Next, Apm!WorkSteps, Apm!FwAnswers, Apm!Actor

-----------------------------------------------------------------------------
(* A step of one actor that leaves the messages and the firmware alone,    *)
(* and for whom no confirmation is on its way: who enters and who leaves   *)
(* is then said by that actor alone.                                       *)
NoCfm(a) == \A k \in DOMAIN msgs : ~Apm!CfmOf(a, k)

(* A step of the operation changes nothing for the work item ...           *)
LEMMA OpMoves ==
    ASSUME Apm!Awaited, NoCfm("op"), UNCHANGED <<msgs, work>>
    PROVE  /\ Apm!Awaited' /\ NoCfm("op")'
           /\ \A i : Apm!Leaving("work", i)' <=> Apm!Leaving("work", i)
           /\ \A i : Apm!Leaving("op", i) <=> Apm!Removing("op", i) /\ op.reply = "none"
           /\ \A i : Apm!Leaving("op", i)' <=> Apm!Removing("op", i)' /\ op'.reply = "none"
           /\ \A i : Apm!Entering(i) <=> op.at = "add" /\ op.idx = i
           /\ \A i : Apm!Entering(i)' <=> op'.at = "add" /\ op'.idx = i
           /\ \A k, i : Apm!Sleepy(k, i)' <=> Apm!Sleepy(k, i)
           /\ \A k, i : Apm!Woken(k, i)' <=> Apm!Woken(k, i)
<1>1. Apm!Awaited'
  BY DEF Apm!Awaited, NoCfm, Apm!CfmOf, Apm!Of, Apm!Actor
<1>2. NoCfm("op")'
  BY DEF NoCfm, Apm!CfmOf
<1>3. \A i : Apm!Leaving("work", i)' <=> Apm!Leaving("work", i)
  BY DEF Apm!Leaving, Apm!Removing, Apm!Told, Apm!Of
<1>4. /\ \A i : Apm!Leaving("op", i) <=> Apm!Removing("op", i) /\ op.reply = "none"
      /\ \A i : Apm!Leaving("op", i)' <=> Apm!Removing("op", i)' /\ op'.reply = "none"
  BY DEF Apm!Leaving, Apm!Told, Apm!Of, NoCfm, Apm!CfmOf
<1>5. /\ \A i : Apm!Entering(i) <=> op.at = "add" /\ op.idx = i
      /\ \A i : Apm!Entering(i)' <=> op'.at = "add" /\ op'.idx = i
  BY <1>2 DEF Apm!Entering, NoCfm
<1>6. /\ \A k, i : Apm!Sleepy(k, i)' <=> Apm!Sleepy(k, i)
      /\ \A k, i : Apm!Woken(k, i)' <=> Apm!Woken(k, i)
  BY DEF Apm!Sleepy, Apm!Woken, Apm!CfmOf
<1> QED BY <1>1, <1>2, <1>3, <1>4, <1>5, <1>6

(* ... nor one of the work item for the operation.                         *)
LEMMA WorkMoves ==
    ASSUME Apm!Awaited, NoCfm("work"), UNCHANGED <<msgs, op>>
    PROVE  /\ Apm!Awaited'
           /\ \A i : Apm!Leaving("op", i)' <=> Apm!Leaving("op", i)
           /\ \A i : Apm!Leaving("work", i) <=> Apm!Removing("work", i) /\ work.reply = "none"
           /\ \A i : Apm!Leaving("work", i)' <=> Apm!Removing("work", i)' /\ work'.reply = "none"
           /\ \A i : Apm!Entering(i)' <=> Apm!Entering(i)
           /\ \A k, i : Apm!Sleepy(k, i)' <=> Apm!Sleepy(k, i)
           /\ \A k, i : Apm!Woken(k, i)' <=> Apm!Woken(k, i)
<1>1. Apm!Awaited'
  BY DEF Apm!Awaited, NoCfm, Apm!CfmOf, Apm!Of, Apm!Actor
<1>2. \A i : Apm!Leaving("op", i)' <=> Apm!Leaving("op", i)
  BY DEF Apm!Leaving, Apm!Removing, Apm!Told, Apm!Of
<1>3. /\ \A i : Apm!Leaving("work", i) <=> Apm!Removing("work", i) /\ work.reply = "none"
      /\ \A i : Apm!Leaving("work", i)' <=> Apm!Removing("work", i)' /\ work'.reply = "none"
  BY DEF Apm!Leaving, Apm!Told, Apm!Of, NoCfm, Apm!CfmOf
<1>4. \A i : Apm!Entering(i)' <=> Apm!Entering(i)
  BY DEF Apm!Entering, Apm!CfmOf
<1>5. /\ \A k, i : Apm!Sleepy(k, i)' <=> Apm!Sleepy(k, i)
      /\ \A k, i : Apm!Woken(k, i)' <=> Apm!Woken(k, i)
  BY DEF Apm!Sleepy, Apm!Woken, Apm!CfmOf
<1> QED BY <1>1, <1>2, <1>3, <1>4, <1>5

(* Nothing of the tables changes, nobody enters or leaves.                 *)
LEMMA SamePlaces ==
    ASSUME Apm!Places, Apm!SleepOnItsWay, fwPs \subseteq StaIdx,
           UNCHANGED <<sta, sta_list, txq, fwSta, fwPs, msgs>>,
           \A i \in StaIdx : Apm!Entering(i)' <=> Apm!Entering(i),
           \A i \in StaIdx, a \in Apm!Actor : Apm!Leaving(a, i)' <=> Apm!Leaving(a, i),
           \A i \in StaIdx : Apm!Entering(i) => op' = op,
           \A i \in StaIdx, a \in Apm!Actor : Apm!Of(a).idx = i /\ Apm!Of(a).at \in Apm!Before
              => Apm!Of(a)'.idx = i /\ Apm!Of(a)'.at \in Apm!Before,
           \A k, i : Apm!Sleepy(k, i)' <=> Apm!Sleepy(k, i),
           \A k, i : Apm!Woken(k, i)' <=> Apm!Woken(k, i)
    PROVE  Apm!Places' /\ Apm!SleepOnItsWay'
<1>1. Apm!Places'
  BY DEF Apm!Places, Apm!Actor
<1>2. Apm!SleepOnItsWay'
  <2> SUFFICES ASSUME NEW i \in fwPs
               PROVE  /\ fwSta[i] # None
                      /\ sta[i].valid \/ Apm!Entering(i) =>
                           /\ \/ sta[i].ps
                              \/ op'.at = "add" /\ op'.idx = i /\ op'.reply = "asleep"
                              \/ \E k \in DOMAIN msgs : Apm!Sleepy(k, i)
                           /\ \A k \in DOMAIN msgs : Apm!Woken(k, i) =>
                                 \E j \in DOMAIN msgs : j > k /\ Apm!Sleepy(j, i)
    BY DEF Apm!SleepOnItsWay
  <2>1. op.at = "add" /\ op.idx = i => Apm!Entering(i)
    BY DEF Apm!Entering
  <2> QED BY <2>1 DEF Apm!SleepOnItsWay
<1> QED BY <1>1, <1>2

-----------------------------------------------------------------------------
(* The operations of cfg80211 keep the rest of the invariant ...           *)
LEMMA OpStep ==
    ASSUME Apm!ApStaAssumption, Apm!ApTypeOK, Apm!ApTypeOK', Rest, ~crashed, Apm!Calls \/ Apm!OpSteps
    PROVE  Rest'
<1> USE DEF Apm!ApTypeOK, Apm!ApStaAssumption
<1>0. /\ Apm!Idle.at = "idle" /\ Apm!Idle.idx = None /\ Apm!Idle.reply = "none"
      /\ "op" \in Apm!Actor /\ Apm!Of("op") = op /\ "work" \in Apm!Actor /\ Apm!Of("work") = work
  BY DEF Apm!Idle, Apm!Actor, Apm!Of
<1>1. \A at, m, i : /\ Apm!Sent(at, m, i).at = at /\ Apm!Sent(at, m, i).mac = m
                    /\ Apm!Sent(at, m, i).idx = i /\ Apm!Sent(at, m, i).reply = "none"
  BY DEF Apm!Sent
<1>2. \A at, m, i : LET r == [Apm!Idle EXCEPT !.at = at, !.mac = m, !.idx = i] IN
                    r.at = at /\ r.mac = m /\ r.idx = i /\ r.reply = "none"
  BY DEF Apm!Idle
<1>3. /\ UNCHANGED <<msgs, fwSta, fwPs, work, crashed>>
      /\ op.reply # "none" \/ op.at \in {"idle", "stop_loop"} \cup Apm!Before
  BY <1>0 DEF Apm!Calls, Apm!StartAp, Apm!StopAp, Apm!AddStation, Apm!DelStation,
    Apm!DelTake, Apm!DelNone, Apm!OpSteps,
     Apm!StartApEnd, Apm!AddStationEnd, Apm!DelEnd, Apm!StopNext, Apm!StopApEnd,
     Apm!DelSend, Apm!Begin, Apm!Answered,
     Apm!Before, Apm!drvVars, Apm!actors, Apm!fwVars
<1>4. NoCfm("op")
  BY <1>0, <1>3, NoneOnItsWay DEF Rest, NoCfm
<1>5. /\ Apm!Awaited' /\ NoCfm("op")'
      /\ \A i : Apm!Leaving("work", i)' <=> Apm!Leaving("work", i)
      /\ \A i : Apm!Leaving("op", i) <=> Apm!Removing("op", i) /\ op.reply = "none"
      /\ \A i : Apm!Leaving("op", i)' <=> Apm!Removing("op", i)' /\ op'.reply = "none"
      /\ \A i : Apm!Entering(i) <=> op.at = "add" /\ op.idx = i
      /\ \A i : Apm!Entering(i)' <=> op'.at = "add" /\ op'.idx = i
      /\ \A k, i : Apm!Sleepy(k, i)' <=> Apm!Sleepy(k, i)
      /\ \A k, i : Apm!Woken(k, i)' <=> Apm!Woken(k, i)
  BY <1>3, <1>4, OpMoves DEF Rest
(* An operation begins or ends; nobody enters or leaves.                   *)
<1>6. ASSUME UNCHANGED <<sta, sta_list, txq>>,
             op.at \in {"idle", "start", "stop", "stop_loop", "add"} \cup Apm!After,
             op.reply # "none" \/ op.at \notin Apm!After,
             op.at = "add" => op.reply = "full",
             op'.at \in {"idle", "start", "stop", "stop_loop", "add"},
             op'.reply = "none", op'.idx = None,
             op'.at = "add" => adding_sta' /\ op'.mac \in Mac
      PROVE  Rest'
  <2>1. Apm!Commands'
    BY <1>0, <1>3, <1>6 DEF Rest, Apm!Commands, Apm!Actor, Apm!Of, Apm!Before, Apm!After
  <2>2. \A i \in StaIdx : ~Apm!Entering(i) /\ ~Apm!Entering(i)'
    BY <1>5, <1>6 DEF Rest, Apm!Commands, Apm!Added
  <2>3. \A i \in StaIdx, a \in Apm!Actor : Apm!Leaving(a, i)' <=> Apm!Leaving(a, i)
    BY <1>5, <1>6 DEF Apm!Removing, Apm!Of, Apm!Actor, Apm!After
  <2>4. Apm!Places' /\ Apm!SleepOnItsWay'
    BY <1>3, <1>5, <1>6, <2>2, <2>3, SamePlaces DEF Rest, Apm!Of, Apm!Actor,
      Apm!Before, Apm!After
  <2> QED BY <1>5, <2>1, <2>4 DEF Rest
(* An entry is taken off the list.                                         *)
<1>7. ASSUME NEW at \in Apm!Before, NEW m, NEW i \in StaIdx, Apm!DelTake(at, m, i),
             op.at \in {"idle", "stop_loop"} \cup Apm!After, op.reply # "none" \/ op.at \notin Apm!After
      PROVE  Rest'
  <2>1. /\ op'.at = at /\ op'.idx = i /\ op'.reply = "none" /\ i \in sta_list
        /\ sta' = [sta EXCEPT ![i].valid = FALSE, ![i].ps = FALSE]
        /\ sta_list' = sta_list \ {i} /\ txq' = txq /\ adding_sta' = adding_sta
    BY <1>2, <1>7 DEF Apm!DelTake, Apm!Unlist, Apm!Matches
  <2>2. Apm!Commands'
    BY <1>0, <1>3, <1>7, <2>1 DEF Rest, Apm!Commands, Apm!Actor, Apm!Of, Apm!Before,
      Apm!After
  <2>3. /\ \A j \in StaIdx : ~Apm!Entering(j) /\ ~Apm!Entering(j)'
        /\ \A j \in StaIdx : ~Apm!Leaving("op", j) /\ (Apm!Leaving("op", j)' <=> j = i)
    BY <1>5, <1>7, <2>1 DEF Apm!Removing, Apm!Of, Apm!Before, Apm!After
  <2>4. /\ ~sta'[i].valid /\ sta'[i].mac = sta[i].mac
        /\ \A j \in StaIdx : j # i => sta'[j] = sta[j]
    BY <2>1 DEF Apm!Station
  <2>5. Apm!Places'
    BY <1>0, <1>3, <1>5, <1>7, <2>1, <2>3, <2>4 DEF Rest, Apm!Places, Apm!Actor,
      Apm!Of, Apm!After, Apm!Before
  <2>6. Apm!SleepOnItsWay'
    <3>1. \A j \in StaIdx : ~(op.at = "add" /\ op.idx = j)
      BY <1>7 DEF Apm!After, Apm!Before
    <3> QED BY <1>3, <1>5, <2>1, <2>3, <2>4, <3>1 DEF Rest, Apm!SleepOnItsWay
  <2> QED BY <1>5, <2>2, <2>5, <2>6 DEF Rest
(* ... and the firmware is told.                                           *)
<1>8. ASSUME NEW at \in Apm!Before, NEW sent \in Apm!After, Apm!DelSend(at, sent)
      PROVE  Rest'
  <2>1. /\ op.at = at /\ op'.at = sent /\ op'.idx = op.idx /\ op'.reply = "none"
        /\ UNCHANGED <<sta, sta_list, adding_sta>> /\ txq' = txq \ {op.idx}
        /\ op.idx \in StaIdx /\ op.reply = "none"
    BY <1>0, <1>1, <1>8 DEF Apm!DelSend, Apm!Undo, Rest, Apm!Commands
  <2>2. Apm!Commands'
    BY <1>0, <1>3, <1>8, <2>1 DEF Rest, Apm!Commands, Apm!Actor, Apm!Of, Apm!Before,
      Apm!After
  <2>3. /\ \A j \in StaIdx : ~Apm!Entering(j) /\ ~Apm!Entering(j)'
        /\ \A j \in StaIdx : Apm!Leaving("op", j)' <=> Apm!Leaving("op", j)
        /\ Apm!Leaving("op", op.idx)
    BY <1>5, <1>8, <2>1 DEF Apm!Removing, Apm!Of, Apm!Before, Apm!After
  <2>4. Apm!Places'
    BY <1>0, <1>3, <1>5, <2>1, <2>3 DEF Rest, Apm!Places, Apm!Actor, Apm!Of,
      Apm!After, Apm!Before
  <2>5. Apm!SleepOnItsWay'
    <3>1. \A j \in StaIdx : ~(op.at = "add" /\ op.idx = j)
      BY <2>3, <1>5
    <3> QED BY <1>3, <1>5, <2>1, <2>3, <3>1 DEF Rest, Apm!SleepOnItsWay
  <2> QED BY <1>5, <2>2, <2>4, <2>5 DEF Rest
(* A station is entered.                                                   *)
<1>9. ASSUME Apm!AddStationEnd, op.reply \in Apm!Added
      PROVE  Rest'
  <2>1. /\ op.at = "add" /\ op.idx \in StaIdx /\ op.mac \in Mac /\ op' = Apm!Idle
        /\ sta' = [sta EXCEPT ![op.idx] =
                     [valid |-> TRUE, mac |-> op.mac, ps |-> @.ps \/ op.reply = "asleep"]]
        /\ sta_list' = sta_list \cup {op.idx} /\ txq' = txq \cup {op.idx}
    BY <1>9 DEF Apm!AddStationEnd, Apm!Answered, Apm!Entered, Rest, Apm!Commands,
      Apm!Added
  <2>2. Apm!Commands'
    BY <1>0, <1>3, <2>1 DEF Rest, Apm!Commands, Apm!Actor, Apm!Of, Apm!Before, Apm!After
  <2>3. /\ \A j \in StaIdx : (Apm!Entering(j) <=> j = op.idx) /\ ~Apm!Entering(j)'
        /\ \A j \in StaIdx : ~Apm!Leaving("op", j) /\ ~Apm!Leaving("op", j)'
    BY <1>0, <1>5, <2>1 DEF Apm!Removing, Apm!Of, Apm!Before, Apm!After
  <2>4. /\ sta'[op.idx].valid /\ sta'[op.idx].mac = op.mac
        /\ sta'[op.idx].ps = (sta[op.idx].ps \/ op.reply = "asleep")
        /\ \A j \in StaIdx : j # op.idx => sta'[j] = sta[j]
    BY <2>1 DEF Apm!Station
  <2>5. Apm!Places'
    BY <1>0, <1>3, <1>5, <2>1, <2>3, <2>4 DEF Rest, Apm!Places, Apm!Actor, Apm!Of,
      Apm!After, Apm!Before
  <2>6. Apm!SleepOnItsWay'
    BY <1>3, <1>5, <2>1, <2>3, <2>4 DEF Rest, Apm!SleepOnItsWay
  <2> QED BY <1>5, <2>2, <2>5, <2>6 DEF Rest
<1>10. CASE Apm!StartAp
  BY <1>0, <1>1, <1>6, <1>10 DEF Apm!StartAp, Apm!Begin, Apm!drvVars, Apm!After
<1>11. CASE Apm!StopAp
  <2>1. /\ op'.at = "stop_loop" /\ op'.idx = None /\ op'.reply = "none"
    BY <1>11 DEF Apm!StopAp, Apm!Idle
  <2> QED BY <1>0, <2>1, <1>6, <1>11 DEF Apm!StopAp, Apm!Begin, Apm!drvVars, Apm!After
<1>12. ASSUME NEW m \in Mac, Apm!AddStation(m) PROVE Rest'
  BY <1>0, <1>1, <1>6, <1>12 DEF Apm!AddStation, Apm!Begin, Apm!After
<1>13. ASSUME NEW m \in Mac, Apm!DelStation(m) PROVE Rest'
  BY <1>0, <1>7, <1>13 DEF Apm!DelStation, Apm!Begin, Apm!After, Apm!Before
<1>14. ASSUME NEW m \in Mac, Apm!DelNone(m) PROVE Rest'
  BY <1>0, <1>6, <1>14 DEF Apm!DelNone, Apm!Begin, Apm!drvVars, Apm!actors, Apm!After
<1>15. CASE Apm!StartApEnd
  BY <1>0, <1>6, <1>15 DEF Apm!StartApEnd, Apm!Answered, Apm!After
<1>16. CASE Apm!AddStationEnd
  <2>1. CASE op.reply \in Apm!Added
    BY <1>9, <1>16, <2>1
  <2>2. CASE op.reply \notin Apm!Added
    <3>1. op.reply = "full" /\ op.at = "add"
      BY <1>16, <2>2 DEF Apm!AddStationEnd, Apm!Answered, Rest, Apm!Commands, Apm!Added
    <3> QED BY <1>0, <1>6, <1>16, <3>1 DEF Apm!AddStationEnd, Apm!After
  <2> QED BY <2>1, <2>2
<1>17. CASE Apm!DelEnd
  BY <1>0, <1>6, <1>17 DEF Apm!DelEnd, Apm!Answered, Apm!drvVars, Apm!After
<1>18. CASE Apm!StopNext
  <2>1. /\ op.at \in {"stop_loop"} \cup Apm!After
        /\ op.reply # "none" \/ op.at \notin Apm!After
    BY <1>18 DEF Apm!StopNext, Apm!Answered, Apm!After
  <2>2. CASE sta_list = {}
    BY <1>1, <1>6, <1>18, <2>1, <2>2 DEF Apm!StopNext, Apm!drvVars, Apm!After
  <2>3. CASE sta_list # {}
    BY <1>7, <1>18, <2>1, <2>3 DEF Apm!StopNext, Apm!Before
  <2> QED BY <2>2, <2>3
<1>19. CASE Apm!StopApEnd
  BY <1>0, <1>6, <1>19 DEF Apm!StopApEnd, Apm!Answered, Apm!After
<1> QED
  BY <1>8, <1>10, <1>11, <1>12, <1>13, <1>14, <1>15, <1>16, <1>17, <1>18, <1>19
  DEF Apm!Calls, Apm!OpSteps, Apm!Before, Apm!After

-----------------------------------------------------------------------------
(* ... and so does the work item that takes lost stations away.            *)
LEMMA WorkStep ==
    ASSUME Apm!ApStaAssumption, Apm!ApTypeOK, Apm!ApTypeOK', Rest, ~crashed, Apm!WorkSteps
    PROVE  Rest'
<1> USE DEF Apm!ApTypeOK, Apm!ApStaAssumption
<1>0. /\ Apm!Idle.at = "idle" /\ Apm!Idle.idx = None /\ Apm!Idle.reply = "none"
      /\ "op" \in Apm!Actor /\ Apm!Of("op") = op /\ "work" \in Apm!Actor /\ Apm!Of("work") = work
  BY DEF Apm!Idle, Apm!Actor, Apm!Of
<1>1. \A at, m, i : /\ Apm!Sent(at, m, i).at = at /\ Apm!Sent(at, m, i).mac = m
                    /\ Apm!Sent(at, m, i).idx = i /\ Apm!Sent(at, m, i).reply = "none"
  BY DEF Apm!Sent
<1>2. \A at, m, i : LET r == [Apm!Idle EXCEPT !.at = at, !.mac = m, !.idx = i] IN
                    r.at = at /\ r.mac = m /\ r.idx = i /\ r.reply = "none"
  BY DEF Apm!Idle
<1>3. /\ UNCHANGED <<msgs, fwSta, fwPs, op, crashed, adding_sta>>
      /\ work.reply # "none" \/ work.at \in {"idle"} \cup Apm!Before
  BY <1>0 DEF Apm!WorkSteps, Apm!WorkTake, Apm!WorkSend, Apm!WorkEnd, Apm!Answered,
    Apm!Before, Apm!drvVars, Apm!fwVars
<1>4. NoCfm("work")
  BY <1>0, <1>3, NoneOnItsWay DEF Rest, NoCfm
<1>5. /\ Apm!Awaited'
      /\ \A i : Apm!Leaving("op", i)' <=> Apm!Leaving("op", i)
      /\ \A i : Apm!Leaving("work", i) <=> Apm!Removing("work", i) /\ work.reply = "none"
      /\ \A i : Apm!Leaving("work", i)' <=> Apm!Removing("work", i)' /\ work'.reply = "none"
      /\ \A i : Apm!Entering(i)' <=> Apm!Entering(i)
      /\ \A k, i : Apm!Sleepy(k, i)' <=> Apm!Sleepy(k, i)
      /\ \A k, i : Apm!Woken(k, i)' <=> Apm!Woken(k, i)
  BY <1>3, <1>4, WorkMoves DEF Rest
<1>6. CASE Apm!WorkTake
  <2>1. ASSUME UNCHANGED <<sta, sta_list, work>> PROVE Rest'
    <3>1. Apm!Commands'
      BY <1>3, <2>1 DEF Rest, Apm!Commands, Apm!Actor, Apm!Of
    <3>2. \A i \in StaIdx, a \in Apm!Actor : Apm!Leaving(a, i)' <=> Apm!Leaving(a, i)
      BY <1>5, <2>1 DEF Apm!Removing, Apm!Of, Apm!Actor
    <3>3. Apm!Places' /\ Apm!SleepOnItsWay'
      BY <1>3, <1>5, <1>6, <2>1, <3>2, SamePlaces DEF Rest, Apm!Of, Apm!Actor,
        Apm!WorkTake
    <3> QED BY <1>5, <3>1, <3>3 DEF Rest
  <2>2. ASSUME NEW i \in sta_list, Apm!Unlist(i), work = Apm!Idle, txq' = txq,
               work' = [Apm!Idle EXCEPT !.at = "del", !.mac = lost, !.idx = i]
        PROVE  Rest'
    <3>1. /\ work'.at = "del" /\ work'.idx = i /\ work'.reply = "none" /\ i \in StaIdx
          /\ sta' = [sta EXCEPT ![i].valid = FALSE, ![i].ps = FALSE]
          /\ sta_list' = sta_list \ {i}
      BY <1>2, <2>2 DEF Apm!Unlist
    <3>2. Apm!Commands'
      BY <1>0, <1>3, <2>2, <3>1 DEF Rest, Apm!Commands, Apm!Actor, Apm!Of,
        Apm!Before, Apm!After
    <3>3. \A j \in StaIdx : ~Apm!Leaving("work", j) /\ (Apm!Leaving("work", j)' <=> j = i)
      BY <1>0, <1>5, <2>2, <3>1 DEF Apm!Removing, Apm!Of
    <3>4. /\ ~sta'[i].valid /\ sta'[i].mac = sta[i].mac
          /\ \A j \in StaIdx : j # i => sta'[j] = sta[j]
      BY <3>1 DEF Apm!Station
    <3>5. Apm!Places'
      BY <1>0, <1>3, <1>5, <2>2, <3>1, <3>3, <3>4 DEF Rest, Apm!Places, Apm!Actor,
        Apm!Of, Apm!Before
    <3>6. Apm!SleepOnItsWay'
      <4>1. ~Apm!Entering(i)
        BY <2>2, <3>1 DEF Rest, Apm!Places
      <4> QED BY <1>3, <1>5, <3>1, <3>4, <4>1 DEF Rest, Apm!SleepOnItsWay
    <3> QED BY <1>5, <3>2, <3>5, <3>6 DEF Rest
  <2> QED BY <1>6, <2>1, <2>2 DEF Apm!WorkTake
<1>7. CASE Apm!WorkSend
  <2>1. /\ work.at = "del" /\ work'.at = "del_sent" /\ work'.idx = work.idx
        /\ UNCHANGED <<sta, sta_list>> /\ txq' = txq \ {work.idx}
        /\ work.idx \in StaIdx /\ work.reply = "none" /\ work'.reply = "none"
    BY <1>0, <1>1, <1>7 DEF Apm!WorkSend, Apm!Undo, Rest, Apm!Commands, Apm!Before
  <2>2. Apm!Commands'
    BY <1>0, <1>3, <2>1 DEF Rest, Apm!Commands, Apm!Actor, Apm!Of, Apm!Before, Apm!After
  <2>3. /\ \A j \in StaIdx : Apm!Leaving("work", j)' <=> Apm!Leaving("work", j)
        /\ Apm!Leaving("work", work.idx)
    BY <1>5, <2>1 DEF Apm!Removing, Apm!Of
  <2>4. Apm!Places'
    BY <1>0, <1>3, <1>5, <2>1, <2>3 DEF Rest, Apm!Places, Apm!Actor, Apm!Of,
      Apm!After, Apm!Before
  <2>5. Apm!SleepOnItsWay'
    BY <1>3, <1>5, <2>1 DEF Rest, Apm!SleepOnItsWay
  <2> QED BY <1>5, <2>2, <2>4, <2>5 DEF Rest
<1>8. CASE Apm!WorkEnd
  <2>1. /\ work' = Apm!Idle /\ work.at = "del_sent" /\ work.reply # "none"
        /\ UNCHANGED <<sta, sta_list, txq>>
    BY <1>8 DEF Apm!WorkEnd, Apm!Answered, Apm!drvVars
  <2>2. Apm!Commands'
    BY <1>0, <1>3, <2>1 DEF Rest, Apm!Commands, Apm!Actor, Apm!Of, Apm!Before, Apm!After
  <2>3. \A i \in StaIdx, a \in Apm!Actor : Apm!Leaving(a, i)' <=> Apm!Leaving(a, i)
    BY <1>0, <1>5, <2>1 DEF Apm!Removing, Apm!Of, Apm!Actor
  <2>4. Apm!Places' /\ Apm!SleepOnItsWay'
    BY <1>3, <1>5, <2>1, <2>3, SamePlaces DEF Rest, Apm!Of, Apm!Actor, Apm!Before
  <2> QED BY <1>5, <2>2, <2>4 DEF Rest
<1> QED BY <1>6, <1>7, <1>8 DEF Apm!WorkSteps

-----------------------------------------------------------------------------
(* The receive thread.                                                     *)
LEMMA ReceiveStep ==
    ASSUME Apm!ApStaAssumption, Apm!ApTypeOK, Apm!ApTypeOK', Rest, ~crashed, Apm!Receive
    PROVE  Rest'
<1> USE DEF Apm!ApTypeOK, Apm!ApStaAssumption
<1> DEFINE m == Head(msgs)
<1>1. /\ UNCHANGED <<fwSta, fwPs, crashed>> /\ msgs # <<>> /\ msgs' = Tail(msgs)
  BY DEF Apm!Receive
<1>2. /\ m = msgs[1] /\ 1 \in DOMAIN msgs /\ m \in Apm!Message
      /\ \A k \in DOMAIN msgs' :
           k \in Nat /\ k + 1 \in DOMAIN msgs /\ msgs'[k] = msgs[k + 1]
      /\ \A k \in DOMAIN msgs :
           k = 1 \/ (k - 1 \in DOMAIN msgs' /\ msgs'[k - 1] = msgs[k] /\ k \in Nat)
  BY <1>1, TakenFirst
<1>3. m.type \in {"lost", "ps", "cfm"}
  BY <1>2, MessageFields
<1>4. /\ \A a, k : k \in DOMAIN msgs' => k + 1 \in DOMAIN msgs /\ (Apm!CfmOf(a, k)' <=> Apm!CfmOf(a, k + 1))
      /\ \A i, k : k \in DOMAIN msgs' => (Apm!Sleepy(k, i)' <=> Apm!Sleepy(k + 1, i))
      /\ \A i, k : k \in DOMAIN msgs' => (Apm!Woken(k, i)' <=> Apm!Woken(k + 1, i))
  BY <1>2 DEF Apm!CfmOf, Apm!Sleepy, Apm!Woken
<1>7. ASSUME NEW k \in DOMAIN msgs, k # 1
      PROVE  /\ k - 1 \in DOMAIN msgs' /\ msgs'[k - 1] = msgs[k]
             /\ \A a : Apm!CfmOf(a, k - 1)' <=> Apm!CfmOf(a, k)
             /\ \A i : Apm!Sleepy(k - 1, i)' <=> Apm!Sleepy(k, i)
             /\ \A i : Apm!Woken(k - 1, i)' <=> Apm!Woken(k, i)
  BY <1>2, <1>7 DEF Apm!CfmOf, Apm!Sleepy, Apm!Woken
<1> HIDE DEF m
<1>5. CASE m.type # "cfm"
  <2>1. UNCHANGED <<op, work, sta_list, txq, adding_sta>>
    BY <1>3, <1>5 DEF Apm!Receive, Apm!ApmStalossInd, Apm!PsChangeInd, m,
      Apm!drvVars, Apm!actors
  <2>2. \A a \in Apm!Actor : (\E k \in DOMAIN msgs' : Apm!CfmOf(a, k)') <=> (\E k \in DOMAIN msgs : Apm!CfmOf(a, k))
    <3>1. \A a : ~Apm!CfmOf(a, 1)
      BY <1>2, <1>5 DEF Apm!CfmOf
    <3> QED BY <1>4, <1>7, <3>1
  <2>3. Apm!Awaited'
    BY <1>2, <1>4, <2>1 DEF Rest, Apm!Awaited, Apm!Of
  <2>4. Apm!Commands'
    BY <2>1 DEF Rest, Apm!Commands, Apm!Of
  <2>5. \A a \in Apm!Actor, i \in StaIdx : Apm!Leaving(a, i)' <=> Apm!Leaving(a, i)
    BY <2>1, <2>2 DEF Apm!Leaving, Apm!Removing, Apm!Told, Apm!Of, Apm!CfmOf
  <2>6. \A i \in StaIdx : Apm!Entering(i)' <=> Apm!Entering(i)
    <3>1. ~Apm!CfmOf("op", 1)
      BY <1>2, <1>5 DEF Apm!CfmOf
    <3> QED BY <1>2, <1>4, <1>7, <2>1, <3>1 DEF Apm!Entering
  <2>7. \A i \in StaIdx : sta'[i].valid = sta[i].valid /\ sta'[i].mac = sta[i].mac
    <3>1. CASE m.type = "lost"
      BY <3>1 DEF Apm!Receive, Apm!ApmStalossInd, m, Apm!drvVars
    <3>2. CASE m.type = "ps"
      <4>1. /\ m.idx \in StaIdx /\ m.ps \in BOOLEAN
            /\ sta' = sta \/ sta' = [sta EXCEPT ![m.idx].ps = m.ps]
        BY <1>2, <3>2, MessageFields DEF Apm!Receive, Apm!PsChangeInd, m
      <4> QED BY <4>1 DEF Apm!Station
    <3> QED BY <1>3, <1>5, <3>1, <3>2
  <2>8. Apm!Places'
    <3>1. \A a \in Apm!Actor : Apm!Of(a)' = Apm!Of(a)
      BY <2>1 DEF Apm!Of
    <3>2. Apm!Places
      BY DEF Rest
    <3> QED BY <1>1, <2>1, <2>5, <2>6, <2>7, <3>1, <3>2 DEF Apm!Places, Apm!Actor
  <2>9. ASSUME NEW i \in fwPs, sta[i].valid \/ Apm!Entering(i)
        PROVE  sta'[i].ps \/ (op.at = "add" /\ op.idx = i /\ op.reply = "asleep")
                 \/ \E k \in DOMAIN msgs' : Apm!Sleepy(k, i)'
    <3>1. CASE \E k \in DOMAIN msgs : k # 1 /\ Apm!Sleepy(k, i)
      BY <1>7, <3>1
    <3>2. CASE \A k \in DOMAIN msgs : k # 1 => ~Apm!Sleepy(k, i)
      <4>1. ~Apm!Woken(1, i)
        BY <1>2, <2>9, <3>2 DEF Rest, Apm!SleepOnItsWay
      <4>2. CASE Apm!Sleepy(1, i)
        <5>1. m.type = "ps" /\ m.idx = i /\ m.ps
          BY <1>2, <1>5, <4>2 DEF Apm!Sleepy, Apm!CfmOf
        <5>2. sta[i].valid \/ adding_sta
          BY <2>9 DEF Apm!Entering, Rest, Apm!Commands
        <5>3. sta' = [sta EXCEPT ![i].ps = m.ps]
          BY <5>1, <5>2 DEF Apm!Receive, Apm!PsChangeInd, m
        <5> QED BY <5>1, <5>3 DEF Apm!Station
      <4>3. CASE ~Apm!Sleepy(1, i)
        <5>1. \/ sta[i].ps
              \/ op.at = "add" /\ op.idx = i /\ op.reply = "asleep"
          BY <2>9, <3>2, <4>3 DEF Rest, Apm!SleepOnItsWay
        <5>2. ~(m.type = "ps" /\ m.idx = i)
          <6>1. m.type = "ps" => m.ps \in BOOLEAN
            BY <1>2, MessageFields
          <6> QED BY <1>2, <4>1, <4>3, <6>1 DEF Apm!Sleepy, Apm!Woken
        <5>3. sta'[i] = sta[i]
          <6>1. CASE m.type = "lost"
            BY <6>1 DEF Apm!Receive, Apm!ApmStalossInd, m, Apm!drvVars
          <6>2. CASE m.type = "ps"
            <7>1. /\ m.idx \in StaIdx /\ m.idx # i
                  /\ sta' = sta \/ sta' = [sta EXCEPT ![m.idx].ps = m.ps]
              BY <1>2, <5>2, <6>2, MessageFields DEF Apm!Receive, Apm!PsChangeInd, m
            <7> QED BY <7>1
          <6> QED BY <1>3, <1>5, <6>1, <6>2
        <5> QED BY <5>1, <5>3
      <4> QED BY <4>2, <4>3
    <3> QED BY <3>1, <3>2
  <2>10. ASSUME NEW i \in fwPs, sta[i].valid \/ Apm!Entering(i), NEW k \in DOMAIN msgs', Apm!Woken(k, i)'
         PROVE  \E j \in DOMAIN msgs' : j > k /\ Apm!Sleepy(j, i)'
    <3>1. k + 1 \in DOMAIN msgs /\ Apm!Woken(k + 1, i) /\ k \in Nat
      BY <1>2, <1>4, <2>10
    <3>2. PICK j \in DOMAIN msgs : j > k + 1 /\ Apm!Sleepy(j, i)
      BY <2>10, <3>1 DEF Rest, Apm!SleepOnItsWay
    <3>3. j # 1 /\ j \in Nat /\ j - 1 > k
      BY <1>2, <3>1, <3>2
    <3> QED BY <1>7, <3>2, <3>3
  <2>11. Apm!SleepOnItsWay'
    BY <1>1, <2>1, <2>6, <2>7, <2>9, <2>10 DEF Rest, Apm!SleepOnItsWay
  <2> QED BY <2>3, <2>4, <2>8, <2>11 DEF Rest
<1>6. CASE m.type = "cfm"
  <2>0. PICK a \in Apm!Actor : a = m.to
    BY <1>2, <1>6, MessageFields
  <2>1. Apm!CfmOf(a, 1) /\ UNCHANGED <<sta, sta_list, txq, adding_sta>>
    BY <1>2, <1>6, <2>0 DEF Apm!CfmOf, Apm!Receive, Apm!Confirm, m, Apm!drvVars
  <2>2. /\ Apm!Of(a).reply = "none" /\ Apm!Of(a).at \in {"start", "stop", "add"} \cup Apm!After
        /\ IF Apm!Of(a).at = "add"
             THEN \/ m.reply \in Apm!Added /\ m.idx \in StaIdx
                  \/ m.reply = "full" /\ m.idx = None
             ELSE m.reply \in {"ok", "busy"} /\ m.idx = None
    BY <1>2, <2>1 DEF Rest, Apm!Awaited
  <2>3. /\ \A k \in DOMAIN msgs' : ~Apm!CfmOf(a, k)'
        /\ \A b \in Apm!Actor : b # a =>
             ((\E k \in DOMAIN msgs' : Apm!CfmOf(b, k)') <=> (\E k \in DOMAIN msgs : Apm!CfmOf(b, k)))
    <3>1. \A k \in DOMAIN msgs : Apm!CfmOf(a, k) => k = 1
      BY <1>2, <2>1 DEF Rest, Apm!Awaited
    <3>2. \A b \in Apm!Actor : b # a => ~Apm!CfmOf(b, 1)
      BY <1>2, <2>0 DEF Apm!CfmOf
    <3>3. \A k \in DOMAIN msgs' : k \in Nat /\ k \in 1..Len(msgs')
      BY <1>2
    <3>4. \A k \in DOMAIN msgs' : ~Apm!CfmOf(a, k)'
      BY <1>4, <3>1, <3>3
    <3> QED BY <1>4, <1>7, <3>2, <3>4
  <2>4. /\ Apm!Of(a)'.at = Apm!Of(a).at /\ Apm!Of(a)'.mac = Apm!Of(a).mac /\ Apm!Of(a)'.reply = m.reply
        /\ \A b \in Apm!Actor : b # a => Apm!Of(b)' = Apm!Of(b)
        /\ Apm!Of(a)'.idx = IF a = "op" /\ m.idx # None THEN m.idx ELSE Apm!Of(a).idx
    BY <1>6, <2>0, ZenonT(60) DEF Apm!Receive, Apm!Confirm, m, Apm!Of, Apm!Actor, Apm!Operation
  <2>5. Apm!Awaited'
    <3>1. ASSUME NEW b \in Apm!Actor, NEW k \in DOMAIN msgs', Apm!CfmOf(b, k)'
          PROVE  /\ b # a /\ k \in Nat /\ k + 1 \in DOMAIN msgs /\ Apm!CfmOf(b, k + 1)
                 /\ Apm!Of(b)' = Apm!Of(b) /\ msgs'[k] = msgs[k + 1]
      BY <1>2, <1>4, <2>3, <2>4, <3>1
    <3>2. Apm!Awaited
      BY DEF Rest
    <3>3. ASSUME NEW b \in Apm!Actor, NEW k \in DOMAIN msgs', NEW j \in DOMAIN msgs',
                 Apm!CfmOf(b, k)', Apm!CfmOf(b, j)'
          PROVE  k = j
      <4>1. k + 1 = j + 1 /\ k \in Nat /\ j \in Nat
        BY <3>1, <3>2, <3>3 DEF Apm!Awaited
      <4> QED BY <4>1
    <3> QED BY <3>1, <3>2, <3>3 DEF Apm!Awaited
  <2>6. Apm!Commands'
    <3>1. CASE a = "work"
      <4>1. op' = op /\ work'.at = work.at /\ work'.idx = work.idx /\ work'.reply = m.reply
        BY <2>4, <3>1 DEF Apm!Of, Apm!Actor
      <4>2. work.at \in Apm!After /\ m.reply \in {"ok", "busy"}
        BY <2>2, <3>1 DEF Rest, Apm!Commands, Apm!Of, Apm!After
      <4> QED BY <2>1, <4>1, <4>2 DEF Rest, Apm!Commands, Apm!Of, Apm!Actor,
                Apm!Before, Apm!After
    <3>2. CASE a = "op"
      <4>1. /\ work' = work /\ op'.at = op.at /\ op'.mac = op.mac /\ op'.reply = m.reply
            /\ op'.idx = IF m.idx # None THEN m.idx ELSE op.idx
        BY <2>4, <3>2 DEF Apm!Of, Apm!Actor
      <4>2. /\ op.reply = "none" /\ op.at \in {"start", "stop", "add"} \cup Apm!After
            /\ IF op.at = "add"
                 THEN \/ m.reply \in Apm!Added /\ m.idx \in StaIdx
                      \/ m.reply = "full" /\ m.idx = None
                 ELSE m.reply \in {"ok", "busy"} /\ m.idx = None
        BY <2>2, <3>2 DEF Apm!Of
      <4> QED BY <2>1, <4>1, <4>2 DEF Rest, Apm!Commands, Apm!Of, Apm!Actor,
                Apm!Before, Apm!After, Apm!Added
    <3> QED BY <3>1, <3>2 DEF Apm!Actor
  <2>7. \A b \in Apm!Actor, i \in StaIdx : Apm!Leaving(b, i)' <=> Apm!Leaving(b, i)
    <3>1. Apm!Told(a) /\ Apm!Told(a)'
      BY <1>2, <2>1, <2>2, <2>4 DEF Apm!Told, Apm!CfmOf, Apm!Added
    <3>2. \A b \in Apm!Actor, i \in StaIdx : b # a =>
            (Apm!Removing(b, i)' <=> Apm!Removing(b, i)) /\ (Apm!Told(b)' <=> Apm!Told(b))
      BY <2>3, <2>4 DEF Apm!Removing, Apm!Told, Apm!CfmOf
    <3> QED BY <3>1, <3>2 DEF Apm!Leaving
  <2>8. \A i \in StaIdx : Apm!Entering(i)' <=> Apm!Entering(i)
    <3>1. CASE a = "work"
      <4>1. op' = op /\ ~Apm!CfmOf("op", 1)
        BY <1>2, <2>0, <2>4, <3>1 DEF Apm!Of, Apm!Actor, Apm!CfmOf
      <4>2. ASSUME NEW i \in StaIdx, NEW k \in DOMAIN msgs', Apm!CfmOf("op", k)', msgs'[k].idx = i
            PROVE  \E j \in DOMAIN msgs : Apm!CfmOf("op", j) /\ msgs[j].idx = i
        BY <1>2, <1>4, <4>2
      <4>3. ASSUME NEW i \in StaIdx, NEW k \in DOMAIN msgs, Apm!CfmOf("op", k), msgs[k].idx = i
            PROVE  \E j \in DOMAIN msgs' : Apm!CfmOf("op", j)' /\ msgs'[j].idx = i
        BY <1>7, <4>1, <4>3
      <4> QED BY <4>1, <4>2, <4>3 DEF Apm!Entering
    <3>2. CASE a = "op"
      <4>1. /\ op'.at = op.at /\ op.reply = "none"
            /\ op'.idx = IF m.idx # None THEN m.idx ELSE op.idx
        BY <2>2, <2>4, <3>2 DEF Apm!Of
      <4>2. op.at = "add" => op.idx = None
        BY <4>1 DEF Rest, Apm!Commands, Apm!Added
      <4>3. \A k \in DOMAIN msgs : Apm!CfmOf("op", k) => k = 1
        BY <1>2, <2>1, <3>2 DEF Rest, Apm!Awaited
      <4>4. \A i \in StaIdx : Apm!Entering(i) <=> op.at = "add" /\ m.idx = i
        BY <1>2, <2>1, <3>2, <4>2, <4>3 DEF Apm!Entering
      <4>5. \A i \in StaIdx : Apm!Entering(i)' <=> op'.at = "add" /\ op'.idx = i
        BY <2>3, <3>2 DEF Apm!Entering
      <4> QED BY <4>1, <4>2, <4>4, <4>5
    <3> QED BY <3>1, <3>2 DEF Apm!Actor
  <2>9. Apm!Places'
    <3>1. \A b \in Apm!Actor : Apm!Of(b)'.at = Apm!Of(b).at /\ (Apm!Of(b).at \in Apm!Before => Apm!Of(b)'.idx = Apm!Of(b).idx)
      BY <2>2, <2>4 DEF Apm!Before, Apm!After
    <3>2. op'.mac = op.mac
      BY <2>4 DEF Apm!Of, Apm!Actor
    <3>3. Apm!Places
      BY DEF Rest
    <3> QED BY <1>1, <2>1, <2>7, <2>8, <3>1, <3>2, <3>3 DEF Apm!Places, Apm!Actor
  <2>10. Apm!SleepOnItsWay'
    <3>1. ASSUME NEW i \in fwPs, sta[i].valid \/ Apm!Entering(i), ~sta[i].ps
          PROVE  \/ op'.at = "add" /\ op'.idx = i /\ op'.reply = "asleep"
                 \/ \E k \in DOMAIN msgs' : Apm!Sleepy(k, i)'
      <4>1. CASE op.at = "add" /\ op.idx = i /\ op.reply = "asleep"
        <5>1. a # "op"
          BY <2>2, <4>1 DEF Apm!Of
        <5> QED BY <2>4, <4>1, <5>1 DEF Apm!Of, Apm!Actor
      <4>2. CASE \E k \in DOMAIN msgs : k # 1 /\ Apm!Sleepy(k, i)
        BY <1>7, <4>2
      <4>3. CASE Apm!Sleepy(1, i)
        <5>1. a = "op" /\ m.idx = i /\ m.reply = "asleep"
          BY <1>2, <1>6, <2>0, <4>3 DEF Apm!Sleepy, Apm!CfmOf
        <5>2. op.at = "add" /\ i # None
          BY <2>2, <5>1 DEF Apm!Of
        <5> QED BY <2>4, <5>1, <5>2 DEF Apm!Of
      <4> QED BY <3>1, <4>1, <4>2, <4>3 DEF Rest, Apm!SleepOnItsWay
    <3>2. ASSUME NEW i \in fwPs, sta[i].valid \/ Apm!Entering(i), NEW k \in DOMAIN msgs',
                 Apm!Woken(k, i)'
          PROVE  \E j \in DOMAIN msgs' : j > k /\ Apm!Sleepy(j, i)'
      <4>1. k + 1 \in DOMAIN msgs /\ Apm!Woken(k + 1, i) /\ k \in Nat
        BY <1>2, <1>4, <3>2
      <4>2. PICK j \in DOMAIN msgs : j > k + 1 /\ Apm!Sleepy(j, i)
        BY <3>2, <4>1 DEF Rest, Apm!SleepOnItsWay
      <4>3. j # 1 /\ j \in Nat /\ j - 1 > k
        BY <1>2, <4>1, <4>2
      <4> QED BY <1>7, <4>2, <4>3
    <3> QED BY <1>1, <2>1, <2>8, <3>1, <3>2 DEF Rest, Apm!SleepOnItsWay
  <2> QED BY <2>5, <2>6, <2>9, <2>10 DEF Rest
<1> QED BY <1>5, <1>6

-----------------------------------------------------------------------------
(* The firmware.                                                           *)
LEMMA FirmwareStep ==
    ASSUME Apm!ApStaAssumption, Apm!ApTypeOK, Apm!ApTypeOK', Rest, ~crashed,
           Apm!FwAnswers \/ \E i \in StaIdx : Apm!FwPs(i) \/ Apm!FwLost(i)
    PROVE  Rest'
<1> USE DEF Apm!ApTypeOK, Apm!ApStaAssumption
<1>1. UNCHANGED <<sta, sta_list, txq, adding_sta, op, work, crashed>>
  BY DEF Apm!FwAnswers, Apm!FwAdd, Apm!FwApm, Apm!FwDel, Apm!FwPs, Apm!FwLost,
    Apm!drvVars, Apm!actors
<1>2. Apm!Commands' /\ \A a \in Apm!Actor : Apm!Of(a)' = Apm!Of(a)
  BY <1>1 DEF Rest, Apm!Commands, Apm!Of
<1> PICK n \in Nat : n = Len(msgs) + 1
  OBVIOUS
(* One more message.                                                       *)
<1>3. ASSUME NEW m \in Apm!Message, msgs' = Append(msgs, m)
      PROVE  /\ n \in Nat /\ n \in DOMAIN msgs' /\ n \notin DOMAIN msgs /\ msgs'[n] = m
             /\ \A k \in DOMAIN msgs' : k \in DOMAIN msgs \/ k = n
             /\ \A k \in DOMAIN msgs : /\ k \in DOMAIN msgs' /\ k < n /\ k \in Nat
                                       /\ msgs'[k] = msgs[k]
             /\ \A a : \A k \in DOMAIN msgs : Apm!CfmOf(a, k)' <=> Apm!CfmOf(a, k)
             /\ \A i : \A k \in DOMAIN msgs : Apm!Sleepy(k, i)' <=> Apm!Sleepy(k, i)
             /\ \A i : \A k \in DOMAIN msgs : Apm!Woken(k, i)' <=> Apm!Woken(k, i)
  <2>1. /\ Len(msgs) \in Nat /\ DOMAIN msgs = 1..Len(msgs)
        /\ DOMAIN msgs' = 1..n /\ msgs'[n] = m
        /\ \A k \in DOMAIN msgs : msgs'[k] = msgs[k]
    BY <1>3, AddedLast
  <2> QED BY <2>1 DEF Apm!CfmOf, Apm!Sleepy, Apm!Woken
(* An indication confirms nothing.                                         *)
<1>4. ASSUME NEW m \in Apm!Message, msgs' = Append(msgs, m), m.type # "cfm", fwSta' = fwSta
      PROVE  /\ Apm!Awaited' /\ Apm!Places'
             /\ \A i \in StaIdx : Apm!Entering(i)' <=> Apm!Entering(i)
  <2>1. \A a : ~Apm!CfmOf(a, n)'
    BY <1>3, <1>4 DEF Apm!CfmOf
  <2>2. Apm!Awaited'
    BY <1>1, <1>2, <1>3, <1>4, <2>1 DEF Rest, Apm!Awaited
  <2>3. \A i \in StaIdx : Apm!Entering(i)' <=> Apm!Entering(i)
    BY <1>1, <1>3, <1>4, <2>1 DEF Apm!Entering
  <2>4. \A a \in Apm!Actor, i \in StaIdx : Apm!Leaving(a, i)' <=> Apm!Leaving(a, i)
    <3>1. \A a \in Apm!Actor : (\E k \in DOMAIN msgs' : Apm!CfmOf(a, k)') <=> (\E k \in DOMAIN msgs : Apm!CfmOf(a, k))
      BY <1>3, <1>4, <2>1
    <3> QED BY <1>2, <3>1 DEF Apm!Leaving, Apm!Removing, Apm!Told, Apm!CfmOf
  <2>5. Apm!Places'
    <3>1. Apm!Places
      BY DEF Rest
    <3> QED BY <1>1, <1>2, <1>4, <2>3, <2>4, <3>1 DEF Apm!Places, Apm!Actor
  <2> QED BY <2>2, <2>3, <2>5
<1>5. ASSUME NEW i \in StaIdx, Apm!FwLost(i) PROVE Rest'
  <2>1. PICK m \in Apm!Message : m.type = "lost" /\ msgs' = Append(msgs, m)
    <3>1. [type |-> "lost", mac |-> fwSta[i]] \in Apm!Message
      BY DEF Apm!Message
    <3> QED BY <1>5, <3>1 DEF Apm!FwLost
  <2>2. fwSta' = fwSta /\ fwPs' = fwPs
    BY <1>5 DEF Apm!FwLost
  <2>3. \A j : ~Apm!Sleepy(n, j)' /\ ~Apm!Woken(n, j)'
    BY <1>3, <2>1 DEF Apm!Sleepy, Apm!Woken, Apm!CfmOf
  <2>4. Apm!Awaited' /\ Apm!Places' /\ \A j \in StaIdx : Apm!Entering(j)' <=> Apm!Entering(j)
    BY <1>4, <2>1, <2>2
  <2>5. Apm!SleepOnItsWay'
    BY <1>1, <1>3, <2>1, <2>2, <2>3, <2>4 DEF Rest, Apm!SleepOnItsWay
  <2> QED BY <1>2, <2>4, <2>5 DEF Rest
<1>6. ASSUME NEW i \in StaIdx, Apm!FwPs(i) PROVE Rest'
  <2>1. PICK m \in Apm!Message : /\ m.type = "ps" /\ m.idx = i /\ m.ps = (i \notin fwPs)
                             /\ msgs' = Append(msgs, m)
    <3>1. [type |-> "ps", idx |-> i, ps |-> i \notin fwPs] \in Apm!Message
      BY DEF Apm!Message
    <3> QED BY <1>6, <3>1 DEF Apm!FwPs
  <2>2. /\ fwSta' = fwSta /\ fwSta[i] # None
        /\ fwPs' = (fwPs \cup {i}) \ (fwPs \cap {i})
    BY <1>6 DEF Apm!FwPs
  <2>3. \A j : /\ j # i => ~Apm!Sleepy(n, j)' /\ ~Apm!Woken(n, j)'
               /\ i \notin fwPs => Apm!Sleepy(n, i)' /\ ~Apm!Woken(n, i)'
    BY <1>3, <2>1 DEF Apm!Sleepy, Apm!Woken, Apm!CfmOf
  <2>4. Apm!Awaited' /\ Apm!Places' /\ \A j \in StaIdx : Apm!Entering(j)' <=> Apm!Entering(j)
    BY <1>4, <2>1, <2>2
  <2>5. Apm!SleepOnItsWay'
    BY <1>1, <1>3, <2>1, <2>2, <2>3, <2>4 DEF Rest, Apm!SleepOnItsWay
  <2> QED BY <1>2, <2>4, <2>5 DEF Rest
(* A confirmation.                                                         *)
<1>7. ASSUME NEW a \in Apm!Actor, NEW at, Apm!FwTaken(a, at),
             NEW r, NEW i \in StaIdx \cup {None}, Apm!CfmMsg(a, r, i) \in Apm!Message,
             msgs' = Append(msgs, Apm!CfmMsg(a, r, i)),
             at \in {"start", "stop", "add"} \cup Apm!After,
             IF at = "add" THEN \/ r \in Apm!Added /\ i \in StaIdx
                                \/ r = "full" /\ i = None
                           ELSE r \in {"ok", "busy"} /\ i = None
      PROVE  /\ Apm!Awaited' /\ ~Apm!Told(a) /\ Apm!Told(a)'
             /\ \A b \in Apm!Actor, j \in StaIdx :
                  Apm!Leaving(b, j)' <=> Apm!Leaving(b, j) /\ b # a
             /\ \A j \in StaIdx : Apm!Entering(j)' <=> Apm!Entering(j) \/ (at = "add" /\ i = j)
             /\ at = "add" => \A j \in StaIdx : ~Apm!Entering(j)
  <2>1. /\ \A k \in DOMAIN msgs : ~Apm!CfmOf(a, k)
        /\ Apm!Of(a).at = at /\ Apm!Of(a).reply = "none"
    BY <1>7 DEF Apm!FwTaken, Apm!Waits, Apm!CfmOf
  <2>2. Apm!CfmOf(a, n)' /\ (\A b : b # a => ~Apm!CfmOf(b, n)') /\ msgs'[n].reply = r /\ msgs'[n].idx = i
    BY <1>3, <1>7 DEF Apm!CfmOf, Apm!CfmMsg
  <2>3. Apm!Awaited'
    BY <1>2, <1>3, <1>7, <2>1, <2>2 DEF Rest, Apm!Awaited
  <2>4. ~Apm!Told(a) /\ Apm!Told(a)'
    BY <1>3, <1>7, <2>1, <2>2 DEF Apm!Told, Apm!CfmOf
  <2>5. \A b \in Apm!Actor, j \in StaIdx : Apm!Leaving(b, j)' <=> Apm!Leaving(b, j) /\ b # a
    <3>1. \A b \in Apm!Actor : b # a =>
            ((\E k \in DOMAIN msgs' : Apm!CfmOf(b, k)') <=> (\E k \in DOMAIN msgs : Apm!CfmOf(b, k)))
      BY <1>3, <1>7, <2>2
    <3> QED BY <1>2, <2>4, <3>1 DEF Apm!Leaving, Apm!Removing, Apm!Told, Apm!CfmOf
  <2>6. /\ \A j \in StaIdx : Apm!Entering(j)' <=> Apm!Entering(j) \/ (at = "add" /\ i = j)
        /\ at = "add" => \A j \in StaIdx : ~Apm!Entering(j)
    <3>1. CASE a = "op"
      <4>1. \A k \in DOMAIN msgs : ~Apm!CfmOf("op", k)
        BY <2>1, <3>1
      <4>2. op.at = at /\ op.reply = "none" /\ (at = "add" => op.idx = None)
        BY <2>1, <3>1 DEF Apm!Of, Rest, Apm!Commands, Apm!Added
      <4>3. \A j \in StaIdx : ~Apm!Entering(j)
        BY <4>1, <4>2 DEF Apm!Entering
      <4>4. \A k \in DOMAIN msgs' : Apm!CfmOf("op", k)' => k = n
        BY <1>3, <1>7, <4>1
      <4>5. \A j \in StaIdx : Apm!Entering(j)' <=> at = "add" /\ i = j
        BY <1>1, <1>3, <1>7, <2>2, <3>1, <4>2, <4>4 DEF Apm!Entering
      <4> QED BY <4>3, <4>5
    <3>2. CASE a = "work"
      <4>1. at # "add" /\ ~Apm!CfmOf("op", n)'
        BY <2>1, <2>2, <3>2 DEF Apm!Of, Rest, Apm!Commands
      <4> QED BY <1>1, <1>3, <1>7, <4>1 DEF Apm!Entering
    <3> QED BY <3>1, <3>2 DEF Apm!Actor
  <2> QED BY <2>3, <2>4, <2>5, <2>6
(* ... of a station that was added or not, ...                             *)
<1>8. CASE Apm!FwAdd
  <2>1. Apm!FwTaken("op", "add") /\ "op" \in Apm!Actor /\ op.at = "add" /\ op.mac \in Mac
    BY <1>8 DEF Apm!FwAdd, Apm!FwTaken, Apm!Waits, Apm!Of, Apm!Actor, Rest, Apm!Commands
  <2>2. ASSUME NEW i \in StaIdx, NEW r \in Apm!Added, fwSta[i] = None,
               fwSta' = [fwSta EXCEPT ![i] = op.mac],
               fwPs' = IF r = "asleep" THEN fwPs \cup {i} ELSE fwPs,
               msgs' = Append(msgs, Apm!CfmMsg("op", r, i))
        PROVE  Rest'
    <3>1. Apm!CfmMsg("op", r, i) \in Apm!Message
      BY <2>1 DEF Apm!CfmMsg, Apm!Message
    <3>2. /\ Apm!Awaited'
          /\ \A b \in Apm!Actor, j \in StaIdx : Apm!Leaving(b, j)' <=> Apm!Leaving(b, j) /\ b # "op"
          /\ \A j \in StaIdx : Apm!Entering(j)' <=> i = j
          /\ \A j \in StaIdx : ~Apm!Entering(j)
      BY <1>7, <2>1, <2>2, <3>1
    <3>3. \A j \in StaIdx : ~Apm!Leaving("op", j)
      BY <2>1 DEF Apm!Leaving, Apm!Removing, Apm!Of
    <3>4. Apm!Places'
      <4>1. Apm!Places
        BY DEF Rest
      <4>2. ~sta[i].valid /\ \A b \in Apm!Actor : ~Apm!Leaving(b, i)
        BY <2>2, <4>1 DEF Apm!Places
      <4>3. fwSta'[i] = op.mac /\ \A j \in StaIdx : j # i => fwSta'[j] = fwSta[j]
        BY <2>2
      <4> QED BY <1>1, <1>2, <2>1, <3>2, <3>3, <4>1, <4>2, <4>3 DEF Apm!Places,
                Apm!Actor
    <3>5. /\ \A j : ~Apm!Woken(n, j)'
          /\ r = "asleep" => Apm!Sleepy(n, i)'
      BY <1>3, <2>2, <3>1 DEF Apm!Sleepy, Apm!Woken, Apm!CfmOf, Apm!CfmMsg
    <3>6. Apm!SleepOnItsWay'
      <4>1. i \notin fwPs
        BY <2>2 DEF Rest, Apm!SleepOnItsWay
      <4>2. ASSUME NEW j \in fwPs', j # i, sta[j].valid
            PROVE  /\ sta[j].ps \/ \E k \in DOMAIN msgs' : Apm!Sleepy(k, j)'
                   /\ \A k \in DOMAIN msgs' : Apm!Woken(k, j)' =>
                        \E l \in DOMAIN msgs' : l > k /\ Apm!Sleepy(l, j)'
        <5>1. j \in fwPs /\ ~Apm!Entering(j)
          BY <2>2, <3>2, <4>2
        <5>2. sta[j].ps \/ \E k \in DOMAIN msgs : Apm!Sleepy(k, j)
          BY <2>1, <4>2, <5>1 DEF Rest, Apm!SleepOnItsWay, Apm!Entering
        <5>3. \A k \in DOMAIN msgs : Apm!Woken(k, j) =>
                \E l \in DOMAIN msgs : l > k /\ Apm!Sleepy(l, j)
          BY <4>2, <5>1 DEF Rest, Apm!SleepOnItsWay
        <5> QED BY <1>3, <2>2, <3>1, <3>5, <5>2, <5>3
      <4>3. ASSUME i \in fwPs'
            PROVE  /\ \E k \in DOMAIN msgs' : Apm!Sleepy(k, i)'
                   /\ \A k \in DOMAIN msgs' : Apm!Woken(k, i)' =>
                        \E l \in DOMAIN msgs' : l > k /\ Apm!Sleepy(l, i)'
        <5>1. Apm!Sleepy(n, i)'
          BY <2>2, <3>5, <4>1, <4>3
        <5> QED BY <1>3, <2>2, <3>1, <3>5, <5>1
      <4>4. \A j \in fwPs' : fwSta'[j] # None
        BY <2>1, <2>2 DEF Rest, Apm!SleepOnItsWay
      <4> QED BY <1>1, <3>2, <4>2, <4>3, <4>4 DEF Apm!SleepOnItsWay
    <3> QED BY <1>2, <3>2, <3>4, <3>6 DEF Rest
  <2>3. ASSUME msgs' = Append(msgs, Apm!CfmMsg("op", "full", None)), UNCHANGED <<fwSta, fwPs>>
        PROVE  Rest'
    <3>1. Apm!CfmMsg("op", "full", None) \in Apm!Message
      BY <2>1 DEF Apm!CfmMsg, Apm!Message, Apm!Reply, Apm!Added
    <3>2. /\ Apm!Awaited'
          /\ \A b \in Apm!Actor, j \in StaIdx : Apm!Leaving(b, j)' <=> Apm!Leaving(b, j) /\ b # "op"
          /\ \A j \in StaIdx : ~Apm!Entering(j)' /\ ~Apm!Entering(j)
      BY <1>7, <2>1, <2>3, <3>1
    <3>3. \A j \in StaIdx : ~Apm!Leaving("op", j)
      BY <2>1 DEF Apm!Leaving, Apm!Removing, Apm!Of
    <3>4. Apm!Places'
      <4>1. Apm!Places
        BY DEF Rest
      <4> QED BY <1>1, <1>2, <2>3, <3>2, <3>3, <4>1 DEF Apm!Places, Apm!Actor
    <3>5. \A j : ~Apm!Woken(n, j)'
      BY <1>3, <2>3, <3>1 DEF Apm!Woken, Apm!CfmMsg
    <3>6. Apm!SleepOnItsWay'
      BY <1>1, <1>3, <2>3, <3>1, <3>2, <3>5 DEF Rest, Apm!SleepOnItsWay
    <3> QED BY <1>2, <3>2, <3>4, <3>6 DEF Rest
  <2> QED BY <1>8, <2>2, <2>3 DEF Apm!FwAdd, Apm!Added
(* ... of the access point's start or stop, ...                            *)
<1>9. ASSUME NEW at \in {"start", "stop"}, Apm!FwApm(at) PROVE Rest'
  <2>1. PICK r \in {"ok", "busy"} : msgs' = Append(msgs, Apm!CfmMsg("op", r, None))
    BY <1>9 DEF Apm!FwApm
  <2>2. Apm!FwTaken("op", at) /\ "op" \in Apm!Actor /\ op.at = at /\ UNCHANGED <<fwSta, fwPs>>
    BY <1>9 DEF Apm!FwApm, Apm!FwTaken, Apm!Waits, Apm!Of, Apm!Actor
  <2>3. Apm!CfmMsg("op", r, None) \in Apm!Message
    BY <2>2 DEF Apm!CfmMsg, Apm!Message, Apm!Reply, Apm!Added
  <2>4. /\ Apm!Awaited'
        /\ \A b \in Apm!Actor, j \in StaIdx : Apm!Leaving(b, j)' <=> Apm!Leaving(b, j) /\ b # "op"
        /\ \A j \in StaIdx : Apm!Entering(j)' <=> Apm!Entering(j)
    BY <1>7, <2>1, <2>2, <2>3
  <2>5. \A j \in StaIdx : ~Apm!Leaving("op", j)
    BY <2>2 DEF Apm!Leaving, Apm!Removing, Apm!Of
  <2>6. Apm!Places'
    <3>1. Apm!Places
      BY DEF Rest
    <3> QED BY <1>1, <1>2, <2>2, <2>4, <2>5, <3>1 DEF Apm!Places, Apm!Actor
  <2>7. \A j : ~Apm!Woken(n, j)'
    BY <1>3, <2>1, <2>3 DEF Apm!Woken, Apm!CfmMsg
  <2>8. Apm!SleepOnItsWay'
    BY <1>1, <1>3, <2>1, <2>2, <2>3, <2>4, <2>7 DEF Rest, Apm!SleepOnItsWay
  <2> QED BY <1>2, <2>4, <2>6, <2>8 DEF Rest
(* ... and of a station that was removed.                                  *)
<1>10. ASSUME NEW a \in Apm!Actor, NEW at \in Apm!After, Apm!FwDel(a, at) PROVE Rest'
  <2> DEFINE i == Apm!Of(a).idx
  <2>1. /\ Apm!FwTaken(a, at) /\ Apm!Of(a).at = at /\ i \in StaIdx
        /\ fwSta' = [fwSta EXCEPT ![i] = None] /\ fwPs' = fwPs \ {i}
        /\ msgs' = Append(msgs, Apm!CfmMsg(a, "ok", None))
    BY <1>10 DEF Apm!FwDel, Apm!FwTaken, Apm!Waits, Rest, Apm!Commands
  <2>2. Apm!CfmMsg(a, "ok", None) \in Apm!Message
    BY DEF Apm!CfmMsg, Apm!Message, Apm!Reply, Apm!Added
  <2>3. /\ Apm!Awaited' /\ ~Apm!Told(a)
        /\ \A b \in Apm!Actor, j \in StaIdx : Apm!Leaving(b, j)' <=> Apm!Leaving(b, j) /\ b # a
        /\ \A j \in StaIdx : Apm!Entering(j)' <=> Apm!Entering(j)
    BY <1>7, <2>1, <2>2 DEF Apm!After
  <2>4. \A j \in StaIdx : Apm!Leaving(a, j) <=> j = i
    BY <2>1, <2>3 DEF Apm!Leaving, Apm!Removing, Apm!After
  <2> HIDE DEF i
  <2>5. Apm!Places'
    <3>1. Apm!Places
      BY DEF Rest
    <3>2. /\ ~sta[i].valid /\ ~Apm!Entering(i) /\ \A b \in Apm!Actor : b # a => ~Apm!Leaving(b, i)
      BY <2>1, <2>4, <3>1 DEF Apm!Places, Apm!Actor
    <3>3. fwSta'[i] = None /\ \A j \in StaIdx : j # i => fwSta'[j] = fwSta[j]
      BY <2>1
    <3> QED BY <1>1, <1>2, <2>1, <2>3, <2>4, <3>1, <3>2, <3>3 DEF Apm!Places, Apm!Actor
  <2>6. \A j : ~Apm!Woken(n, j)'
    BY <1>3, <2>1, <2>2 DEF Apm!Woken, Apm!CfmMsg
  <2>7. Apm!SleepOnItsWay'
    <3>1. \A j \in StaIdx : j # i => fwSta'[j] = fwSta[j]
      BY <2>1
    <3> QED BY <1>1, <1>3, <2>1, <2>2, <2>3, <2>6, <3>1 DEF Rest, Apm!SleepOnItsWay
  <2> QED BY <1>2, <2>3, <2>5, <2>7 DEF Rest
<1> QED BY <1>5, <1>6, <1>8, <1>9, <1>10 DEF Apm!FwAnswers, Apm!Actor, Apm!After

-----------------------------------------------------------------------------
(* While the command manager is not crashed the tables of stations agree:  *)
(* an entry of sta_table is valid just when it is listed, has its queues   *)
(* and is the firmware's station of that index, unless one actor enters or *)
(* removes it; ME_STA_DEL_REQ never names an index that was given to       *)
(* somebody else; and a station that the firmware knows asleep is asleep   *)
(* for the driver too, however add_station, del_station, stop_ap, the work *)
(* item and the receive thread interleave.                                 *)
THEOREM StationTablesAgree ==
    ASSUME Apm!ApStaAssumption
    PROVE  Apm!Spec => []Apm!StationTables
<1>1. Apm!Init => Apm!ApInv
  <2> SUFFICES ASSUME Apm!Init PROVE Apm!ApInv
    OBVIOUS
  <2>1. /\ Apm!Idle \in Apm!Operation /\ Apm!Idle.reply = "none" /\ Apm!Idle.at = "idle"
        /\ Apm!Free \in Apm!Station /\ ~Apm!Free.valid
    BY DEF Apm!Idle, Apm!Operation, Apm!Free, Apm!Station, Apm!Reply
  <2>2. Apm!ApTypeOK
    <3>1. msgs \in Seq(Apm!Message) /\ sta \in [StaIdx -> Apm!Station]
          /\ fwSta \in [StaIdx -> Mac \cup {None}]
      BY <2>1 DEF Apm!Init
    <3> QED BY <2>1, <3>1 DEF Apm!Init, Apm!ApTypeOK, Apm!Added
  <2>3. Apm!Awaited /\ Apm!SleepOnItsWay
    BY DEF Apm!Init, Apm!Awaited, Apm!SleepOnItsWay
  <2>4. Apm!Commands
    BY <2>1 DEF Apm!Init, Apm!Commands, Apm!Actor, Apm!Of, Apm!Before, Apm!After
  <2>5. Apm!Places
    BY <2>1 DEF Apm!Init, Apm!Places, Apm!Entering, Apm!Leaving, Apm!Removing,
      Apm!Actor, Apm!Of
  <2> QED BY <2>2, <2>3, <2>4, <2>5 DEF Apm!ApInv
<1>2. Apm!ApInv /\ [Apm!Next]_(Apm!vars) => Apm!ApInv'
  <2> SUFFICES ASSUME Apm!ApInv, [Apm!Next]_(Apm!vars) PROVE Apm!ApInv'
    OBVIOUS
  <2>1. CASE UNCHANGED Apm!vars
    <3>1. UNCHANGED <<ap, sta, sta_list, txq, adding_sta, op, work, crashed, msgs, fwSta, fwPs>>
      BY <2>1 DEF Apm!vars, Apm!drvVars, Apm!actors, Apm!fwVars
    <3> QED BY <3>1 DEF Apm!ApInv, Apm!ApTypeOK, Apm!Awaited, Apm!Commands,
              Apm!Places, Apm!SleepOnItsWay, Apm!CfmOf,
          Apm!Of, Apm!Entering, Apm!Leaving, Apm!Removing, Apm!Told, Apm!Sleepy,
          Apm!Woken
  <2>2. CASE Apm!Next
    <3>1. Apm!ApTypeOK'
      BY <2>2, TypeStep DEF Apm!ApInv, Rest
    <3>2. ASSUME ~crashed' PROVE Rest'
      <4>1. ~crashed /\ Rest
        <5>1. ASSUME Apm!Calls PROVE crashed' = crashed
          BY <5>1 DEF Apm!Calls, Apm!StartAp, Apm!StopAp, Apm!AddStation,
            Apm!DelStation, Apm!DelTake, Apm!DelNone,
            Apm!drvVars, Apm!actors, Apm!fwVars
        <5>2. ASSUME Apm!OpSteps PROVE crashed' = crashed
          BY <5>2 DEF Apm!OpSteps, Apm!StartApEnd, Apm!AddStationEnd, Apm!DelEnd,
            Apm!StopNext, Apm!DelTake,
            Apm!StopApEnd, Apm!DelSend, Apm!drvVars, Apm!actors, Apm!fwVars
        <5>3. ASSUME Apm!WorkSteps \/ Apm!Receive PROVE crashed' = crashed
          BY <5>3 DEF Apm!WorkSteps, Apm!WorkTake, Apm!WorkSend, Apm!WorkEnd,
            Apm!Receive, Apm!drvVars, Apm!fwVars
        <5>4. ASSUME Apm!FwAnswers \/ \E i \in StaIdx : Apm!FwPs(i) \/ Apm!FwLost(i) PROVE crashed' = crashed
          BY <5>4 DEF Apm!FwAnswers, Apm!FwAdd, Apm!FwApm, Apm!FwDel, Apm!FwPs,
            Apm!FwLost, Apm!drvVars, Apm!actors, Apm!fwVars
        <5>5. ASSUME NEW a \in Apm!Actor, Apm!Timeout(a) PROVE crashed' = crashed
          BY <5>5 DEF Apm!Timeout, Apm!drvVars, Apm!fwVars
        <5>6. ~Apm!Die
          BY <3>2 DEF Apm!Die
        <5>7. crashed' = crashed
          BY <2>2, <5>1, <5>2, <5>3, <5>4, <5>5, <5>6 DEF Apm!Next
        <5> QED BY <3>2, <5>7 DEF Apm!ApInv, Rest
      <4>2. Apm!Calls \/ Apm!OpSteps \/ Apm!WorkSteps \/ Apm!Receive
            \/ Apm!FwAnswers \/ (\E i \in StaIdx : Apm!FwPs(i) \/ Apm!FwLost(i))
        BY <2>2, <3>2, <4>1 DEF Apm!Next, Apm!Die, Apm!Timeout
      <4> QED BY <3>1, <4>1, <4>2, OpStep, WorkStep, ReceiveStep,
                FirmwareStep DEF Apm!ApInv
    <3> QED BY <3>1, <3>2 DEF Apm!ApInv, Rest
  <2> QED BY <2>1, <2>2
<1>3. Apm!ApInv => Apm!StationTables
  <2> SUFFICES ASSUME Apm!ApInv, ~crashed PROVE Apm!StationTables
    BY DEF Apm!StationTables, Apm!StationsAgree, Apm!SleepKnown
  <2>1. Apm!StationsAgree
    <3>1. \A i \in StaIdx, a \in Apm!Actor : Apm!Of(a).idx = i /\ Apm!Of(a).at \in Apm!Before => Apm!Removing(a, i)
      BY DEF Apm!Removing, Apm!Before
    <3>2. \A i \in StaIdx : Apm!Entering(i) => Apm!Adding(i)
      BY DEF Apm!Entering, Apm!Adding, Apm!CfmOf
    <3> QED BY <3>1, <3>2 DEF Apm!ApInv, Apm!Places, Apm!StationsAgree, Apm!Leaving
  <2>2. Apm!SleepKnown
    <3>1. \A i \in StaIdx : op.at = "add" /\ op.idx = i => Apm!Entering(i)
      BY DEF Apm!Entering
    <3> QED BY <3>1 DEF Apm!ApInv, Apm!ApTypeOK, Apm!Places, Apm!SleepOnItsWay,
              Apm!SleepKnown
  <2> QED BY <2>1, <2>2 DEF Apm!StationTables
<1> QED BY <1>1, <1>2, <1>3, PTL DEF Apm!Spec

(* The same for the behaviours of the host run, whose other parts leave    *)
(* the variables of ApSta alone.                                           *)
THEOREM HostStationTables == MCSpec => []StationTables
<1>1. MCInit => Apm!Init
  BY DEF MCInit
<1>2. [MCNext]_allVars => [Apm!Next]_Apm!vars
  BY DEF MCNext, InSm, InApm, InDfs, allVars, apmVars, Apm!vars, Apm!drvVars,
         Apm!actors, Apm!fwVars
<1>3. Apm!StationTables => StationTables
  BY DEF StationTables
<1>4. Apm!ApStaAssumption
  BY HostAssumption
<1> QED
  BY <1>1, <1>2, <1>3, <1>4, StationTablesAgree, PTL DEF MCSpec, Apm!Spec

-----------------------------------------------------------------------------
(******************************* RcStat ***********************************)

(* How often a value stands in a ring r of the size of rc_sta.             *)
StandsAt(r, s) == {k \in 0..RcSlots - 1 : r[k] = s}

(* q is r with v written at k.                                             *)
Wrote(r, k, v, q) == \A x \in 0..RcSlots - 1 : q[x] = IF x = k THEN v ELSE r[x]

(* RcStat counts with the Cardinality of FiniteSets.                       *)
LEMMA RcCardinality == ASSUME NEW S PROVE Rc!Cardinality(S) = Cardinality(S)
  BY Zenon DEF Rc!Cardinality, Cardinality

(* Writing one entry of the ring changes the number of entries of each     *)
(* station by what is written and what was there.                          *)
LEMMA RingWrite ==
    ASSUME RcSlots \in Nat \ {0}, NEW k \in 0..RcSlots - 1, NEW v, NEW s, NEW r, NEW q,
           Wrote(r, k, v, q)
    PROVE  /\ Cardinality(StandsAt(r, s)) \in Nat
           /\ Cardinality(StandsAt(q, s)) \in Nat
           /\ v = s /\ r[k] # s =>
                Cardinality(StandsAt(q, s)) = Cardinality(StandsAt(r, s)) + 1
           /\ v # s /\ r[k] = s =>
                Cardinality(StandsAt(q, s)) = Cardinality(StandsAt(r, s)) - 1
           /\ v # s /\ r[k] # s => StandsAt(q, s) = StandsAt(r, s)
<1> USE DEF Wrote
<1>1. IsFiniteSet(0..RcSlots - 1)
  BY FS_Interval
<1>2. /\ IsFiniteSet(StandsAt(r, s)) /\ Cardinality(StandsAt(r, s)) \in Nat
      /\ IsFiniteSet(StandsAt(q, s)) /\ Cardinality(StandsAt(q, s)) \in Nat
  <2>1. StandsAt(r, s) \in SUBSET (0..RcSlots - 1) /\ StandsAt(q, s) \in SUBSET (0..RcSlots - 1)
    BY DEF StandsAt
  <2> QED
    BY <1>1, <2>1, FS_Subset, FS_CardinalityType
<1>3. ASSUME v = s, r[k] # s
      PROVE  Cardinality(StandsAt(q, s)) = Cardinality(StandsAt(r, s)) + 1
  <2>1. StandsAt(q, s) = StandsAt(r, s) \cup {k} /\ k \notin StandsAt(r, s)
    BY <1>3 DEF StandsAt
  <2> QED
    BY <2>1, <1>2, FS_AddElement
<1>4. ASSUME v # s, r[k] = s
      PROVE  Cardinality(StandsAt(q, s)) = Cardinality(StandsAt(r, s)) - 1
  <2>1. StandsAt(q, s) = StandsAt(r, s) \ {k} /\ k \in StandsAt(r, s)
    BY <1>4 DEF StandsAt
  <2> QED
    BY <2>1, <1>2, FS_RemoveElement
<1>5. ASSUME v # s, r[k] # s PROVE StandsAt(q, s) = StandsAt(r, s)
  BY <1>5 DEF StandsAt
<1> QED
  BY <1>2, <1>3, <1>4, <1>5

(* The number of entries of a station that wait.                           *)
LEMMA RcWaiting ==
    ASSUME NEW s \in RcSta
    PROVE  /\ Rc!Waiting(s) = Cardinality(StandsAt(rcRing, s))
                              + (IF rcRunning = s THEN 1 ELSE 0)
           /\ Rc!Waiting(s)' = Cardinality(StandsAt(rcRing', s))
                               + (IF rcRunning' = s THEN 1 ELSE 0)
  BY RcCardinality DEF Rc!Waiting, StandsAt

(* An index of the ring stays one, and one entry more changes the parity.  *)
LEMMA Counting ==
    /\ \A n \in Nat \ {0} : \A k \in 0..n - 1 : (k + 1) % n \in 0..n - 1
    /\ \A n \in Nat : (n + 1) % 2 = 0 <=> ~(n % 2 = 0)
  OBVIOUS

RcInv == Rc!TypeOK /\ Rc!RcDirs

(* A step of a station, of the work item or of the teardown keeps the      *)
(* parity of the entries that wait.                                        *)
THEOREM RcStatStep ==
    ASSUME Rc!RcStatAssumption, RcInv, [Rc!Next]_Rc!vars
    PROVE  RcInv'
<1> USE DEF Rc!RcStatAssumption, Rc!TypeOK, Rc!Free, RcInv
<1> DEFINE N(s) == Cardinality(StandsAt(rcRing, s))
           M(s) == Cardinality(StandsAt(rcRing', s))
<1>0. \A s \in RcSta : N(s) \in Nat
  <2> TAKE s \in RcSta
  <2>1. 0 \in 0..RcSlots - 1 /\ Wrote(rcRing, 0, rcRing[0], rcRing)
    BY DEF Wrote
  <2> QED
    BY <2>1, RingWrite
<1>1. ASSUME NEW s \in RcSta, Rc!Come(s) \/ Rc!Go(s) PROVE RcInv'
  <2>1. Rc!TypeOK'
    <3>1. (wr + 1) % RcSlots \in 0..RcSlots - 1
      BY Counting
    <3>2. rcQueued' \in BOOLEAN /\ broken' \in BOOLEAN
      BY <1>1, Zenon DEF Rc!Come, Rc!Go, Rc!_rwnx_dbgfs_rc_stat_write
    <3> QED
      BY <1>1, <3>1, <3>2 DEF Rc!Come, Rc!Go, Rc!_rwnx_dbgfs_rc_stat_write
  <2>2. CASE rcPhase = "up" /\ rcRing[wr] = "0xFF"
    <3>1. \A t \in RcSta : M(t) = N(t) + (IF t = s THEN 1 ELSE 0)
      <4>1. rcRing' = [rcRing EXCEPT ![wr] = s]
        BY <1>1, <2>2 DEF Rc!Come, Rc!Go, Rc!_rwnx_dbgfs_rc_stat_write
      <4>2. \A t \in RcSta : t # "0xFF"
        OBVIOUS
      <4> TAKE t \in RcSta
      <4>3. rcRing[wr] # t
        BY <2>2, <4>2
      <4>4. /\ RcSlots \in Nat \ {0} /\ wr \in 0..RcSlots - 1
            /\ Wrote(rcRing, wr, s, rcRing')
        BY <4>1 DEF Wrote
      <4>5. /\ s = t => Cardinality(StandsAt(rcRing', t)) = Cardinality(StandsAt(rcRing, t)) + 1
            /\ s # t => StandsAt(rcRing', t) = StandsAt(rcRing, t)
        BY ONLY <4>3, <4>4, RingWrite
      <4> QED
        BY <1>0, <4>5
    <3>2. /\ present' \in {present \cup {s}, present \ {s}}
          /\ (s \in present') # (s \in present)
          /\ UNCHANGED <<rcRunning, dir, rcTable>>
      BY <1>1 DEF Rc!Come, Rc!Go
    <3> HIDE DEF N, M
    <3>3. \A t \in RcSta : (t = s => Rc!Waiting(t)' = Rc!Waiting(t) + 1)
                         /\ (t # s => Rc!Waiting(t)' = Rc!Waiting(t))
                         /\ Rc!Waiting(t) \in Nat
      BY <1>0, <3>1, <3>2, RcWaiting DEF N, M
    <3>4. \A t \in RcSta :
            /\ t = s => (Rc!Waiting(t)' % 2 = 0 <=> ~(Rc!Waiting(t) % 2 = 0))
            /\ t # s => (Rc!Waiting(t)' % 2 = 0 <=> Rc!Waiting(t) % 2 = 0)
      BY <3>3, Counting
    <3>5. \A t \in RcSta :
            /\ t = s => ((t \in dir') = (t \in present') <=> ~((t \in dir) = (t \in present)))
            /\ t # s => ((t \in dir') = (t \in present') <=> (t \in dir) = (t \in present))
      BY <3>2
    <3>6. broken' = broken /\ rcPhase' = rcPhase
      BY <1>1, <2>2 DEF Rc!Come, Rc!Go, Rc!_rwnx_dbgfs_rc_stat_write
    <3> QED
      BY <2>1, <3>2, <3>4, <3>5, <3>6 DEF Rc!RcDirs
  <2>3. CASE ~(rcPhase = "up" /\ rcRing[wr] = "0xFF")
    BY <1>1, <2>1, <2>3 DEF Rc!Come, Rc!Go, Rc!_rwnx_dbgfs_rc_stat_write, Rc!RcDirs
  <2> QED
    BY <2>2, <2>3
<1>2. CASE Rc!WorkTake
  <2>1. Rc!TypeOK'
    <3>1. (rd + 1) % RcSlots \in 0..RcSlots - 1
      BY Counting
    <3>2. rcQueued' \in BOOLEAN /\ broken' \in BOOLEAN
      BY <1>2 DEF Rc!WorkTake
    <3> QED
      BY <1>2, <3>1, <3>2 DEF Rc!WorkTake
  <2>2. CASE rcRing[rd] = "0xFF"
    <3>1. UNCHANGED <<rcRing, rcRunning, present, dir, rcTable, rcPhase, broken>>
      BY <1>2, <2>2 DEF Rc!WorkTake
    <3>2. \A t \in RcSta : Rc!Waiting(t)' = Rc!Waiting(t)
      BY <3>1, RcWaiting
    <3> QED
      BY <2>1, <3>1, <3>2 DEF Rc!RcDirs
  <2>3. CASE rcRing[rd] # "0xFF"
    <3>1. /\ rcRing' = [rcRing EXCEPT ![rd] = "0xFF"] /\ rcRunning = "0xFF"
          /\ rcRunning' = rcRing[rd] /\ rcRing[rd] \in RcSta
          /\ UNCHANGED <<present, dir, rcTable, rcPhase, broken>>
      BY <1>2, <2>3 DEF Rc!WorkTake
    <3>2. \A t \in RcSta : M(t) = N(t) - (IF t = rcRing[rd] THEN 1 ELSE 0)
      <4>1. \A t \in RcSta : t # "0xFF"
        OBVIOUS
      <4> TAKE t \in RcSta
      <4>2. "0xFF" # t
        BY <4>1
      <4>3. /\ RcSlots \in Nat \ {0} /\ rd \in 0..RcSlots - 1
            /\ Wrote(rcRing, rd, "0xFF", rcRing')
        BY <3>1 DEF Wrote
      <4>4. /\ rcRing[rd] = t => Cardinality(StandsAt(rcRing', t)) = Cardinality(StandsAt(rcRing, t)) - 1
            /\ rcRing[rd] # t => StandsAt(rcRing', t) = StandsAt(rcRing, t)
        BY ONLY <4>2, <4>3, RingWrite
      <4> QED
        BY <1>0, <4>4
    <3> HIDE DEF N, M
    <3>3. \A t \in RcSta : Rc!Waiting(t)' = Rc!Waiting(t)
      <4>1. \A t \in RcSta : rcRunning # t
        BY <3>1
      <4> QED
        <5> TAKE t \in RcSta
        <5>1. Rc!Waiting(t) = N(t)
          BY <1>0, <4>1, RcWaiting DEF N
        <5>2. Rc!Waiting(t)' = M(t) + (IF rcRing[rd] = t THEN 1 ELSE 0)
          BY <3>1, RcWaiting DEF M
        <5> QED
          BY <1>0, <3>2, <5>1, <5>2
    <3> QED
      BY <2>1, <3>1, <3>3 DEF Rc!RcDirs
  <2> QED
    BY <2>2, <2>3
<1>3. CASE Rc!WorkMake \/ Rc!WorkRemove
  <2>1. Rc!TypeOK' /\ rcRunning \in RcSta
    BY <1>3 DEF Rc!WorkMake, Rc!WorkRemove
  <2>2. \A t \in RcSta :
          /\ t = rcRunning => Rc!Waiting(t)' = Rc!Waiting(t) - 1
          /\ t # rcRunning => Rc!Waiting(t)' = Rc!Waiting(t)
          /\ t = rcRunning => Rc!Waiting(t) > 0
          /\ Rc!Waiting(t) \in Nat
    <3>1. rcRunning' = "0xFF" /\ rcRing' = rcRing
      BY <1>3 DEF Rc!WorkMake, Rc!WorkRemove
    <3> HIDE DEF N
    <3> QED
      BY <1>0, <2>1, <3>1, RcWaiting DEF N
  <2>3. \A t \in RcSta :
          /\ t = rcRunning => (Rc!Waiting(t)' % 2 = 0 <=> ~(Rc!Waiting(t) % 2 = 0))
          /\ t # rcRunning => (Rc!Waiting(t)' % 2 = 0 <=> Rc!Waiting(t) % 2 = 0)
    <3>1. \A n \in Nat : n > 0 => ((n - 1) % 2 = 0 <=> ~(n % 2 = 0))
      OBVIOUS
    <3> QED
      BY <2>2, <3>1
  <2>4. /\ present' = present /\ broken' = broken /\ rcPhase' = rcPhase
        /\ dir = rcTable => dir' = rcTable'
        /\ \A t \in RcSta : /\ t = rcRunning => (t \in dir' <=> t \notin dir)
                            /\ t # rcRunning => (t \in dir' <=> t \in dir)
    BY <1>3 DEF Rc!WorkMake, Rc!WorkRemove
  <2>5. ASSUME rcPhase' = "up", ~broken', NEW t \in RcSta
        PROVE  ((t \in dir') = (t \in present')) <=> Rc!Waiting(t)' % 2 = 0
    <3>1. ((t \in dir) = (t \in present)) <=> Rc!Waiting(t) % 2 = 0
      BY <2>4, <2>5 DEF Rc!RcDirs
    <3>2. Rc!Waiting(t) % 2 = 0 <=> (t \in dir <=> t \in present)
      BY <3>1
    <3>3. Rc!Waiting(t)' % 2 = 0 <=> (t \in dir' <=> t \in present')
      <4>1. CASE t = rcRunning
        <5>1. Rc!Waiting(t)' % 2 = 0 <=> ~(Rc!Waiting(t) % 2 = 0)
          BY <2>3, <4>1
        <5>2. t \in dir' <=> t \notin dir
          BY <2>4, <4>1
        <5>3. t \in present' <=> t \in present
          BY <2>4
        <5> QED
          BY <3>2, <5>1, <5>2, <5>3
      <4>2. CASE t # rcRunning
        <5>1. Rc!Waiting(t)' % 2 = 0 <=> Rc!Waiting(t) % 2 = 0
          BY <2>3, <4>2
        <5>2. t \in dir' <=> t \in dir
          BY <2>4, <4>2
        <5>3. t \in present' <=> t \in present
          BY <2>4
        <5> QED
          BY <3>2, <5>1, <5>2, <5>3
      <4> QED
        BY <4>1, <4>2
    <3> QED
      BY <3>3
  <2> QED
    BY <2>1, <2>4, <2>5 DEF Rc!RcDirs
<1>4. CASE Rc!WorkFails
  BY <1>4 DEF Rc!WorkFails, Rc!RcDirs
<1>5. CASE Rc!Unregister \/ Rc!Flushed
  BY <1>5 DEF Rc!Unregister, Rc!Flushed, Rc!RcDirs
<1>6. CASE UNCHANGED Rc!vars
  BY <1>6, RcWaiting DEF Rc!vars, Rc!RcDirs
<1> QED
  BY <1>1, <1>2, <1>3, <1>4, <1>5, <1>6 DEF Rc!Next, Rc!Work

(* The directories follow the stations, for any stations and ring: a       *)
(* station has its directory unless an odd number of its entries waits.    *)
THEOREM RcStatDirs == ASSUME Rc!RcStatAssumption PROVE Rc!Spec => []Rc!RcDirs
<1>1. Rc!Init => RcInv
  <2> SUFFICES ASSUME Rc!Init PROVE RcInv
    OBVIOUS
  <2>1. Rc!TypeOK
    <3>1. rcQueued \in BOOLEAN /\ broken \in BOOLEAN
      BY DEF Rc!Init
    <3>2. 0 \in 0..RcSlots - 1 /\ 0 \in 0..RcOps
      BY DEF Rc!RcStatAssumption
    <3> QED
      BY <3>1, <3>2 DEF Rc!Init, Rc!TypeOK
  <2>2. \A s \in RcSta : StandsAt(rcRing, s) = {} /\ rcRunning # s
    BY DEF Rc!Init, StandsAt, Rc!Free, Rc!RcStatAssumption
  <2>3. \A s \in RcSta : Rc!Waiting(s) = 0
    <3>1. Cardinality({}) = 0
      BY FS_EmptySet
    <3> QED
      BY <2>2, <3>1, RcWaiting
  <2> QED
    BY <2>1, <2>3 DEF Rc!Init, Rc!RcDirs, RcInv
<1>2. RcInv /\ [Rc!Next]_Rc!vars => RcInv'
  BY RcStatStep
<1>3. RcInv => Rc!RcDirs
  BY DEF RcInv
<1> QED
  BY <1>1, <1>2, <1>3, PTL DEF Rc!Spec

(* The same for the behaviours of the host run.                            *)
THEOREM HostRcDirs == MCSpec => []RcDirs
<1>1. MCInit => Rc!Init
  BY DEF MCInit
<1>2. [MCNext]_allVars => [Rc!Next]_Rc!vars
  BY DEF MCNext, InSm, InApm, InDfs, allVars, rcVars, Rc!vars
<1>3. Rc!RcDirs => RcDirs
  BY DEF RcDirs
<1>4. Rc!RcStatAssumption
  BY HostAssumption
<1> QED
  BY <1>1, <1>2, <1>3, <1>4, RcStatDirs, PTL DEF MCSpec, Rc!Spec

-----------------------------------------------------------------------------
(******************************** Iface ************************************)

(* Commands, answers and messages have their fields, and are not NULL.     *)
LEMMA Fields ==
    /\ \A m \in {"start", "add", "scancancel", "reset", "scan", "roc", "cancelroc"} :
          [m |-> m] # None
    /\ \A i \in Idx : [m |-> "remove", i |-> i] # None
    /\ \A b \in BOOLEAN : [m |-> "add", mgmt |-> b] # None
    /\ \A i \in Idx, st \in {"ok", "refused", "error"} : [status |-> st, idx |-> i] # None
    /\ \A m \in {"scandone", "rocon", "rocexp"} : [m |-> m] \in Message
    /\ \A t \in Threads, i \in Idx, st \in {"ok", "refused"} : Confirm(t, st, i) \in Message
    /\ \A a \in Message : a.m = "cfm" =>
          a.t \in Threads /\ a.idx \in Idx /\ a.status \in {"ok", "refused"}
<1>1. \A m \in {"start", "add", "scancancel", "reset", "scan", "roc", "cancelroc"} :
          [m |-> m] \in Command
  BY DEF Command
<1>2. \A i \in Idx : [m |-> "remove", i |-> i] \in Command
  BY DEF Command
<1>3. \A b \in BOOLEAN : [m |-> "add", mgmt |-> b] \in Command
  BY DEF Command
<1>4. \A i \in Idx, st \in {"ok", "refused", "error"} : [status |-> st, idx |-> i] \in Answer
  BY DEF Answer
<1>5. None \notin Command /\ None \notin Answer
  BY IfaceAssumption
<1>6. /\ \A m \in {"scandone", "rocon", "rocexp"} : [m |-> m] \in Message
      /\ \A t \in Threads, i \in Idx, st \in {"ok", "refused"} : Confirm(t, st, i) \in Message
      /\ \A a \in Message : a.m = "cfm" =>
            a.t \in Threads /\ a.idx \in Idx /\ a.status \in {"ok", "refused"}
  BY DEF Message, Confirm
<1> QED BY <1>1, <1>2, <1>3, <1>4, <1>5, <1>6

(* Nobody's command is answered.                                           *)
Quiet ==
    /\ \A k \in DOMAIN inds : inds[k].m # "cfm"
    /\ \A s \in Threads : reply[s] = None

(* A state without answers.                                                *)
LEMMA QuietThen ==
    ASSUME Quiet'
    PROVE  /\ OneAnswer'
           /\ \A s \in Threads : ~Answered(s)'
           /\ \A s \in Threads, i \in Idx : ~Given(s, i)' /\ ~Removed(s, i)'
  BY DEF Quiet, OneAnswer, Answered, Given, Removed, Confirms

(* A thread that does not wait: no confirmation is on its way.             *)
LEMMA NoWait ==
    ASSUME Shapes, Threading, OneAnswer, NEW t \in Threads,
           \A s \in Threads : s # t => pc[s] = "idle",
           pc[t] \in Silent \/ reply[t] # None
    PROVE  /\ \A k \in DOMAIN inds : inds[k].m # "cfm"
           /\ \A s \in Threads : s # t => cmd[s] = None /\ reply[s] = None
           /\ pc[t] \in Silent => cmd[t] = None /\ reply[t] = None
<1>1. \A k \in DOMAIN inds : inds[k].m = "cfm" => inds[k].t \in Threads
  BY Fields DEF Shapes
<1>2. \A s \in Threads : s # t => cmd[s] = None /\ reply[s] = None
  BY DEF Threading, CommandOf, Silent
<1> QED BY <1>1, <1>2 DEF Threading, CommandOf, OneAnswer, Silent

(* The three ways a thread moves on.                                       *)
Moved(t, c, where) ==
    /\ DOMAIN pc' = Threads /\ DOMAIN cmd' = Threads /\ DOMAIN reply' = Threads
    /\ pc'[t] = where /\ cmd'[t] = c
    /\ \A s \in Threads : s # t => pc'[s] = "idle" /\ cmd'[s] = None
    /\ Quiet' /\ OneAnswer'
    /\ \A s \in Threads : ~Answered(s)'
    /\ \A s \in Threads, i \in Idx : ~Given(s, i)' /\ ~Removed(s, i)'

(* A thread that sends, returns or goes on without a command moves so.     *)
LEMMA Moves ==
    ASSUME Shapes, Threading, OneAnswer, NEW t \in Threads, UNCHANGED inds,
           \A s \in Threads : s # t => pc[s] = "idle",
           pc[t] \in Silent \/ reply[t] # None
    PROVE  /\ \A c, where : Send(t, c, where) => Moved(t, c, where)
           /\ Return(t) => Moved(t, None, "idle")
           /\ \A where : pc[t] \in Silent /\ Goto(t, where) /\ UNCHANGED <<cmd, reply>>
                         => Moved(t, None, where)
           /\ pc[t] \in Silent /\ UNCHANGED <<pc, cmd, reply>> => Moved(t, None, pc[t])
<1>1. /\ \A k \in DOMAIN inds : inds[k].m # "cfm"
      /\ \A s \in Threads : s # t => cmd[s] = None /\ reply[s] = None
      /\ pc[t] \in Silent => cmd[t] = None /\ reply[t] = None
  BY NoWait
<1>2. ASSUME NEW c, NEW where, Send(t, c, where) PROVE Moved(t, c, where)
  <2>1. Quiet'
    BY <1>1, <1>2 DEF Quiet, Send, Shapes
  <2> QED BY <1>1, <1>2, <2>1, QuietThen DEF Moved, Send, Goto, Shapes
<1>3. ASSUME Return(t) PROVE Moved(t, None, "idle")
  <2>1. Quiet'
    BY <1>1, <1>3 DEF Quiet, Return, Shapes
  <2> QED BY <1>1, <1>3, <2>1, QuietThen DEF Moved, Return, Goto, Shapes
<1>4. ASSUME NEW where, pc[t] \in Silent, Goto(t, where), UNCHANGED <<cmd, reply>>
      PROVE  Moved(t, None, where)
  <2>1. Quiet'
    BY <1>1, <1>4 DEF Quiet, Shapes
  <2> QED BY <1>1, <1>4, <2>1, QuietThen DEF Moved, Goto, Shapes
<1>5. ASSUME pc[t] \in Silent, UNCHANGED <<pc, cmd, reply>> PROVE Moved(t, None, pc[t])
  <2>1. Quiet'
    BY <1>1, <1>5 DEF Quiet, Shapes
  <2> QED BY <1>1, <1>5, <2>1, QuietThen DEF Moved, Shapes
<1> QED BY <1>2, <1>3, <1>4, <1>5

(* Nothing of the table, of the deferred removals and of the firmware's    *)
(* interfaces changes, and no operation is between two of its commands.    *)
LEMMA TableStays ==
    ASSUME TableInv, Deferring, FirmwareHas,
           UNCHANGED <<up, vifIdx, table, started, fwIfs, deferred, dead>>,
           up \subseteq vifs',
           dead \/ \A s \in Threads, i \in Idx : ~Given(s, i) /\ ~Removed(s, i),
           dead \/ \A v : ~Changing(v),
           \A s \in Threads, i \in Idx : ~Given(s, i)' /\ ~Removed(s, i)',
           \A v : ~Changing(v)', DOMAIN deferred \subseteq Nat, Shapes
    PROVE  TableInv' /\ Deferring' /\ FirmwareHas'
<1>1. TableInv'
  <2>1. TableExact'
    <3>1. \A i \in Idx : table'[i] # None => table'[i] \in vifs' \cap up' /\ vifIdx'[table'[i]] = i
      BY DEF TableInv, TableExact
    <3>2. \A v \in up' : table'[vifIdx'[v]] = v \/ dead'
      BY DEF TableInv, TableExact, Changing
    <3>3. started' = Cardinality(up')
      BY DEF TableInv, TableExact
    <3> QED BY <3>1, <3>2, <3>3 DEF TableExact
  <2> QED BY <2>1 DEF TableInv
<1>2. Deferring'
  <2>1. \A k \in DOMAIN deferred : deferred[k] \in Idx
    BY DEF Shapes
  <2> QED BY <2>1 DEF Deferring
<1>3. FirmwareHas'
  <2> SUFFICES ASSUME ~dead, NEW i \in Idx PROVE i \in fwIfs <=> Has(i)'
    BY DEF FirmwareHas
  <2>1. i \in fwIfs <=> Has(i)
    BY DEF FirmwareHas
  <2> QED BY <2>1 DEF Has
<1> QED BY <1>1, <1>2, <1>3

(* An interface gets the index that the firmware gave to thread t.         *)
LEMMA TableInstall ==
    ASSUME Shapes, TableInv, Deferring, FirmwareHas, RunningUp,
           NEW t \in Threads, NEW i \in Idx, NEW v \in vifs, v \notin up,
           Given(t, i), \A s \in Threads, j \in Idx : Given(s, j) => j = i,
           \A s \in Threads, j \in Idx : ~Removed(s, j), \A w : ~Changing(w),
           Install(v, i), UNCHANGED <<vifs, fwIfs, deferred, dead>>,
           \A s \in Threads, j \in Idx : ~Given(s, j)' /\ ~Removed(s, j)',
           \A w : ~Changing(w)'
    PROVE  TableInv' /\ Deferring' /\ FirmwareHas'
<1>1. /\ v \in Vifs /\ up' = up \cup {v} /\ started' = started + 1
      /\ \A j \in Idx : table'[j] = IF j = i THEN v ELSE table[j]
      /\ \A w \in Vifs : vifIdx'[w] = IF w = v THEN i ELSE vifIdx[w]
      /\ up \subseteq Vifs
  BY DEF Install, Shapes, RunningUp
<1>2. \A w \in up : vifIdx[w] # i /\ vifIdx[w] \in Idx /\ w # v /\ w \in Vifs
  BY <1>1 DEF TableInv, Shapes
<1>3. table[i] = None
  BY <1>2 DEF TableInv, TableExact
<1>4. v # None
  BY <1>1, IfaceAssumption
<1>5. TableInv'
  <2>1. \A j \in Idx : table'[j] # None => table'[j] \in vifs' \cap up' /\ vifIdx'[table'[j]] = j
    BY <1>1, <1>2 DEF TableInv, TableExact
  <2>2. \A w \in up' : table'[vifIdx'[w]] = w \/ dead'
    BY <1>1, <1>2 DEF TableInv, TableExact, Changing
  <2>3. started' = Cardinality(up')
    <3>1. IsFiniteSet(up)
      BY <1>1, FS_Subset, IfaceAssumption
    <3>2. Cardinality(up \cup {v}) = Cardinality(up) + 1
      BY <3>1, FS_AddElement
    <3> QED BY <1>1, <3>2 DEF TableInv, TableExact
  <2>4. TableExact'
    BY <2>1, <2>2, <2>3 DEF TableExact
  <2> QED BY <2>4 DEF TableInv
<1>6. \A k \in DOMAIN deferred : deferred[k] \in Idx
  BY DEF Shapes
<1>7. Deferring'
  <2>1. \A k \in DOMAIN deferred : deferred[k] # i
    BY DEF Deferring
  <2> QED BY <1>1, <1>2, <1>6, <2>1 DEF Deferring
<1>8. FirmwareHas'
  <2> SUFFICES ASSUME ~dead, NEW j \in Idx PROVE j \in fwIfs <=> Has(j)'
    BY DEF FirmwareHas
  <2>1. j \in fwIfs <=> Has(j)
    BY DEF FirmwareHas
  <2>2. Has(j) <=> j = i \/ (\E w \in up : vifIdx[w] = j) \/ \E k \in DOMAIN deferred : deferred[k] = j
    BY DEF Has
  <2>3. Has(j)' <=> (\E w \in up' : vifIdx'[w] = j) \/ \E k \in DOMAIN deferred : deferred[k] = j
    BY DEF Has
  <2>4. (\E w \in up' : vifIdx'[w] = j) <=> j = i \/ \E w \in up : vifIdx[w] = j
    BY <1>1, <1>2
  <2> QED BY <2>1, <2>2, <2>3, <2>4
<1> QED BY <1>5, <1>7, <1>8

(* What every removal does to the table.                                   *)
LEMMA TableUninstall ==
    ASSUME Shapes, TableInv, RunningUp, NEW v \in up, Uninstall(v),
           UNCHANGED <<vifs, dead>>, \A w : Changing(w)' <=> Changing(w), ~Changing(v)
    PROVE  /\ TableExact' /\ up' = up \ {v} /\ vifIdx' = vifIdx
           /\ \A j \in Idx : table'[j] # None => ~Changing(table[j])'
           /\ dead \/ \A w \in up : w # v => vifIdx[w] # vifIdx[v] \/ Changing(w)
           /\ IsFiniteSet(up) /\ up \subseteq Vifs /\ Cardinality(up) \in Nat
<1>1. /\ v \in Vifs /\ up' = up \ {v} /\ started' = started - 1 /\ vifIdx' = vifIdx
      /\ \A j \in Idx : table'[j] = IF j = vifIdx[v] THEN None ELSE table[j]
      /\ up \subseteq Vifs /\ \A w \in Vifs : vifIdx[w] \in Idx
  BY DEF Uninstall, Shapes, RunningUp
<1>2. \A j \in Idx : table'[j] # None => table'[j] \in vifs' \cap up' /\ vifIdx'[table'[j]] = j
  BY <1>1 DEF TableInv, TableExact
<1>3. \A w \in up' : table'[vifIdx'[w]] = w \/ Changing(w)' \/ dead'
  BY <1>1 DEF TableInv, TableExact, Changing
<1>4. IsFiniteSet(up)
  BY <1>1, FS_Subset, IfaceAssumption
<1>5. started' = Cardinality(up') /\ Cardinality(up) \in Nat
  <2>1. Cardinality(up \ {v}) = Cardinality(up) - 1 /\ Cardinality(up) \in Nat
    BY <1>4, FS_RemoveElement, FS_CardinalityType
  <2> QED BY <1>1, <2>1 DEF TableInv, TableExact
<1>6. TableExact'
  BY <1>2, <1>3, <1>5 DEF TableExact, Changing
<1>7. \A j \in Idx : table'[j] # None => ~Changing(table[j])'
  BY <1>1 DEF TableInv
<1>8. dead \/ \A w \in up : w # v => vifIdx[w] # vifIdx[v] \/ Changing(w)
  BY DEF TableInv, TableExact, Changing
<1> QED BY <1>1, <1>4, <1>5, <1>6, <1>7, <1>8

(* The alive timer or stop_p2p_device takes an interface away, and the     *)
(* firmware is told later.                                                 *)
LEMMA TableDefer ==
    ASSUME Shapes, TableInv, Deferring, FirmwareHas, RunningUp,
           NEW v \in up, Uninstall(v), deferred' = Append(deferred, vifIdx[v]),
           UNCHANGED <<vifs, fwIfs, dead>>, ~Changing(v),
           \A w : Changing(w)' <=> Changing(w),
           \A s \in Threads, j \in Idx : (Given(s, j)' <=> Given(s, j))
                                      /\ (Removed(s, j)' <=> Removed(s, j)),
           dead \/ \A s \in Threads : ~Removed(s, vifIdx[v])
    PROVE  TableInv' /\ Deferring' /\ FirmwareHas' /\ deferred' \in Seq(Idx)
<1>1. /\ TableExact' /\ up' = up \ {v} /\ vifIdx' = vifIdx
      /\ \A j \in Idx : table'[j] # None => ~Changing(table[j])'
      /\ dead \/ \A w \in up : w # v => vifIdx[w] # vifIdx[v] \/ Changing(w)
      /\ up \subseteq Vifs
  BY TableUninstall
<1>2. vifIdx[v] \in Idx /\ \A k \in DOMAIN deferred : deferred[k] \in Idx
  BY <1>1 DEF Shapes
<1>3. /\ deferred' \in Seq(Idx)
      /\ \A k \in DOMAIN deferred : deferred'[k] = deferred[k] /\ k \in DOMAIN deferred'
      /\ \A k \in DOMAIN deferred' : k \in DOMAIN deferred \/ k = Len(deferred) + 1
      /\ Len(deferred) + 1 \in DOMAIN deferred' /\ deferred'[Len(deferred) + 1] = vifIdx[v]
  BY <1>2, AddedLast DEF Shapes
<1>4. TableInv'
  BY <1>1 DEF TableInv
<1>5. Deferring'
  <2>1. \A k \in DOMAIN deferred : deferred[k] # vifIdx[v] \/ dead
    BY DEF Deferring
  <2>2. \A s \in Threads : ~Given(s, vifIdx[v])
    BY <1>2 DEF TableInv
  <2>3. \A k \in DOMAIN deferred' :
          /\ \A w \in up' : vifIdx'[w] # deferred'[k] \/ Changing(w)' \/ dead'
          /\ \A s \in Threads : ~Given(s, deferred[k])'
    BY <1>1, <1>2, <1>3, <2>2 DEF Deferring
  <2>4. \A k, l \in DOMAIN deferred' : deferred'[k] = deferred'[l] => k = l \/ dead'
    BY <1>1, <1>2, <1>3, <2>1 DEF Deferring
  <2> QED BY <2>3, <2>4 DEF Deferring
<1>6. FirmwareHas'
  <2> SUFFICES ASSUME ~dead, NEW j \in Idx PROVE j \in fwIfs <=> Has(j)'
    BY DEF FirmwareHas
  <2>1. j \in fwIfs <=> Has(j)
    BY DEF FirmwareHas
  <2>2. (\E k \in DOMAIN deferred' : deferred'[k] = j)
           <=> j = vifIdx[v] \/ \E k \in DOMAIN deferred : deferred[k] = j
    BY <1>3
  <2>3. \A w \in up' : ~Changing(w)' => vifIdx[w] # vifIdx[v]
    BY <1>1
  <2>4. (\E w \in up : vifIdx[w] = j /\ ~Changing(w))
           <=> j = vifIdx[v] \/ \E w \in up' : vifIdx'[w] = j /\ ~Changing(w)'
    BY <1>1
  <2> QED BY <1>2, <2>1, <2>2, <2>3, <2>4 DEF Has
<1> QED BY <1>3, <1>4, <1>5, <1>6

(* rwnx_close takes an interface away that the firmware has removed.       *)
LEMMA TableClose ==
    ASSUME Shapes, TableInv, Deferring, FirmwareHas, RunningUp,
           NEW v \in up, Uninstall(v), UNCHANGED <<vifs, fwIfs, deferred, dead>>,
           \A w : ~Changing(w), \A w : ~Changing(w)',
           \A s \in Threads, j \in Idx : ~Given(s, j),
           dead \/ \A j \in Idx : (\E s \in Threads : Removed(s, j)) <=> j = vifIdx[v],
           \A s \in Threads, j \in Idx : ~Given(s, j)' /\ ~Removed(s, j)'
    PROVE  TableInv' /\ Deferring' /\ FirmwareHas'
<1>1. /\ TableExact' /\ up' = up \ {v} /\ vifIdx' = vifIdx
      /\ \A j \in Idx : table'[j] # None => ~Changing(table[j])'
      /\ dead \/ \A w \in up : w # v => vifIdx[w] # vifIdx[v] \/ Changing(w)
      /\ up \subseteq Vifs
  BY TableUninstall
<1>2. vifIdx[v] \in Idx /\ \A k \in DOMAIN deferred : deferred[k] \in Idx
  BY <1>1 DEF Shapes
<1>3. TableInv'
  BY <1>1 DEF TableInv
<1>4. Deferring'
  BY <1>1, <1>2 DEF Deferring
<1>5. FirmwareHas'
  <2> SUFFICES ASSUME ~dead, NEW j \in Idx PROVE j \in fwIfs <=> Has(j)'
    BY DEF FirmwareHas
  <2>1. j \in fwIfs <=> Has(j)
    BY DEF FirmwareHas
  <2>2. Has(j) <=> (j # vifIdx[v] /\ \E w \in up : vifIdx[w] = j)
                   \/ \E k \in DOMAIN deferred : deferred[k] = j
    BY DEF Has
  <2>3. Has(j)' <=> (\E w \in up' : vifIdx'[w] = j) \/ \E k \in DOMAIN deferred : deferred[k] = j
    BY DEF Has
  <2>4. (\E w \in up' : vifIdx'[w] = j) <=> j # vifIdx[v] /\ \E w \in up : vifIdx[w] = j
    BY <1>1
  <2> QED BY <2>1, <2>2, <2>3, <2>4
<1> QED BY <1>3, <1>4, <1>5

(* change_iface takes the entry of an interface away that stays up ...     *)
LEMMA TableChange ==
    ASSUME Shapes, TableInv, Deferring, FirmwareHas, RunningUp,
           NEW v \in up, table' = [table EXCEPT ![vifIdx[v]] = None],
           UNCHANGED <<vifs, up, vifIdx, started, fwIfs, deferred, dead>>,
           \A w : ~Changing(w), \A w : Changing(w)' <=> w = v,
           \A s \in Threads, j \in Idx : ~Given(s, j),
           dead \/ \A j \in Idx : (\E s \in Threads : Removed(s, j)) <=> j = vifIdx[v],
           \A s \in Threads, j \in Idx : ~Given(s, j)' /\ ~Removed(s, j)'
    PROVE  TableInv' /\ Deferring' /\ FirmwareHas'
<1>1. /\ v \in Vifs /\ up \subseteq Vifs /\ \A w \in Vifs : vifIdx[w] \in Idx
      /\ \A j \in Idx : table'[j] = IF j = vifIdx[v] THEN None ELSE table[j]
      /\ \A k \in DOMAIN deferred : deferred[k] \in Idx
  BY DEF Shapes, RunningUp
<1>2. \A j \in Idx : table'[j] # None => table'[j] \in vifs' \cap up' /\ vifIdx'[table'[j]] = j
  BY <1>1 DEF TableInv, TableExact
<1>3. dead \/ \A w \in up : w # v => vifIdx[w] # vifIdx[v]
  BY DEF TableInv, TableExact, Changing
<1>4. \A w \in up' : table'[vifIdx'[w]] = w \/ Changing(w)' \/ dead'
  BY <1>1 DEF TableInv, TableExact, Changing
<1>5. \A j \in Idx : table'[j] # None => table'[j] # v
  BY <1>1 DEF TableInv, TableExact
<1>6. TableInv'
  <2>1. TableExact'
    BY <1>2, <1>4 DEF TableInv, TableExact, Changing
  <2> QED BY <1>5, <2>1 DEF TableInv
<1>7. Deferring'
  BY <1>1 DEF Deferring
<1>8. FirmwareHas'
  <2> SUFFICES ASSUME ~dead, NEW j \in Idx PROVE j \in fwIfs <=> Has(j)'
    BY DEF FirmwareHas
  <2>1. j \in fwIfs <=> Has(j)
    BY DEF FirmwareHas
  <2>2. Has(j) <=> (j # vifIdx[v] /\ \E w \in up : vifIdx[w] = j)
                   \/ \E k \in DOMAIN deferred : deferred[k] = j
    BY DEF Has
  <2>3. Has(j)' <=> (\E w \in up : vifIdx[w] = j /\ w # v)
                    \/ \E k \in DOMAIN deferred : deferred[k] = j
    BY DEF Has
  <2>4. (\E w \in up : vifIdx[w] = j /\ w # v) <=> j # vifIdx[v] /\ \E w \in up : vifIdx[w] = j
    BY <1>3
  <2> QED BY <2>1, <2>2, <2>3, <2>4
<1> QED BY <1>6, <1>7, <1>8

(* ... and puts it back under the index it was given.                      *)
LEMMA TableChanged ==
    ASSUME Shapes, TableInv, Deferring, FirmwareHas, RunningUp,
           NEW t \in Threads, NEW i \in Idx, NEW v \in up,
           table' = [table EXCEPT ![i] = v], vifIdx' = [vifIdx EXCEPT ![v] = i],
           UNCHANGED <<vifs, up, started, fwIfs, deferred, dead>>,
           \A w : Changing(w) <=> w = v, \A w : ~Changing(w)',
           Given(t, i), \A s \in Threads, j \in Idx : Given(s, j) => j = i,
           \A s \in Threads, j \in Idx : ~Removed(s, j),
           \A s \in Threads, j \in Idx : ~Given(s, j)' /\ ~Removed(s, j)'
    PROVE  TableInv' /\ Deferring' /\ FirmwareHas'
<1>1. /\ v \in Vifs /\ up \subseteq Vifs /\ \A w \in Vifs : vifIdx[w] \in Idx
      /\ \A j \in Idx : table'[j] = IF j = i THEN v ELSE table[j]
      /\ \A w \in Vifs : vifIdx'[w] = IF w = v THEN i ELSE vifIdx[w]
      /\ \A k \in DOMAIN deferred : deferred[k] \in Idx
  BY DEF Shapes, RunningUp
<1>2. \A w \in up : w # v => vifIdx[w] # i
  BY DEF TableInv
<1>3. \A j \in Idx : table[j] # None => table[j] # v
  BY DEF TableInv
<1>4. v \in vifs
  BY DEF RunningUp
<1>5. \A j \in Idx : table'[j] # None => table'[j] \in vifs' \cap up' /\ vifIdx'[table'[j]] = j
  BY <1>1, <1>3, <1>4 DEF TableInv, TableExact
<1>6. \A w \in up' : table'[vifIdx'[w]] = w \/ dead'
  BY <1>1, <1>2 DEF TableInv, TableExact, Changing
<1>7. TableInv'
  <2>1. TableExact'
    BY <1>5, <1>6 DEF TableInv, TableExact
  <2> QED BY <2>1 DEF TableInv
<1>8. \A k \in DOMAIN deferred : deferred[k] # i
  BY DEF Deferring
<1>9. Deferring'
  BY <1>1, <1>8 DEF Deferring
<1>10. FirmwareHas'
  <2> SUFFICES ASSUME ~dead, NEW j \in Idx PROVE j \in fwIfs <=> Has(j)'
    BY DEF FirmwareHas
  <2>1. j \in fwIfs <=> Has(j)
    BY DEF FirmwareHas
  <2>2. Has(j) <=> \/ j = i \/ \E w \in up : vifIdx[w] = j /\ w # v
                   \/ \E k \in DOMAIN deferred : deferred[k] = j
    BY DEF Has
  <2>3. Has(j)' <=> (\E w \in up : vifIdx'[w] = j) \/ \E k \in DOMAIN deferred : deferred[k] = j
    BY DEF Has
  <2>4. (\E w \in up : vifIdx'[w] = j) <=> j = i \/ \E w \in up : vifIdx[w] = j /\ w # v
    BY <1>1
  <2> QED BY <2>1, <2>2, <2>3, <2>4
<1> QED BY <1>7, <1>9, <1>10

(* A thread that moves on, and the command it has sent then.               *)
Fits(c, where) ==
    IF where \in Silent THEN c = None
    ELSE /\ c # None
         /\ c.m = "add" <=> where \in AddAt
         /\ c.m = "remove" <=> where \in RemoveAt
         /\ c.m = "reset" <=> where = "close.reset"
         /\ c.m = "scan" <=> where = "scan.started"
         /\ c.m = "roc" <=> where = "roc.sent"

(* A thread that moves on with the right command keeps Threading ...       *)
LEMMA MovedThreading ==
    ASSUME NEW t \in Threads, NEW c, NEW where, Moved(t, c, where), Fits(c, where),
           where \in RemoveAt => c.i = vifIdx'[arg'[t]]
    PROVE  Threading'
<1>1. \A s \in Threads : reply'[s] = None
  BY DEF Moved, Quiet
<1>2. OneOperation'
  BY DEF Moved, OneOperation, Threads
<1>3. CommandOf(t)'
  BY <1>1 DEF Moved, Fits, CommandOf, RemoveAt
<1>4. \A s \in Threads : s # t => CommandOf(s)'
  BY <1>1 DEF Moved, CommandOf, Silent, RemoveAt
<1> QED BY <1>2, <1>3, <1>4 DEF Threading

(* The commands fit.                                                       *)
LEMMA Fitting ==
    /\ Fits(None, "idle") /\ Fits(None, "open")
    /\ \A where \in AddAt : Fits([m |-> "add"], where)
    /\ \A b \in BOOLEAN : Fits([m |-> "add", mgmt |-> b], "roc.added")
    /\ \A where \in RemoveAt, i \in Idx : Fits([m |-> "remove", i |-> i], where)
    /\ \A where \in {"close.scan", "chg.scan", "stop.scan"} : Fits([m |-> "scancancel"], where)
    /\ Fits([m |-> "start"], "open.start") /\ Fits([m |-> "reset"], "close.reset")
    /\ Fits([m |-> "scan"], "scan.started") /\ Fits([m |-> "roc"], "roc.sent")
    /\ Fits([m |-> "cancelroc"], "roc.cancel")
  BY Fields DEF Fits, Silent, AddAt, RemoveAt

(* ... and the shapes of the state.                                        *)
LEMMA MovedShapes ==
    ASSUME Shapes, NEW t \in Threads, NEW c, NEW where, Moved(t, c, where),
           t = "net" => where \in {"idle"} \cup OpenAt \cup CloseAt,
           t = "cfg" => where \in {"idle"} \cup CfgAt,
           DOMAIN arg' = Threads, vifs' \subseteq Vifs, DOMAIN type' = Vifs,
           vifIdx' \in [Vifs -> Idx], table' \in [Idx -> Vifs \cup {None}],
           UNCHANGED <<inds, fwIfs>>, deferred' \in Seq(Idx)
    PROVE  Shapes'
  BY DEF Moved, Shapes, Quiet, Threads

(* Before a call, and before a step of the thread that waits.              *)
LEMMA BeforeCall ==
    ASSUME IfaceInv, \A s \in Threads : pc[s] = "idle"
    PROVE  /\ \A k \in DOMAIN inds : inds[k].m # "cfm"
           /\ \A s \in Threads : cmd[s] = None /\ reply[s] = None
           /\ \A s \in Threads, i \in Idx : ~Given(s, i) /\ ~Removed(s, i)
           /\ \A v : ~Changing(v)
<1>1. "net" \in Threads /\ "cfg" \in Threads
  BY DEF Threads
<1>2. \A k \in DOMAIN inds : inds[k].m # "cfm"
  BY <1>1, NoWait DEF IfaceInv, Silent
<1>3. \A s \in Threads : cmd[s] = None /\ reply[s] = None
  BY DEF IfaceInv, Threading, CommandOf, Silent
<1> QED BY <1>1, <1>2, <1>3 DEF Given, Removed, Changing, AddAt, RemoveAt

(* The answer that a thread acts on is the only one.                       *)
LEMMA BeforeStep ==
    ASSUME IfaceInv, NEW t \in Threads, pc[t] # "idle", pc[t] \in Silent \/ reply[t] # None
    PROVE  /\ \A k \in DOMAIN inds : inds[k].m # "cfm"
           /\ \A s \in Threads : s # t => pc[s] = "idle"
           /\ \A s \in Threads, i \in Idx :
                 Given(s, i) <=> s = t /\ pc[t] \in AddAt /\ Ok(t) /\ reply[t].idx = i
           /\ \A s \in Threads, i \in Idx :
                 Removed(s, i) <=> s = t /\ pc[t] \in RemoveAt /\ vifIdx[arg[t]] = i
           /\ pc[t] \notin Silent =>
                 reply[t].idx \in Idx /\ (Ok(t) \/ dead \/ pc[t] = "roc.sent")
<1>1. \A s \in Threads : s # t => pc[s] = "idle"
  BY DEF IfaceInv, Threading, OneOperation, Threads
<1>2. /\ \A k \in DOMAIN inds : inds[k].m # "cfm"
      /\ \A s \in Threads : s # t => cmd[s] = None /\ reply[s] = None
  BY <1>1, NoWait DEF IfaceInv
<1>3. \A s \in Threads, i \in Idx :
         Given(s, i) <=> s = t /\ pc[t] \in AddAt /\ Ok(t) /\ reply[t].idx = i
  BY <1>1, <1>2 DEF Given, Confirms, AddAt, Silent, Ok
<1>4. \A s \in Threads, i \in Idx :
         Removed(s, i) <=> s = t /\ pc[t] \in RemoveAt /\ vifIdx[arg[t]] = i
  BY <1>1, <1>2 DEF Removed, Answered, Confirms, RemoveAt, Silent, IfaceInv, Threading,
     CommandOf
<1>5. pc[t] \notin Silent => reply[t].idx \in Idx /\ (Ok(t) \/ dead \/ pc[t] = "roc.sent")
  BY DEF IfaceInv, Shapes, Threading, CommandOf, Ok
<1> QED BY <1>1, <1>2, <1>3, <1>4, <1>5

(* The scan is not touched, and nobody leaves the operation that starts    *)
(* one.                                                                    *)
LEMMA ScanStays ==
    ASSUME ScanInv, UNCHANGED <<scanReq, kscan, fwScan, inds, dead>>, ~Answered("cfg")',
           pc["cfg"] \in {"scan.added", "scan.started"} =>
              pc'["cfg"] \in {"scan.added", "scan.started"}
    PROVE  ScanInv'
  BY DEF ScanInv, ScanHeld

(* The calls from outside.                                                 *)
LEMMA CallStep ==
    ASSUME IfaceInv, Rtnl, Call
    PROVE  IfaceInv'
<1> USE DEF IfaceInv
<1>0. /\ "net" \in Threads /\ "cfg" \in Threads
      /\ \A v : \A t \in Threads : Begin(t, v) =>
            /\ \A s \in Threads : pc[s] = "idle"
            /\ DOMAIN arg' = Threads /\ arg'[t] = v
  BY DEF Begin, Threads, Shapes
<1>11. \A k \in Changes : k # "P2P_DEVICE"
  BY IfaceAssumption
<1>1. ASSUME NEW v \in Vifs, OpenBegin(v) PROVE IfaceInv'
  <2>1. /\ \A s \in Threads : pc[s] = "idle"
        /\ DOMAIN arg' = Threads /\ arg'["net"] = v
        /\ \A s \in Threads, i \in Idx : ~Given(s, i) /\ ~Removed(s, i)
        /\ \A x : ~Changing(x)
    BY <1>0, <1>1, BeforeCall DEF OpenBegin
  <2>2. \/ Moved("net", [m |-> "start"], "open.start")
        \/ Moved("net", None, "open")
    BY <1>0, <1>1, <2>1, Moves DEF OpenBegin, Silent, Begin
  <2>3. \A x : ~Changing(x)'
    BY <2>2 DEF Moved, Changing, Threads
  <2>4. TableInv' /\ Deferring' /\ FirmwareHas'
    BY <1>1, <2>1, <2>2, <2>3, TableStays DEF OpenBegin, Moved, Shapes, RunningUp, vifVars,
       tabVars, p2pVars, scanVars, thrVars, fwVars
  <2>5. Shapes' /\ Threading'
    <3>1. DOMAIN type' = Vifs /\ vifs' \subseteq Vifs /\ deferred' \in Seq(Idx)
          /\ vifIdx' \in [Vifs -> Idx] /\ table' \in [Idx -> Vifs \cup {None}]
          /\ UNCHANGED <<inds, fwIfs>>
      BY <1>1, <2>4 DEF OpenBegin, Shapes, vifVars, tabVars, p2pVars, scanVars, thrVars, fwVars
    <3>2. vifIdx[v] \in Idx /\ UNCHANGED vifIdx
      BY <1>1 DEF OpenBegin, Shapes, vifVars, tabVars, p2pVars, scanVars, thrVars, fwVars
    <3>3. ASSUME Moved("net", [m |-> "start"], "open.start") PROVE Shapes' /\ Threading'
      BY <1>0, <2>1, <3>3, <3>1, <3>2, Fitting, MovedShapes, MovedThreading
         DEF OpenAt, CloseAt, CfgAt, Both, AddAt, RemoveAt
    <3>4. ASSUME Moved("net", None, "open") PROVE Shapes' /\ Threading'
      BY <1>0, <2>1, <3>4, <3>1, <3>2, Fitting, MovedShapes, MovedThreading
         DEF OpenAt, CloseAt, CfgAt, Both, AddAt, RemoveAt
    <3> QED BY <2>2, <3>3, <3>4
  <2>6. DeviceTimed' /\ RunningUp'
    BY <1>1, <2>1, <2>2 DEF OpenBegin, DeviceTimed, RunningUp, Moved, OpenAt, CloseAt,
       Threads, Shapes,
       vifVars, tabVars, p2pVars, scanVars, thrVars, fwVars
  <2>7. Opening' /\ Closing' /\ Configuring'
    <3>1. Opening' /\ Closing'
      BY <1>1, <2>1, <2>2, IfaceAssumption DEF OpenBegin, Opening, Closing, RunningUp,
         DeviceTimed,
         Moved, OpenAt, CloseAt, Threads, Answered, Shapes, vifVars, tabVars, p2pVars,
         scanVars, thrVars, fwVars
    <3>2. Configuring'
      BY <1>1, <2>1, <2>2 DEF OpenBegin, Configuring, RunningUp, Shapes,
         Moved, Both, Threads, vifVars, tabVars, p2pVars, scanVars, thrVars, fwVars
    <3> QED BY <3>1, <3>2
  <2>8. ScanInv'
    BY <1>1, <2>1, <2>2, ScanStays DEF OpenBegin, Moved, Threads, vifVars, tabVars, p2pVars,
       scanVars, thrVars, fwVars
  <2> QED BY <2>2, <2>4, <2>5, <2>6, <2>7, <2>8 DEF Moved
<1>2. ASSUME NEW v \in Vifs, CloseBegin(v) PROVE IfaceInv'
  <2>1. /\ \A s \in Threads : pc[s] = "idle"
        /\ DOMAIN arg' = Threads /\ arg'["net"] = v
        /\ \A s \in Threads, i \in Idx : ~Given(s, i) /\ ~Removed(s, i)
        /\ \A x : ~Changing(x)
    BY <1>0, <1>2, BeforeCall DEF CloseBegin
  <2>2. \/ Moved("net", [m |-> "scancancel"], "close.scan")
        \/ Moved("net", [m |-> "remove", i |-> vifIdx[v]], "close.removed")
    BY <1>0, <1>2, <2>1, Moves DEF CloseBegin, Silent, Begin
  <2>3. \A x : ~Changing(x)'
    BY <2>2 DEF Moved, Changing, Threads
  <2>4. TableInv' /\ Deferring' /\ FirmwareHas'
    BY <1>2, <2>1, <2>2, <2>3, TableStays DEF CloseBegin, Moved, Shapes, RunningUp, vifVars,
       tabVars, p2pVars, scanVars, thrVars, fwVars
  <2>5. Shapes' /\ Threading'
    <3>1. DOMAIN type' = Vifs /\ vifs' \subseteq Vifs /\ deferred' \in Seq(Idx)
          /\ vifIdx' \in [Vifs -> Idx] /\ table' \in [Idx -> Vifs \cup {None}]
          /\ UNCHANGED <<inds, fwIfs>>
      BY <1>2, <2>4 DEF CloseBegin, Shapes, vifVars, tabVars, p2pVars, scanVars, thrVars, fwVars
    <3>2. vifIdx[v] \in Idx /\ UNCHANGED vifIdx
      BY <1>2 DEF CloseBegin, Shapes, vifVars, tabVars, p2pVars, scanVars, thrVars, fwVars
    <3>3. ASSUME Moved("net", [m |-> "scancancel"], "close.scan") PROVE Shapes' /\ Threading'
      BY <1>0, <2>1, <3>3, <3>1, <3>2, Fitting, MovedShapes, MovedThreading
         DEF OpenAt, CloseAt, CfgAt, Both, AddAt, RemoveAt
    <3>4. ASSUME Moved("net", [m |-> "remove", i |-> vifIdx[v]], "close.removed") PROVE Shapes' /\ Threading'
      BY <1>0, <2>1, <3>4, <3>1, <3>2, Fitting, MovedShapes, MovedThreading
         DEF OpenAt, CloseAt, CfgAt, Both, AddAt, RemoveAt
    <3> QED BY <2>2, <3>3, <3>4
  <2>6. DeviceTimed' /\ RunningUp'
    BY <1>2, <2>1, <2>2 DEF CloseBegin, DeviceTimed, RunningUp, Moved, OpenAt, CloseAt,
       Threads, Shapes,
       vifVars, tabVars, p2pVars, scanVars, thrVars, fwVars, AbortScan
  <2>7. Opening' /\ Closing' /\ Configuring'
    <3>1. Opening' /\ Closing'
      BY <1>2, <2>1, <2>2, IfaceAssumption DEF CloseBegin, Opening, Closing, RunningUp,
         DeviceTimed,
         Moved, OpenAt, CloseAt, Threads, Answered, Shapes, vifVars, tabVars, p2pVars,
         scanVars, thrVars, fwVars, AbortScan
    <3>2. Configuring'
      BY <1>2, <2>1, <2>2 DEF CloseBegin, Configuring, RunningUp, Shapes,
         Moved, Both, Threads, vifVars, tabVars, p2pVars, scanVars, thrVars, fwVars, AbortScan
    <3> QED BY <3>1, <3>2
  <2>8. ScanInv'
    BY <1>2, <2>1, <2>2 DEF CloseBegin, AbortScan, ScanInv, ScanHeld, Moved, Threads, vifVars,
       tabVars, p2pVars, scanVars, thrVars, fwVars
  <2> QED BY <2>2, <2>4, <2>5, <2>6, <2>7, <2>8 DEF Moved
<1>3. ASSUME NEW v \in Vifs, AddIface(v) PROVE IfaceInv'
  <2>1. /\ \A s \in Threads : pc[s] = "idle"
        /\ DOMAIN arg' = Threads /\ arg'["cfg"] = v
        /\ \A s \in Threads, i \in Idx : ~Given(s, i) /\ ~Removed(s, i)
        /\ \A x : ~Changing(x)
    BY <1>0, <1>3, BeforeCall DEF AddIface, BeginBoth
  <2>2. Moved("cfg", None, "idle")
    BY <1>0, <1>3, <2>1, Moves DEF AddIface, Silent, Begin, BeginBoth
  <2>3. \A x : ~Changing(x)'
    BY <2>2 DEF Moved, Changing, Threads
  <2>4. TableInv' /\ Deferring' /\ FirmwareHas'
    BY <1>3, <2>1, <2>2, <2>3, TableStays DEF AddIface, Moved, Shapes, RunningUp, vifVars,
       tabVars, p2pVars, scanVars, thrVars, fwVars
  <2>5. Shapes' /\ Threading'
    <3>1. DOMAIN type' = Vifs /\ vifs' \subseteq Vifs /\ deferred' \in Seq(Idx)
          /\ vifIdx' \in [Vifs -> Idx] /\ table' \in [Idx -> Vifs \cup {None}]
          /\ UNCHANGED <<inds, fwIfs>>
      BY <1>3, <2>4 DEF AddIface, Shapes, vifVars, tabVars, p2pVars, scanVars, thrVars, fwVars
    <3>2. vifIdx[v] \in Idx /\ UNCHANGED vifIdx
      BY <1>3 DEF AddIface, Shapes, vifVars, tabVars, p2pVars, scanVars, thrVars, fwVars
    <3> QED
      BY <1>0, <2>1, <2>2, <3>1, <3>2, Fitting, MovedShapes, MovedThreading
         DEF OpenAt, CloseAt, CfgAt, Both, AddAt, RemoveAt
  <2>6. DeviceTimed' /\ RunningUp'
    BY <1>3, <2>1, <2>2 DEF AddIface, DeviceTimed, RunningUp, Moved, OpenAt, CloseAt, Threads,
       Shapes,
       vifVars, tabVars, p2pVars, scanVars, thrVars, fwVars, VirtualAdd
  <2>7. Opening' /\ Closing' /\ Configuring'
    <3>1. Opening' /\ Closing'
      BY <1>3, <2>1, <2>2, IfaceAssumption DEF AddIface, Opening, Closing, RunningUp,
         DeviceTimed,
         Moved, OpenAt, CloseAt, Threads, Answered, Shapes, vifVars, tabVars, p2pVars,
         scanVars, thrVars, fwVars, VirtualAdd
    <3>2. Configuring'
      BY <1>3, <2>1, <2>2 DEF AddIface, Configuring, RunningUp, Shapes,
         Moved, Both, Threads, vifVars, tabVars, p2pVars, scanVars, thrVars, fwVars, VirtualAdd
    <3> QED BY <3>1, <3>2
  <2>8. ScanInv'
    BY <1>3, <2>1, <2>2, ScanStays DEF AddIface, Moved, Threads, vifVars, tabVars, p2pVars,
       scanVars, thrVars, fwVars
  <2> QED BY <2>2, <2>4, <2>5, <2>6, <2>7, <2>8 DEF Moved
<1>4. ASSUME NEW v \in Vifs, DelIface(v) PROVE IfaceInv'
  <2>1. /\ \A s \in Threads : pc[s] = "idle"
        /\ DOMAIN arg' = Threads /\ arg'["cfg"] = v
        /\ \A s \in Threads, i \in Idx : ~Given(s, i) /\ ~Removed(s, i)
        /\ \A x : ~Changing(x)
    BY <1>0, <1>4, BeforeCall DEF DelIface, BeginBoth
  <2>2. Moved("cfg", None, "idle")
    BY <1>0, <1>4, <2>1, Moves DEF DelIface, Silent, Begin, BeginBoth
  <2>3. \A x : ~Changing(x)'
    BY <2>2 DEF Moved, Changing, Threads
  <2>4. TableInv' /\ Deferring' /\ FirmwareHas'
    BY <1>4, <2>1, <2>2, <2>3, TableStays DEF DelIface, Moved, Shapes, RunningUp, vifVars,
       tabVars, p2pVars, scanVars, thrVars, fwVars
  <2>5. Shapes' /\ Threading'
    <3>1. DOMAIN type' = Vifs /\ vifs' \subseteq Vifs /\ deferred' \in Seq(Idx)
          /\ vifIdx' \in [Vifs -> Idx] /\ table' \in [Idx -> Vifs \cup {None}]
          /\ UNCHANGED <<inds, fwIfs>>
      BY <1>4, <2>4 DEF DelIface, Shapes, vifVars, tabVars, p2pVars, scanVars, thrVars, fwVars
    <3>2. vifIdx[v] \in Idx /\ UNCHANGED vifIdx
      BY <1>4 DEF DelIface, Shapes, vifVars, tabVars, p2pVars, scanVars, thrVars, fwVars
    <3> QED
      BY <1>0, <2>1, <2>2, <3>1, <3>2, Fitting, MovedShapes, MovedThreading
         DEF OpenAt, CloseAt, CfgAt, Both, AddAt, RemoveAt
  <2>6. DeviceTimed' /\ RunningUp'
    BY <1>4, <2>1, <2>2 DEF DelIface, DeviceTimed, RunningUp, Moved, OpenAt, CloseAt, Threads,
       Shapes,
       vifVars, tabVars, p2pVars, scanVars, thrVars, fwVars
  <2>7. Opening' /\ Closing' /\ Configuring'
    <3>1. Opening' /\ Closing'
      BY <1>4, <2>1, <2>2, IfaceAssumption DEF DelIface, Opening, Closing, RunningUp,
         DeviceTimed,
         Moved, OpenAt, CloseAt, Threads, Answered, Shapes, vifVars, tabVars, p2pVars,
         scanVars, thrVars, fwVars
    <3>2. Configuring'
      BY <1>4, <2>1, <2>2 DEF DelIface, Configuring, RunningUp, Shapes,
         Moved, Both, Threads, vifVars, tabVars, p2pVars, scanVars, thrVars, fwVars
    <3> QED BY <3>1, <3>2
  <2>8. ScanInv'
    BY <1>4, <2>1, <2>2, ScanStays DEF DelIface, Moved, Threads, vifVars, tabVars, p2pVars,
       scanVars, thrVars, fwVars
  <2> QED BY <2>2, <2>4, <2>5, <2>6, <2>7, <2>8 DEF Moved
<1>5. ASSUME NEW v \in Vifs, StartP2pDevice(v) PROVE IfaceInv'
  <2>1. /\ \A s \in Threads : pc[s] = "idle"
        /\ DOMAIN arg' = Threads /\ arg'["cfg"] = v
        /\ \A s \in Threads, i \in Idx : ~Given(s, i) /\ ~Removed(s, i)
        /\ \A x : ~Changing(x)
    BY <1>0, <1>5, BeforeCall DEF StartP2pDevice
  <2>2. Moved("cfg", None, "idle")
    BY <1>0, <1>5, <2>1, Moves DEF StartP2pDevice, Silent, Begin
  <2>3. \A x : ~Changing(x)'
    BY <2>2 DEF Moved, Changing, Threads
  <2>4. TableInv' /\ Deferring' /\ FirmwareHas'
    BY <1>5, <2>1, <2>2, <2>3, TableStays DEF StartP2pDevice, Moved, Shapes, RunningUp,
       vifVars, tabVars, p2pVars, scanVars, thrVars, fwVars
  <2>5. Shapes' /\ Threading'
    <3>1. DOMAIN type' = Vifs /\ vifs' \subseteq Vifs /\ deferred' \in Seq(Idx)
          /\ vifIdx' \in [Vifs -> Idx] /\ table' \in [Idx -> Vifs \cup {None}]
          /\ UNCHANGED <<inds, fwIfs>>
      BY <1>5, <2>4 DEF StartP2pDevice, Shapes, vifVars, tabVars, p2pVars, scanVars, thrVars,
         fwVars
    <3>2. vifIdx[v] \in Idx /\ UNCHANGED vifIdx
      BY <1>5 DEF StartP2pDevice, Shapes, vifVars, tabVars, p2pVars, scanVars, thrVars, fwVars
    <3> QED
      BY <1>0, <2>1, <2>2, <3>1, <3>2, Fitting, MovedShapes, MovedThreading
         DEF OpenAt, CloseAt, CfgAt, Both, AddAt, RemoveAt
  <2>6. DeviceTimed' /\ RunningUp'
    BY <1>5, <2>1, <2>2 DEF StartP2pDevice, DeviceTimed, RunningUp, Moved, OpenAt, CloseAt,
       Threads, Shapes,
       vifVars, tabVars, p2pVars, scanVars, thrVars, fwVars
  <2>7. Opening' /\ Closing' /\ Configuring'
    <3>1. Opening' /\ Closing'
      BY <1>5, <2>1, <2>2, IfaceAssumption DEF StartP2pDevice, Opening, Closing, RunningUp,
         DeviceTimed,
         Moved, OpenAt, CloseAt, Threads, Answered, Shapes, vifVars, tabVars, p2pVars,
         scanVars, thrVars, fwVars
    <3>2. Configuring'
      BY <1>5, <2>1, <2>2 DEF StartP2pDevice, Configuring, RunningUp, Shapes,
         Moved, Both, Threads, vifVars, tabVars, p2pVars, scanVars, thrVars, fwVars
    <3> QED BY <3>1, <3>2
  <2>8. ScanInv'
    BY <1>5, <2>1, <2>2, ScanStays DEF StartP2pDevice, Moved, Threads, vifVars, tabVars,
       p2pVars, scanVars, thrVars, fwVars
  <2> QED BY <2>2, <2>4, <2>5, <2>6, <2>7, <2>8 DEF Moved
<1>6. ASSUME NEW v \in Vifs, ScanBegin(v) PROVE IfaceInv'
  <2>1. /\ \A s \in Threads : pc[s] = "idle"
        /\ DOMAIN arg' = Threads /\ arg'["cfg"] = v
        /\ \A s \in Threads, i \in Idx : ~Given(s, i) /\ ~Removed(s, i)
        /\ \A x : ~Changing(x)
    BY <1>0, <1>6, BeforeCall DEF ScanBegin
  <2>2. \/ v = p2pDev /\ v \notin up /\ Moved("cfg", [m |-> "add"], "scan.added")
        \/ Moved("cfg", [m |-> "scan"], "scan.started")
    BY <1>0, <1>6, <2>1, Moves DEF ScanBegin, Silent, Begin
  <2>3. \A x : ~Changing(x)'
    BY <2>2 DEF Moved, Changing, Threads
  <2>4. TableInv' /\ Deferring' /\ FirmwareHas'
    BY <1>6, <2>1, <2>2, <2>3, TableStays DEF ScanBegin, Moved, Shapes, RunningUp, vifVars,
       tabVars, p2pVars, scanVars, thrVars, fwVars
  <2>5. Shapes' /\ Threading'
    <3>1. DOMAIN type' = Vifs /\ vifs' \subseteq Vifs /\ deferred' \in Seq(Idx)
          /\ vifIdx' \in [Vifs -> Idx] /\ table' \in [Idx -> Vifs \cup {None}]
          /\ UNCHANGED <<inds, fwIfs>>
      BY <1>6, <2>4 DEF ScanBegin, Shapes, vifVars, tabVars, p2pVars, scanVars, thrVars, fwVars
    <3>2. vifIdx[v] \in Idx /\ UNCHANGED vifIdx
      BY <1>6 DEF ScanBegin, Shapes, vifVars, tabVars, p2pVars, scanVars, thrVars, fwVars
    <3>3. ASSUME Moved("cfg", [m |-> "add"], "scan.added") PROVE Shapes' /\ Threading'
      BY <1>0, <2>1, <3>3, <3>1, <3>2, Fitting, MovedShapes, MovedThreading
         DEF OpenAt, CloseAt, CfgAt, Both, AddAt, RemoveAt
    <3>4. ASSUME Moved("cfg", [m |-> "scan"], "scan.started") PROVE Shapes' /\ Threading'
      BY <1>0, <2>1, <3>4, <3>1, <3>2, Fitting, MovedShapes, MovedThreading
         DEF OpenAt, CloseAt, CfgAt, Both, AddAt, RemoveAt
    <3> QED BY <2>2, <3>3, <3>4
  <2>6. DeviceTimed' /\ RunningUp'
    BY <1>6, <2>1, <2>2 DEF ScanBegin, DeviceTimed, RunningUp, Moved, OpenAt, CloseAt,
       Threads, Shapes,
       vifVars, tabVars, p2pVars, scanVars, thrVars, fwVars, ArmAlive
  <2>7. Opening' /\ Closing' /\ Configuring'
    <3>1. Opening' /\ Closing'
      BY <1>6, <2>1, <2>2, IfaceAssumption DEF ScanBegin, Opening, Closing, RunningUp,
         DeviceTimed,
         Moved, OpenAt, CloseAt, Threads, Answered, Shapes, vifVars, tabVars, p2pVars,
         scanVars, thrVars, fwVars, ArmAlive
    <3>2. Configuring'
      BY <1>6, <2>1, <2>2 DEF ScanBegin, Configuring, RunningUp, Shapes,
         Moved, Both, Threads, vifVars, tabVars, p2pVars, scanVars, thrVars, fwVars, ArmAlive
    <3> QED BY <3>1, <3>2
  <2>8. ScanInv'
    BY <1>6, <2>1, <2>2 DEF ScanBegin, ScanInv, ScanHeld, Moved, Threads, vifVars, tabVars,
       p2pVars, scanVars, thrVars, fwVars
  <2> QED BY <2>2, <2>4, <2>5, <2>6, <2>7, <2>8 DEF Moved
<1>7. ASSUME NEW v \in Vifs, NEW b \in BOOLEAN, RocBegin(v, b) PROVE IfaceInv'
  <2>1. /\ \A s \in Threads : pc[s] = "idle"
        /\ DOMAIN arg' = Threads /\ arg'["cfg"] = v
        /\ \A s \in Threads, i \in Idx : ~Given(s, i) /\ ~Removed(s, i)
        /\ \A x : ~Changing(x)
    BY <1>0, <1>7, BeforeCall DEF RocBegin
  <2>2. \/ v = p2pDev /\ v \notin up /\ Moved("cfg", [m |-> "add", mgmt |-> b], "roc.added")
        \/ Moved("cfg", [m |-> "roc"], "roc.sent")
    BY <1>0, <1>7, <2>1, Moves DEF RocBegin, Silent, Begin, RocNeedsDevice
  <2>3. \A x : ~Changing(x)'
    BY <2>2 DEF Moved, Changing, Threads
  <2>4. TableInv' /\ Deferring' /\ FirmwareHas'
    BY <1>7, <2>1, <2>2, <2>3, TableStays DEF RocBegin, Moved, Shapes, RunningUp, vifVars,
       tabVars, p2pVars, scanVars, thrVars, fwVars
  <2>5. Shapes' /\ Threading'
    <3>1. DOMAIN type' = Vifs /\ vifs' \subseteq Vifs /\ deferred' \in Seq(Idx)
          /\ vifIdx' \in [Vifs -> Idx] /\ table' \in [Idx -> Vifs \cup {None}]
          /\ UNCHANGED <<inds, fwIfs>>
      BY <1>7, <2>4 DEF RocBegin, Shapes, vifVars, tabVars, p2pVars, scanVars, thrVars, fwVars
    <3>2. vifIdx[v] \in Idx /\ UNCHANGED vifIdx
      BY <1>7 DEF RocBegin, Shapes, vifVars, tabVars, p2pVars, scanVars, thrVars, fwVars
    <3>3. ASSUME Moved("cfg", [m |-> "add", mgmt |-> b], "roc.added") PROVE Shapes' /\ Threading'
      <4>1. Fits([m |-> "add", mgmt |-> b], "roc.added")
        BY <1>7, Fitting
      <4>2. "roc.added" \in CfgAt /\ "roc.added" \notin RemoveAt
        BY DEF CfgAt, RemoveAt
      <4> QED BY <1>0, <2>1, <3>3, <3>1, <4>1, <4>2, MovedShapes, MovedThreading
    <3>4. ASSUME Moved("cfg", [m |-> "roc"], "roc.sent") PROVE Shapes' /\ Threading'
      BY <1>0, <2>1, <3>4, <3>1, <3>2, Fitting, MovedShapes, MovedThreading
         DEF OpenAt, CloseAt, CfgAt, Both, AddAt, RemoveAt
    <3> QED BY <2>2, <3>3, <3>4
  <2>6. DeviceTimed' /\ RunningUp'
    BY <1>7, <2>1, <2>2 DEF RocBegin, DeviceTimed, RunningUp, Moved, OpenAt, CloseAt, Threads,
       Shapes,
       vifVars, tabVars, p2pVars, scanVars, thrVars, fwVars, ArmAlive, RocNeedsDevice
  <2>7. Opening' /\ Closing' /\ Configuring'
    <3>1. Opening' /\ Closing'
      BY <1>7, <2>1, <2>2, IfaceAssumption DEF RocBegin, Opening, Closing, RunningUp,
         DeviceTimed,
         Moved, OpenAt, CloseAt, Threads, Answered, Shapes, vifVars, tabVars, p2pVars,
         scanVars, thrVars, fwVars, ArmAlive, RocNeedsDevice
    <3>2. Configuring'
      BY <1>7, <2>1, <2>2 DEF RocBegin, Configuring, RunningUp, Shapes,
         Moved, Both, Threads, vifVars, tabVars, p2pVars, scanVars, thrVars, fwVars, ArmAlive,
         RocNeedsDevice
    <3> QED BY <3>1, <3>2
  <2>8. ScanInv'
    BY <1>7, <2>1, <2>2, ScanStays DEF RocBegin, Moved, Threads, vifVars, tabVars, p2pVars,
       scanVars, thrVars, fwVars
  <2> QED BY <2>2, <2>4, <2>5, <2>6, <2>7, <2>8 DEF Moved
<1>8. ASSUME NEW v \in Vifs, NEW k \in Changes, k # "P2P_DEVICE", ChangeIface(v, k) PROVE IfaceInv'
  <2>1. /\ \A s \in Threads : pc[s] = "idle"
        /\ DOMAIN arg' = Threads /\ arg'["cfg"] = v
        /\ \A s \in Threads, i \in Idx : ~Given(s, i) /\ ~Removed(s, i)
        /\ \A x : ~Changing(x)
    BY <1>0, <1>8, BeforeCall DEF ChangeIface, BeginBoth
  <2>2. \/ v \in up /\ Moved("cfg", [m |-> "scancancel"], "chg.scan")
        \/ v \in up /\ Moved("cfg", [m |-> "remove", i |-> vifIdx[v]], "chg.removed")
        \/ Moved("cfg", None, "idle")
    BY <1>0, <1>8, <2>1, Moves DEF ChangeIface, Silent, Begin, BeginBoth
  <2>3. \A x : ~Changing(x)'
    BY <2>2 DEF Moved, Changing, Threads
  <2>4. TableInv' /\ Deferring' /\ FirmwareHas'
    BY <1>8, <2>1, <2>2, <2>3, TableStays DEF ChangeIface, Moved, Shapes, RunningUp, vifVars,
       tabVars, p2pVars, scanVars, thrVars, fwVars
  <2>5. Shapes' /\ Threading'
    <3>1. DOMAIN type' = Vifs /\ vifs' \subseteq Vifs /\ deferred' \in Seq(Idx)
          /\ vifIdx' \in [Vifs -> Idx] /\ table' \in [Idx -> Vifs \cup {None}]
          /\ UNCHANGED <<inds, fwIfs>>
      BY <1>8, <2>4 DEF ChangeIface, Shapes, vifVars, tabVars, p2pVars, scanVars, thrVars,
         fwVars
    <3>2. vifIdx[v] \in Idx /\ UNCHANGED vifIdx
      BY <1>8 DEF ChangeIface, Shapes, vifVars, tabVars, p2pVars, scanVars, thrVars, fwVars
    <3>3. ASSUME Moved("cfg", [m |-> "scancancel"], "chg.scan") PROVE Shapes' /\ Threading'
      BY <1>0, <2>1, <3>3, <3>1, <3>2, Fitting, MovedShapes, MovedThreading
         DEF OpenAt, CloseAt, CfgAt, Both, AddAt, RemoveAt
    <3>4. ASSUME Moved("cfg", [m |-> "remove", i |-> vifIdx[v]], "chg.removed") PROVE Shapes' /\ Threading'
      BY <1>0, <2>1, <3>4, <3>1, <3>2, Fitting, MovedShapes, MovedThreading
         DEF OpenAt, CloseAt, CfgAt, Both, AddAt, RemoveAt
    <3>5. ASSUME Moved("cfg", None, "idle") PROVE Shapes' /\ Threading'
      BY <1>0, <2>1, <3>5, <3>1, <3>2, Fitting, MovedShapes, MovedThreading
         DEF OpenAt, CloseAt, CfgAt, Both, AddAt, RemoveAt
    <3> QED BY <2>2, <3>3, <3>4, <3>5
  <2>6. DeviceTimed' /\ RunningUp'
    BY <1>8, <2>1, <2>2 DEF ChangeIface, DeviceTimed, RunningUp, Moved, OpenAt, CloseAt,
       Threads, Shapes,
       vifVars, tabVars, p2pVars, scanVars, thrVars, fwVars, MayChange
  <2>7. Opening' /\ Closing' /\ Configuring'
    <3>1. Opening' /\ Closing'
      BY <1>8, <2>1, <2>2, IfaceAssumption DEF ChangeIface, Opening, Closing, RunningUp,
         DeviceTimed,
         Moved, OpenAt, CloseAt, Threads, Answered, Shapes, vifVars, tabVars, p2pVars,
         scanVars, thrVars, fwVars, MayChange
    <3>2. Configuring'
      BY <1>8, <2>1, <2>2 DEF ChangeIface, Configuring, RunningUp, Shapes,
         Moved, Both, Threads, vifVars, tabVars, p2pVars, scanVars, thrVars, fwVars, MayChange
    <3> QED BY <3>1, <3>2
  <2>8. ScanInv'
    BY <1>8, <2>1, <2>2, ScanStays DEF ChangeIface, Moved, Threads, vifVars, tabVars, p2pVars,
       scanVars, thrVars, fwVars
  <2> QED BY <2>2, <2>4, <2>5, <2>6, <2>7, <2>8 DEF Moved
<1>9. ASSUME NEW v \in Vifs, StopP2pDevice(v) PROVE IfaceInv'
  <2>1. /\ \A s \in Threads : pc[s] = "idle"
        /\ DOMAIN arg' = Threads /\ arg'["cfg"] = v
        /\ \A s \in Threads, i \in Idx : ~Given(s, i) /\ ~Removed(s, i)
        /\ \A x : ~Changing(x)
    BY <1>0, <1>9, BeforeCall DEF StopP2pDevice
  <2>2. \/ Moved("cfg", [m |-> "scancancel"], "stop.scan")
        \/ Moved("cfg", None, "idle")
    BY <1>0, <1>9, <2>1, Moves DEF StopP2pDevice, Silent, Begin
  <2>3. \A x : ~Changing(x)'
    BY <2>2 DEF Moved, Changing, Threads
  <2>4. TableInv' /\ Deferring' /\ FirmwareHas' /\ deferred' \in Seq(Idx)
    <3>1. CASE UNCHANGED <<tabVars, deferred>>
      BY <1>9, <2>1, <2>2, <2>3, <3>1, TableStays DEF StopP2pDevice, Moved, Shapes, RunningUp,
         vifVars, tabVars, p2pVars, scanVars, thrVars, fwVars
    <3>2. CASE v \in up /\ Uninstall(v) /\ deferred' = Append(deferred, vifIdx[v])
      <4>1. UNCHANGED <<vifs, fwIfs, dead>>
        BY <1>9 DEF StopP2pDevice, vifVars, tabVars, p2pVars, scanVars, thrVars, fwVars
      <4>2. vifIdx[v] \in Idx
        BY DEF Shapes
      <4> QED BY <2>1, <2>2, <2>3, <3>2, <4>1, <4>2, TableDefer DEF Moved
    <3> QED BY <1>9, <3>1, <3>2 DEF StopP2pDevice, StopDevice, tabVars
  <2>5. Shapes' /\ Threading'
    <3>1. DOMAIN type' = Vifs /\ vifs' \subseteq Vifs /\ deferred' \in Seq(Idx)
          /\ vifIdx' \in [Vifs -> Idx] /\ table' \in [Idx -> Vifs \cup {None}]
          /\ UNCHANGED <<inds, fwIfs>>
      BY <1>9, <2>4 DEF StopP2pDevice, Shapes, vifVars, tabVars, p2pVars, scanVars, thrVars,
         fwVars, StopDevice, Uninstall
    <3>2. vifIdx[v] \in Idx /\ UNCHANGED vifIdx
      BY <1>9 DEF StopP2pDevice, Shapes, vifVars, tabVars, p2pVars, scanVars, thrVars, fwVars,
         StopDevice, Uninstall
    <3>3. ASSUME Moved("cfg", [m |-> "scancancel"], "stop.scan") PROVE Shapes' /\ Threading'
      BY <1>0, <2>1, <3>3, <3>1, <3>2, Fitting, MovedShapes, MovedThreading
         DEF OpenAt, CloseAt, CfgAt, Both, AddAt, RemoveAt
    <3>4. ASSUME Moved("cfg", None, "idle") PROVE Shapes' /\ Threading'
      BY <1>0, <2>1, <3>4, <3>1, <3>2, Fitting, MovedShapes, MovedThreading
         DEF OpenAt, CloseAt, CfgAt, Both, AddAt, RemoveAt
    <3> QED BY <2>2, <3>3, <3>4
  <2>6. DeviceTimed' /\ RunningUp'
    BY <1>9, <2>1, <2>2 DEF StopP2pDevice, DeviceTimed, RunningUp, Moved, OpenAt, CloseAt,
       Threads, Shapes,
       vifVars, tabVars, p2pVars, scanVars, thrVars, fwVars, StopDevice, StopTimer, Uninstall
  <2>7. Opening' /\ Closing' /\ Configuring'
    <3>1. Opening' /\ Closing'
      BY <1>9, <2>1, <2>2, IfaceAssumption DEF StopP2pDevice, Opening, Closing, RunningUp,
         DeviceTimed,
         Moved, OpenAt, CloseAt, Threads, Answered, Shapes, vifVars, tabVars, p2pVars,
         scanVars, thrVars, fwVars, StopDevice, StopTimer, Uninstall
    <3>2. Configuring'
      BY <1>9, <2>1, <2>2 DEF StopP2pDevice, Configuring, RunningUp, Shapes,
         Moved, Both, Threads, vifVars, tabVars, p2pVars, scanVars, thrVars, fwVars,
         StopDevice, StopTimer, Uninstall
    <3> QED BY <3>1, <3>2
  <2>8. ScanInv'
    BY <1>9, <2>1, <2>2 DEF StopP2pDevice, AbortScan, ScanInv, ScanHeld, Moved, Threads,
       vifVars, tabVars, p2pVars, scanVars, thrVars, fwVars
  <2> QED BY <2>2, <2>4, <2>5, <2>6, <2>7, <2>8 DEF Moved
<1>10. ASSUME CancelRoc PROVE IfaceInv'
  <2>1. /\ \A s \in Threads : pc[s] = "idle"
        /\ DOMAIN arg' = Threads
        /\ \A s \in Threads, i \in Idx : ~Given(s, i) /\ ~Removed(s, i)
        /\ \A x : ~Changing(x)
    BY <1>0, <1>10, BeforeCall DEF CancelRoc
  <2>2. Moved("cfg", [m |-> "cancelroc"], "roc.cancel")
    BY <1>0, <1>10, <2>1, Moves DEF CancelRoc, Silent
  <2>3. \A x : ~Changing(x)'
    BY <2>2 DEF Moved, Changing, Threads
  <2>4. TableInv' /\ Deferring' /\ FirmwareHas'
    BY <1>10, <2>1, <2>2, <2>3, TableStays DEF CancelRoc, Moved, Shapes, RunningUp, vifVars,
       tabVars, p2pVars, scanVars, thrVars, fwVars
  <2>5. Shapes' /\ Threading'
    <3>1. UNCHANGED <<type, vifs, deferred, vifIdx, table, inds, fwIfs>>
      BY <1>10 DEF CancelRoc, vifVars, tabVars, p2pVars, scanVars, thrVars, fwVars
    <3> QED BY <1>0, <2>1, <2>2, <3>1, Fitting, MovedShapes, MovedThreading DEF CfgAt,
       RemoveAt, Shapes
  <2>6. DeviceTimed' /\ RunningUp'
    BY <1>10, <2>1, <2>2 DEF CancelRoc, DeviceTimed, RunningUp, Moved, OpenAt, CloseAt,
       Threads, vifVars, tabVars, p2pVars, scanVars, thrVars, fwVars
  <2>7. Opening' /\ Closing' /\ Configuring'
    BY <2>2 DEF Opening, Closing, Configuring, Moved, OpenAt, CloseAt, Both, Threads
  <2>8. ScanInv'
    BY <1>10, <2>1, <2>2, ScanStays DEF CancelRoc, Moved, Threads, vifVars, tabVars, p2pVars,
       scanVars, thrVars, fwVars
  <2> QED BY <2>2, <2>4, <2>5, <2>6, <2>7, <2>8 DEF Moved
<1> QED
  BY <1>1, <1>2, <1>3, <1>4, <1>5, <1>6, <1>7, <1>8, <1>9, <1>10, <1>11 DEF Call,
     MgmtTxOffChannel

(* Open and close go on.                                                   *)
LEMMA NetSteps ==
    ASSUME IfaceInv, NetStep
    PROVE  IfaceInv'
<1> USE DEF IfaceInv
<1>0. "net" \in Threads /\ "cfg" \in Threads
  BY DEF Threads
<1>1. ASSUME OpenFail PROVE IfaceInv'
  <2> DEFINE v == arg["net"]
  <2>1. /\ pc["net"] \in {"open.start", "open.p2p", "open.added"} /\ pc["cfg"] = "idle" /\ ~Ok("net") /\ dead
        /\ reply["net"] # None /\ reply["net"].idx \in Idx
        /\ \A s \in Threads, i \in Idx :
              Given(s, i) <=> s = "net" /\ pc["net"] \in AddAt /\ Ok("net") /\ reply["net"].idx = i
        /\ \A s \in Threads, i \in Idx :
              Removed(s, i) <=> s = "net" /\ pc["net"] \in RemoveAt /\ vifIdx[v] = i
    BY <1>0, <1>1, BeforeStep DEF OpenFail, At, Silent, Threads
  <2>2. Moved("net", None, "idle")
    BY <1>0, <1>1, <2>1, Moves, IfaceAssumption DEF OpenFail, Silent, At, Threads
  <2>3. \A x : ~Changing(x)'
    BY <1>1, <2>2 DEF OpenFail, Moved, Changing, Threads
  <2>4. TableInv' /\ Deferring' /\ FirmwareHas'
    <3>1. dead \/ \A x : ~Changing(x)
      BY <2>1 DEF Changing
    <3>2. UNCHANGED <<vifs, up, vifIdx, table, started, fwIfs, deferred, dead>>
      BY <1>1 DEF OpenFail, vifVars, tabVars, p2pVars, scanVars, thrVars, fwVars
    <3>3. dead \/ \A s \in Threads, i \in Idx : ~Given(s, i) /\ ~Removed(s, i)
      BY <2>1 DEF AddAt, RemoveAt
    <3> QED BY <2>2, <2>3, <3>1, <3>2, <3>3, TableStays DEF Moved, Shapes, RunningUp
  <2>5. Shapes' /\ Threading'
    <3>1. /\ DOMAIN type' = Vifs /\ vifs' \subseteq Vifs /\ deferred' \in Seq(Idx) /\ DOMAIN arg' = Threads
          /\ vifIdx' \in [Vifs -> Idx] /\ table' \in [Idx -> Vifs \cup {None}]
          /\ UNCHANGED <<inds, fwIfs>>
      BY <1>1, <2>1, <2>4 DEF OpenFail, Shapes, vifVars, tabVars, p2pVars, scanVars, thrVars,
         fwVars
    <3> QED
      BY <1>0, <2>1, <2>2, <3>1, Fitting, MovedShapes, MovedThreading
         DEF OpenAt, CloseAt, CfgAt, Both, AddAt, RemoveAt
  <2>6. DeviceTimed' /\ RunningUp'
    BY <1>1, <2>1, <2>2, IfaceAssumption DEF OpenFail, DeviceTimed, RunningUp, Opening,
       Closing, Configuring, Moved, OpenAt, CloseAt, Both,
       Threads, Shapes, Silent, vifVars, tabVars, p2pVars, scanVars, thrVars, fwVars
  <2>7. Opening' /\ Closing' /\ Configuring'
    <3>1. Opening' /\ Closing'
      BY <1>1, <2>1, <2>2, IfaceAssumption DEF OpenFail, Opening, Closing, RunningUp,
         DeviceTimed,
         Moved, Quiet, OpenAt, CloseAt, Threads, Answered, Shapes, vifVars, tabVars, p2pVars,
         scanVars, thrVars, fwVars
    <3>2. Configuring'
      BY <1>1, <2>1, <2>2 DEF OpenFail, Configuring, RunningUp, Shapes,
         Moved, Both, Threads, vifVars, tabVars, p2pVars, scanVars, thrVars, fwVars
    <3> QED BY <3>1, <3>2
  <2>8. ScanInv'
    BY <1>1, <2>1, <2>2, ScanStays DEF OpenFail, Moved, Threads, vifVars, tabVars, p2pVars,
       scanVars, thrVars, fwVars
  <2> QED BY <2>2, <2>4, <2>5, <2>6, <2>7, <2>8 DEF Moved
<1>2. ASSUME OpenDevice PROVE IfaceInv'
  <2> DEFINE v == arg["net"]
  <2>1. /\ pc["net"] \in {"open", "open.start"} /\ pc["cfg"] = "idle"
        /\ (pc["net"] = "open" \/ (reply["net"] # None /\ reply["net"].idx \in Idx))
        /\ \A s \in Threads, i \in Idx :
              Given(s, i) <=> s = "net" /\ pc["net"] \in AddAt /\ Ok("net") /\ reply["net"].idx = i
        /\ \A s \in Threads, i \in Idx :
              Removed(s, i) <=> s = "net" /\ pc["net"] \in RemoveAt /\ vifIdx[v] = i
    BY <1>0, <1>2, BeforeStep DEF OpenDevice, At, Silent, Threads
  <2>2. \/ p2pDev \in vifs \ up /\ Moved("net", [m |-> "add"], "open.p2p")
        \/ Moved("net", [m |-> "add"], "open.added")
    BY <1>0, <1>2, <2>1, Moves, IfaceAssumption DEF OpenDevice, Silent, At, Threads, Opening,
       OpenAt, Shapes
  <2>3. \A x : ~Changing(x)'
    BY <1>2, <2>2 DEF OpenDevice, Moved, Changing, Threads
  <2>4. TableInv' /\ Deferring' /\ FirmwareHas'
    <3>1. dead \/ \A x : ~Changing(x)
      BY <2>1 DEF Changing
    <3>2. UNCHANGED <<vifs, up, vifIdx, table, started, fwIfs, deferred, dead>>
      BY <1>2 DEF OpenDevice, vifVars, tabVars, p2pVars, scanVars, thrVars, fwVars
    <3>3. dead \/ \A s \in Threads, i \in Idx : ~Given(s, i) /\ ~Removed(s, i)
      BY <2>1 DEF AddAt, RemoveAt
    <3> QED BY <2>2, <2>3, <3>1, <3>2, <3>3, TableStays DEF Moved, Shapes, RunningUp
  <2>5. Shapes' /\ Threading'
    <3>1. /\ DOMAIN type' = Vifs /\ vifs' \subseteq Vifs /\ deferred' \in Seq(Idx) /\ DOMAIN arg' = Threads
          /\ vifIdx' \in [Vifs -> Idx] /\ table' \in [Idx -> Vifs \cup {None}]
          /\ UNCHANGED <<inds, fwIfs>>
      BY <1>2, <2>1, <2>4 DEF OpenDevice, Shapes, vifVars, tabVars, p2pVars, scanVars,
         thrVars, fwVars
    <3>3. ASSUME Moved("net", [m |-> "add"], "open.p2p") PROVE Shapes' /\ Threading'
      BY <1>0, <2>1, <3>3, <3>1, Fitting, MovedShapes, MovedThreading
         DEF OpenAt, CloseAt, CfgAt, Both, AddAt, RemoveAt
    <3>4. ASSUME Moved("net", [m |-> "add"], "open.added") PROVE Shapes' /\ Threading'
      BY <1>0, <2>1, <3>4, <3>1, Fitting, MovedShapes, MovedThreading
         DEF OpenAt, CloseAt, CfgAt, Both, AddAt, RemoveAt
    <3> QED BY <2>2, <3>3, <3>4
  <2>6. DeviceTimed' /\ RunningUp'
    BY <1>2, <2>1, <2>2, IfaceAssumption DEF OpenDevice, DeviceTimed, RunningUp, Opening,
       Closing, Configuring, Moved, OpenAt, CloseAt, Both,
       Threads, Shapes, Silent, vifVars, tabVars, p2pVars, scanVars, thrVars, fwVars, ArmAlive
  <2>7. Opening' /\ Closing' /\ Configuring'
    <3>1. Opening' /\ Closing'
      BY <1>2, <2>1, <2>2, IfaceAssumption DEF OpenDevice, Opening, Closing, RunningUp,
         DeviceTimed,
         Moved, Quiet, OpenAt, CloseAt, Threads, Answered, Shapes, vifVars, tabVars, p2pVars,
         scanVars, thrVars, fwVars, ArmAlive, Confirms
    <3>2. Configuring'
      BY <1>2, <2>1, <2>2 DEF OpenDevice, Configuring, RunningUp, Shapes,
         Moved, Both, Threads, vifVars, tabVars, p2pVars, scanVars, thrVars, fwVars, ArmAlive
    <3> QED BY <3>1, <3>2
  <2>8. ScanInv'
    BY <1>2, <2>1, <2>2, ScanStays DEF OpenDevice, Moved, Threads, vifVars, tabVars, p2pVars,
       scanVars, thrVars, fwVars
  <2> QED BY <2>2, <2>4, <2>5, <2>6, <2>7, <2>8 DEF Moved
<1>3. ASSUME OpenP2pAdded PROVE IfaceInv'
  <2> DEFINE v == arg["net"]
  <2>1. /\ pc["net"] \in {"open.p2p"} /\ pc["cfg"] = "idle" /\ Ok("net")
        /\ reply["net"] # None /\ reply["net"].idx \in Idx
        /\ \A s \in Threads, i \in Idx :
              Given(s, i) <=> s = "net" /\ pc["net"] \in AddAt /\ Ok("net") /\ reply["net"].idx = i
        /\ \A s \in Threads, i \in Idx :
              Removed(s, i) <=> s = "net" /\ pc["net"] \in RemoveAt /\ vifIdx[v] = i
    BY <1>0, <1>3, BeforeStep DEF OpenP2pAdded, At, Silent, Threads
  <2>2. Moved("net", [m |-> "add"], "open.added")
    BY <1>0, <1>3, <2>1, Moves, IfaceAssumption DEF OpenP2pAdded, Silent, At, Threads
  <2>3. \A x : ~Changing(x)'
    BY <1>3, <2>2 DEF OpenP2pAdded, Moved, Changing, Threads
  <2>4. TableInv' /\ Deferring' /\ FirmwareHas'
    <3>1. p2pDev \in vifs /\ p2pDev \notin up
      BY <1>3, <2>1 DEF Opening, OpenAt
    <3>2. \A x : ~Changing(x)
      BY <2>1 DEF Changing
    <3>3. Install(p2pDev, reply["net"].idx) /\ UNCHANGED <<vifs, fwIfs, deferred, dead>>
      BY <1>3 DEF OpenP2pAdded, vifVars, fwVars
    <3>4. Given("net", reply["net"].idx) /\ \A s \in Threads, i \in Idx : ~Removed(s, i)
      BY <1>0, <2>1 DEF AddAt, RemoveAt
    <3> QED BY <1>0, <2>1, <2>2, <2>3, <3>1, <3>2, <3>3, <3>4, TableInstall DEF Moved
  <2>5. Shapes' /\ Threading'
    <3>1. /\ DOMAIN type' = Vifs /\ vifs' \subseteq Vifs /\ deferred' \in Seq(Idx) /\ DOMAIN arg' = Threads
          /\ vifIdx' \in [Vifs -> Idx] /\ table' \in [Idx -> Vifs \cup {None}]
          /\ UNCHANGED <<inds, fwIfs>>
      BY <1>3, <2>1, <2>4 DEF OpenP2pAdded, Shapes, vifVars, tabVars, p2pVars, scanVars,
         thrVars, fwVars, Install, Opening, OpenAt
    <3> QED
      BY <1>0, <2>1, <2>2, <3>1, Fitting, MovedShapes, MovedThreading
         DEF OpenAt, CloseAt, CfgAt, Both, AddAt, RemoveAt
  <2>6. DeviceTimed' /\ RunningUp'
    BY <1>3, <2>1, <2>2, IfaceAssumption DEF OpenP2pAdded, DeviceTimed, RunningUp, Opening,
       Closing, Configuring, Moved, OpenAt, CloseAt, Both,
       Threads, Shapes, Silent, vifVars, tabVars, p2pVars, scanVars, thrVars, fwVars,
       ArmAlive, Install
  <2>7. Opening' /\ Closing' /\ Configuring'
    <3>1. Opening' /\ Closing'
      BY <1>3, <2>1, <2>2, IfaceAssumption DEF OpenP2pAdded, Opening, Closing, RunningUp,
         DeviceTimed,
         Moved, Quiet, OpenAt, CloseAt, Threads, Answered, Shapes, vifVars, tabVars, p2pVars,
         scanVars, thrVars, fwVars, ArmAlive, Install, Confirms
    <3>2. Configuring'
      BY <1>3, <2>1, <2>2 DEF OpenP2pAdded, Configuring, RunningUp, Shapes,
         Moved, Both, Threads, vifVars, tabVars, p2pVars, scanVars, thrVars, fwVars, ArmAlive,
         Install
    <3> QED BY <3>1, <3>2
  <2>8. ScanInv'
    BY <1>3, <2>1, <2>2, ScanStays DEF OpenP2pAdded, Moved, Threads, vifVars, tabVars,
       p2pVars, scanVars, thrVars, fwVars
  <2> QED BY <2>2, <2>4, <2>5, <2>6, <2>7, <2>8 DEF Moved
<1>4. ASSUME OpenAdded PROVE IfaceInv'
  <2> DEFINE v == arg["net"]
  <2>1. /\ pc["net"] \in {"open.added"} /\ pc["cfg"] = "idle" /\ Ok("net")
        /\ reply["net"] # None /\ reply["net"].idx \in Idx
        /\ \A s \in Threads, i \in Idx :
              Given(s, i) <=> s = "net" /\ pc["net"] \in AddAt /\ Ok("net") /\ reply["net"].idx = i
        /\ \A s \in Threads, i \in Idx :
              Removed(s, i) <=> s = "net" /\ pc["net"] \in RemoveAt /\ vifIdx[v] = i
    BY <1>0, <1>4, BeforeStep DEF OpenAdded, At, Silent, Threads
  <2>2. Moved("net", None, "idle")
    BY <1>0, <1>4, <2>1, Moves, IfaceAssumption DEF OpenAdded, Silent, At, Threads
  <2>3. \A x : ~Changing(x)'
    BY <1>4, <2>2 DEF OpenAdded, Moved, Changing, Threads
  <2>4. TableInv' /\ Deferring' /\ FirmwareHas'
    <3>1. arg["net"] \in vifs /\ arg["net"] \notin up
      BY <1>4, <2>1 DEF Opening, OpenAt, RunningUp
    <3>2. \A x : ~Changing(x)
      BY <2>1 DEF Changing
    <3>3. Install(arg["net"], reply["net"].idx) /\ UNCHANGED <<vifs, fwIfs, deferred, dead>>
      BY <1>4 DEF OpenAdded, vifVars, fwVars
    <3>4. Given("net", reply["net"].idx) /\ \A s \in Threads, i \in Idx : ~Removed(s, i)
      BY <1>0, <2>1 DEF AddAt, RemoveAt
    <3> QED BY <1>0, <2>1, <2>2, <2>3, <3>1, <3>2, <3>3, <3>4, TableInstall DEF Moved
  <2>5. Shapes' /\ Threading'
    <3>1. /\ DOMAIN type' = Vifs /\ vifs' \subseteq Vifs /\ deferred' \in Seq(Idx) /\ DOMAIN arg' = Threads
          /\ vifIdx' \in [Vifs -> Idx] /\ table' \in [Idx -> Vifs \cup {None}]
          /\ UNCHANGED <<inds, fwIfs>>
      BY <1>4, <2>1, <2>4 DEF OpenAdded, Shapes, vifVars, tabVars, p2pVars, scanVars, thrVars,
         fwVars, Install, Opening, OpenAt, RunningUp
    <3> QED
      BY <1>0, <2>1, <2>2, <3>1, Fitting, MovedShapes, MovedThreading
         DEF OpenAt, CloseAt, CfgAt, Both, AddAt, RemoveAt
  <2>6. DeviceTimed' /\ RunningUp'
    BY <1>4, <2>1, <2>2, IfaceAssumption DEF OpenAdded, DeviceTimed, RunningUp, Opening,
       Closing, Configuring, Moved, OpenAt, CloseAt, Both,
       Threads, Shapes, Silent, vifVars, tabVars, p2pVars, scanVars, thrVars, fwVars, Install
  <2>7. Opening' /\ Closing' /\ Configuring'
    <3>1. Opening' /\ Closing'
      BY <1>4, <2>1, <2>2, IfaceAssumption DEF OpenAdded, Opening, Closing, RunningUp,
         DeviceTimed,
         Moved, Quiet, OpenAt, CloseAt, Threads, Answered, Shapes, vifVars, tabVars, p2pVars,
         scanVars, thrVars, fwVars, Install
    <3>2. Configuring'
      BY <1>4, <2>1, <2>2 DEF OpenAdded, Configuring, RunningUp, Shapes,
         Moved, Both, Threads, vifVars, tabVars, p2pVars, scanVars, thrVars, fwVars, Install
    <3> QED BY <3>1, <3>2
  <2>8. ScanInv'
    BY <1>4, <2>1, <2>2, ScanStays DEF OpenAdded, Moved, Threads, vifVars, tabVars, p2pVars,
       scanVars, thrVars, fwVars
  <2> QED BY <2>2, <2>4, <2>5, <2>6, <2>7, <2>8 DEF Moved
<1>5. ASSUME CloseCancelled PROVE IfaceInv'
  <2> DEFINE v == arg["net"]
  <2>1. /\ pc["net"] \in {"close.scan"} /\ pc["cfg"] = "idle"
        /\ reply["net"] # None /\ reply["net"].idx \in Idx /\ (Ok("net") \/ dead)
        /\ \A s \in Threads, i \in Idx :
              Given(s, i) <=> s = "net" /\ pc["net"] \in AddAt /\ Ok("net") /\ reply["net"].idx = i
        /\ \A s \in Threads, i \in Idx :
              Removed(s, i) <=> s = "net" /\ pc["net"] \in RemoveAt /\ vifIdx[v] = i
    BY <1>0, <1>5, BeforeStep DEF CloseCancelled, At, Silent, Threads
  <2>2. \/ Moved("net", [m |-> "remove", i |-> vifIdx[v]], "close.removed")
        \/ dead /\ Moved("net", None, "idle")
    BY <1>0, <1>5, <2>1, Moves, IfaceAssumption DEF CloseCancelled, Silent, At, Threads
  <2>3. \A x : ~Changing(x)'
    BY <1>5, <2>2 DEF CloseCancelled, Moved, Changing, Threads
  <2>4. TableInv' /\ Deferring' /\ FirmwareHas'
    <3>1. dead \/ \A x : ~Changing(x)
      BY <2>1 DEF Changing
    <3>2. UNCHANGED <<vifs, up, vifIdx, table, started, fwIfs, deferred, dead>>
      BY <1>5 DEF CloseCancelled, vifVars, tabVars, p2pVars, scanVars, thrVars, fwVars
    <3>3. dead \/ \A s \in Threads, i \in Idx : ~Given(s, i) /\ ~Removed(s, i)
      BY <2>1 DEF AddAt, RemoveAt
    <3> QED BY <2>2, <2>3, <3>1, <3>2, <3>3, TableStays DEF Moved, Shapes, RunningUp
  <2>5. Shapes' /\ Threading'
    <3>1. /\ DOMAIN type' = Vifs /\ vifs' \subseteq Vifs /\ deferred' \in Seq(Idx) /\ DOMAIN arg' = Threads
          /\ vifIdx' \in [Vifs -> Idx] /\ table' \in [Idx -> Vifs \cup {None}]
          /\ UNCHANGED <<inds, fwIfs>>
      BY <1>5, <2>1, <2>4 DEF CloseCancelled, Shapes, vifVars, tabVars, p2pVars, scanVars,
         thrVars, fwVars
    <3>2. vifIdx[v] \in Idx /\ vifIdx'[arg'["net"]] = vifIdx[v]
      BY <1>5, <2>1 DEF CloseCancelled, Shapes, Closing, CloseAt, Configuring, RunningUp,
         Both, vifVars, tabVars, p2pVars, scanVars, thrVars, fwVars
    <3>3. ASSUME Moved("net", [m |-> "remove", i |-> vifIdx[v]], "close.removed") PROVE Shapes' /\ Threading'
      BY <1>0, <2>1, <3>3, <3>1, <3>2, Fitting, MovedShapes, MovedThreading
         DEF OpenAt, CloseAt, CfgAt, Both, AddAt, RemoveAt
    <3>4. ASSUME Moved("net", None, "idle") PROVE Shapes' /\ Threading'
      BY <1>0, <2>1, <3>4, <3>1, <3>2, Fitting, MovedShapes, MovedThreading
         DEF OpenAt, CloseAt, CfgAt, Both, AddAt, RemoveAt
    <3> QED BY <2>2, <3>3, <3>4
  <2>6. DeviceTimed' /\ RunningUp'
    BY <1>5, <2>1, <2>2, IfaceAssumption DEF CloseCancelled, DeviceTimed, RunningUp, Opening,
       Closing, Configuring, Moved, OpenAt, CloseAt, Both,
       Threads, Shapes, Silent, vifVars, tabVars, p2pVars, scanVars, thrVars, fwVars
  <2>7. Opening' /\ Closing' /\ Configuring'
    <3>1. Opening' /\ Closing'
      BY <1>5, <2>1, <2>2, IfaceAssumption DEF CloseCancelled, Opening, Closing, RunningUp,
         DeviceTimed,
         Moved, Quiet, OpenAt, CloseAt, Threads, Answered, Shapes, vifVars, tabVars, p2pVars,
         scanVars, thrVars, fwVars
    <3>2. Configuring'
      BY <1>5, <2>1, <2>2 DEF CloseCancelled, Configuring, RunningUp, Shapes,
         Moved, Both, Threads, vifVars, tabVars, p2pVars, scanVars, thrVars, fwVars
    <3> QED BY <3>1, <3>2
  <2>8. ScanInv'
    BY <1>5, <2>1, <2>2 DEF CloseCancelled, KernelDown, Closing, CloseAt, ScanInv, ScanHeld,
       Moved, Threads, vifVars, tabVars, p2pVars, scanVars, thrVars, fwVars
  <2> QED BY <2>2, <2>4, <2>5, <2>6, <2>7, <2>8 DEF Moved
<1>6. ASSUME CloseRemoved PROVE IfaceInv'
  <2> DEFINE v == arg["net"]
  <2>1. /\ pc["net"] \in {"close.removed"} /\ pc["cfg"] = "idle"
        /\ reply["net"] # None /\ reply["net"].idx \in Idx
        /\ \A s \in Threads, i \in Idx :
              Given(s, i) <=> s = "net" /\ pc["net"] \in AddAt /\ Ok("net") /\ reply["net"].idx = i
        /\ \A s \in Threads, i \in Idx :
              Removed(s, i) <=> s = "net" /\ pc["net"] \in RemoveAt /\ vifIdx[v] = i
    BY <1>0, <1>6, BeforeStep DEF CloseRemoved, At, Silent, Threads
  <2>2. \/ started = 1 /\ Moved("net", [m |-> "reset"], "close.reset")
        \/ Moved("net", None, "idle")
    BY <1>0, <1>6, <2>1, Moves, IfaceAssumption DEF CloseRemoved, Silent, At, Threads
  <2>3. \A x : ~Changing(x)'
    BY <1>6, <2>2 DEF CloseRemoved, Moved, Changing, Threads
  <2>4. TableInv' /\ Deferring' /\ FirmwareHas'
    <3>1. v \in up /\ \A x : ~Changing(x)
      BY <2>1 DEF Closing, CloseAt, Changing
    <3>2. Uninstall(v) /\ UNCHANGED <<vifs, fwIfs, deferred, dead>>
      BY <1>6 DEF CloseRemoved, vifVars, fwVars
    <3>3. /\ \A s \in Threads, j \in Idx : ~Given(s, j)
          /\ \A j \in Idx : (\E s \in Threads : Removed(s, j)) <=> j = vifIdx[v]
      BY <1>0, <2>1 DEF AddAt, RemoveAt
    <3> QED BY <2>2, <2>3, <3>1, <3>2, <3>3, TableClose DEF Moved
  <2>5. Shapes' /\ Threading'
    <3>1. /\ DOMAIN type' = Vifs /\ vifs' \subseteq Vifs /\ deferred' \in Seq(Idx) /\ DOMAIN arg' = Threads
          /\ vifIdx' \in [Vifs -> Idx] /\ table' \in [Idx -> Vifs \cup {None}]
          /\ UNCHANGED <<inds, fwIfs>>
      BY <1>6, <2>1, <2>4 DEF CloseRemoved, Shapes, vifVars, tabVars, p2pVars, scanVars,
         thrVars, fwVars, Uninstall
    <3>3. ASSUME Moved("net", [m |-> "reset"], "close.reset") PROVE Shapes' /\ Threading'
      BY <1>0, <2>1, <3>3, <3>1, Fitting, MovedShapes, MovedThreading
         DEF OpenAt, CloseAt, CfgAt, Both, AddAt, RemoveAt
    <3>4. ASSUME Moved("net", None, "idle") PROVE Shapes' /\ Threading'
      BY <1>0, <2>1, <3>4, <3>1, Fitting, MovedShapes, MovedThreading
         DEF OpenAt, CloseAt, CfgAt, Both, AddAt, RemoveAt
    <3> QED BY <2>2, <3>3, <3>4
  <2>6. DeviceTimed' /\ RunningUp'
    BY <1>6, <2>1, <2>2, IfaceAssumption DEF CloseRemoved, DeviceTimed, RunningUp, Opening,
       Closing, Configuring, Moved, OpenAt, CloseAt, Both,
       Threads, Shapes, Silent, vifVars, tabVars, p2pVars, scanVars, thrVars, fwVars, Uninstall
  <2>9. started = 1 => up' = {}
    <3>1. v \in up /\ up \subseteq Vifs /\ up' = up \ {v} /\ started = Cardinality(up)
      BY <1>6, <2>1 DEF CloseRemoved, Uninstall, Closing, CloseAt, RunningUp, Shapes,
         TableInv, TableExact
    <3>2. IsFiniteSet(up)
      BY <3>1, FS_Subset, IfaceAssumption
    <3>3. \A S : IsFiniteSet(S) /\ Cardinality(S) = 1 => \E x : S = {x}
      BY FS_Singleton
    <3>4. started = 1 => \E x : up = {x}
      BY <3>1, <3>2, <3>3
    <3> QED BY <3>1, <3>4
  <2>7. Opening' /\ Closing' /\ Configuring'
    <3>1. Opening' /\ Closing'
      BY <1>6, <2>1, <2>2, <2>9, IfaceAssumption DEF CloseRemoved, Opening, Closing,
         RunningUp, DeviceTimed,
         Moved, Quiet, OpenAt, CloseAt, Threads, Answered, Shapes, vifVars, tabVars, p2pVars,
         scanVars, thrVars, fwVars, Uninstall
    <3>2. Configuring'
      BY <1>6, <2>1, <2>2 DEF CloseRemoved, Configuring, RunningUp, Shapes,
         Moved, Both, Threads, vifVars, tabVars, p2pVars, scanVars, thrVars, fwVars, Uninstall
    <3> QED BY <3>1, <3>2
  <2>8. ScanInv'
    BY <1>6, <2>1, <2>2 DEF CloseRemoved, KernelDown, Closing, CloseAt, ScanInv, ScanHeld,
       Moved, Threads, vifVars, tabVars, p2pVars, scanVars, thrVars, fwVars
  <2> QED BY <2>2, <2>4, <2>5, <2>6, <2>7, <2>8 DEF Moved
<1>7. ASSUME CloseReset PROVE IfaceInv'
  <2> DEFINE v == arg["net"]
  <2>1. /\ pc["net"] \in {"close.reset"} /\ pc["cfg"] = "idle"
        /\ reply["net"] # None /\ reply["net"].idx \in Idx
        /\ \A s \in Threads, i \in Idx :
              Given(s, i) <=> s = "net" /\ pc["net"] \in AddAt /\ Ok("net") /\ reply["net"].idx = i
        /\ \A s \in Threads, i \in Idx :
              Removed(s, i) <=> s = "net" /\ pc["net"] \in RemoveAt /\ vifIdx[v] = i
    BY <1>0, <1>7, BeforeStep DEF CloseReset, At, Silent, Threads
  <2>2. Moved("net", None, "idle")
    BY <1>0, <1>7, <2>1, Moves, IfaceAssumption DEF CloseReset, Silent, At, Threads
  <2>3. \A x : ~Changing(x)'
    BY <1>7, <2>2 DEF CloseReset, Moved, Changing, Threads
  <2>4. TableInv' /\ Deferring' /\ FirmwareHas'
    <3>1. dead \/ \A x : ~Changing(x)
      BY <2>1 DEF Changing
    <3>2. UNCHANGED <<vifs, up, vifIdx, table, started, fwIfs, deferred, dead>>
      BY <1>7 DEF CloseReset, vifVars, tabVars, p2pVars, scanVars, thrVars, fwVars
    <3>3. dead \/ \A s \in Threads, i \in Idx : ~Given(s, i) /\ ~Removed(s, i)
      BY <2>1 DEF AddAt, RemoveAt
    <3> QED BY <2>2, <2>3, <3>1, <3>2, <3>3, TableStays DEF Moved, Shapes, RunningUp
  <2>5. Shapes' /\ Threading'
    <3>1. /\ DOMAIN type' = Vifs /\ vifs' \subseteq Vifs /\ deferred' \in Seq(Idx) /\ DOMAIN arg' = Threads
          /\ vifIdx' \in [Vifs -> Idx] /\ table' \in [Idx -> Vifs \cup {None}]
          /\ UNCHANGED <<inds, fwIfs>>
      BY <1>7, <2>1, <2>4 DEF CloseReset, Shapes, vifVars, tabVars, p2pVars, scanVars,
         thrVars, fwVars
    <3> QED
      BY <1>0, <2>1, <2>2, <3>1, Fitting, MovedShapes, MovedThreading
         DEF OpenAt, CloseAt, CfgAt, Both, AddAt, RemoveAt
  <2>6. DeviceTimed' /\ RunningUp'
    BY <1>7, <2>1, <2>2, IfaceAssumption DEF CloseReset, DeviceTimed, RunningUp, Opening,
       Closing, Configuring, Moved, OpenAt, CloseAt, Both,
       Threads, Shapes, Silent, vifVars, tabVars, p2pVars, scanVars, thrVars, fwVars
  <2>7. Opening' /\ Closing' /\ Configuring'
    <3>1. Opening' /\ Closing'
      BY <1>7, <2>1, <2>2, IfaceAssumption DEF CloseReset, Opening, Closing, RunningUp,
         DeviceTimed,
         Moved, Quiet, OpenAt, CloseAt, Threads, Answered, Shapes, vifVars, tabVars, p2pVars,
         scanVars, thrVars, fwVars
    <3>2. Configuring'
      BY <1>7, <2>1, <2>2 DEF CloseReset, Configuring, RunningUp, Shapes,
         Moved, Both, Threads, vifVars, tabVars, p2pVars, scanVars, thrVars, fwVars
    <3> QED BY <3>1, <3>2
  <2>8. ScanInv'
    BY <1>7, <2>1, <2>2 DEF CloseReset, KernelDown, Closing, CloseAt, ScanInv, ScanHeld,
       Moved, Threads, vifVars, tabVars, p2pVars, scanVars, thrVars, fwVars
  <2> QED BY <2>2, <2>4, <2>5, <2>6, <2>7, <2>8 DEF Moved
<1> QED BY <1>1, <1>2, <1>3, <1>4, <1>5, <1>6, <1>7 DEF NetStep


(* The operations of cfg80211 go on.                                       *)
LEMMA CfgSteps ==
    ASSUME IfaceInv, CfgStep
    PROVE  IfaceInv'
<1> USE DEF IfaceInv
<1>0. "net" \in Threads /\ "cfg" \in Threads
  BY DEF Threads
<1>1. ASSUME ChangeFail PROVE IfaceInv'
  <2> DEFINE v == arg["cfg"]
  <2>1. /\ pc["cfg"] \in {"chg.scan", "chg.removed", "chg.added"} /\ pc["net"] = "idle" /\ ~Ok("cfg") /\ dead
        /\ reply["cfg"] # None /\ reply["cfg"].idx \in Idx
        /\ \A s \in Threads, i \in Idx :
              Given(s, i) <=> s = "cfg" /\ pc["cfg"] \in AddAt /\ Ok("cfg") /\ reply["cfg"].idx = i
        /\ \A s \in Threads, i \in Idx :
              Removed(s, i) <=> s = "cfg" /\ pc["cfg"] \in RemoveAt /\ vifIdx[v] = i
    BY <1>0, <1>1, BeforeStep DEF ChangeFail, At, Silent, Threads
  <2>2. Moved("cfg", None, "idle")
    BY <1>0, <1>1, <2>1, Moves, IfaceAssumption DEF ChangeFail, Silent, At, Threads
  <2>3. \A x : ~Changing(x)'
    BY <1>1, <2>2 DEF ChangeFail, Moved, Changing, Threads
  <2>4. TableInv' /\ Deferring' /\ FirmwareHas'
    <3>1. dead \/ \A x : ~Changing(x)
      BY <2>1 DEF Changing
    <3>2. UNCHANGED <<vifs, up, vifIdx, table, started, fwIfs, deferred, dead>>
      BY <1>1 DEF ChangeFail, vifVars, tabVars, p2pVars, scanVars, thrVars, fwVars
    <3>3. dead \/ \A s \in Threads, i \in Idx : ~Given(s, i) /\ ~Removed(s, i)
      BY <2>1 DEF AddAt, RemoveAt
    <3> QED BY <2>2, <2>3, <3>1, <3>2, <3>3, TableStays DEF Moved, Shapes, RunningUp
  <2>5. Shapes' /\ Threading'
    <3>1. /\ DOMAIN type' = Vifs /\ vifs' \subseteq Vifs /\ deferred' \in Seq(Idx) /\ DOMAIN arg' = Threads
          /\ vifIdx' \in [Vifs -> Idx] /\ table' \in [Idx -> Vifs \cup {None}]
          /\ UNCHANGED <<inds, fwIfs>>
      BY <1>1, <2>1, <2>4 DEF ChangeFail, Shapes, vifVars, tabVars, p2pVars, scanVars,
         thrVars, fwVars
    <3> QED
      BY <1>0, <2>1, <2>2, <3>1, Fitting, MovedShapes, MovedThreading
         DEF OpenAt, CloseAt, CfgAt, Both, AddAt, RemoveAt
  <2>6. DeviceTimed' /\ RunningUp'
    BY <1>1, <2>1, <2>2, IfaceAssumption DEF ChangeFail, DeviceTimed, RunningUp, Opening,
       Closing, Configuring, Moved, OpenAt, CloseAt, Both,
       Threads, Shapes, Silent, vifVars, tabVars, p2pVars, scanVars, thrVars, fwVars
  <2>7. Opening' /\ Closing' /\ Configuring'
    <3>1. Opening' /\ Closing'
      BY <1>1, <2>1, <2>2, IfaceAssumption DEF ChangeFail, Opening, Closing, RunningUp,
         DeviceTimed,
         Moved, Quiet, OpenAt, CloseAt, Threads, Answered, Shapes, vifVars, tabVars, p2pVars,
         scanVars, thrVars, fwVars
    <3>2. Configuring'
      BY <1>1, <2>1, <2>2 DEF ChangeFail, Configuring, RunningUp, Shapes,
         Moved, Both, Threads, vifVars, tabVars, p2pVars, scanVars, thrVars, fwVars
    <3> QED BY <3>1, <3>2
  <2>8. ScanInv'
    BY <1>1, <2>1, <2>2, ScanStays DEF ChangeFail, Moved, Threads, vifVars, tabVars, p2pVars,
       scanVars, thrVars, fwVars
  <2> QED BY <2>2, <2>4, <2>5, <2>6, <2>7, <2>8 DEF Moved
<1>2. ASSUME ChangeCancelled PROVE IfaceInv'
  <2> DEFINE v == arg["cfg"]
  <2>1. /\ pc["cfg"] \in {"chg.scan"} /\ pc["net"] = "idle" /\ Ok("cfg")
        /\ reply["cfg"] # None /\ reply["cfg"].idx \in Idx
        /\ \A s \in Threads, i \in Idx :
              Given(s, i) <=> s = "cfg" /\ pc["cfg"] \in AddAt /\ Ok("cfg") /\ reply["cfg"].idx = i
        /\ \A s \in Threads, i \in Idx :
              Removed(s, i) <=> s = "cfg" /\ pc["cfg"] \in RemoveAt /\ vifIdx[v] = i
    BY <1>0, <1>2, BeforeStep DEF ChangeCancelled, At, Silent, Threads
  <2>2. Moved("cfg", [m |-> "remove", i |-> vifIdx[v]], "chg.removed")
    BY <1>0, <1>2, <2>1, Moves, IfaceAssumption DEF ChangeCancelled, Silent, At, Threads
  <2>3. \A x : ~Changing(x)'
    BY <1>2, <2>2 DEF ChangeCancelled, Moved, Changing, Threads
  <2>4. TableInv' /\ Deferring' /\ FirmwareHas'
    <3>1. dead \/ \A x : ~Changing(x)
      BY <2>1 DEF Changing
    <3>2. UNCHANGED <<vifs, up, vifIdx, table, started, fwIfs, deferred, dead>>
      BY <1>2 DEF ChangeCancelled, vifVars, tabVars, p2pVars, scanVars, thrVars, fwVars
    <3>3. dead \/ \A s \in Threads, i \in Idx : ~Given(s, i) /\ ~Removed(s, i)
      BY <2>1 DEF AddAt, RemoveAt
    <3> QED BY <2>2, <2>3, <3>1, <3>2, <3>3, TableStays DEF Moved, Shapes, RunningUp
  <2>5. Shapes' /\ Threading'
    <3>1. /\ DOMAIN type' = Vifs /\ vifs' \subseteq Vifs /\ deferred' \in Seq(Idx) /\ DOMAIN arg' = Threads
          /\ vifIdx' \in [Vifs -> Idx] /\ table' \in [Idx -> Vifs \cup {None}]
          /\ UNCHANGED <<inds, fwIfs>>
      BY <1>2, <2>1, <2>4 DEF ChangeCancelled, Shapes, vifVars, tabVars, p2pVars, scanVars,
         thrVars, fwVars
    <3>2. vifIdx[v] \in Idx /\ vifIdx'[arg'["cfg"]] = vifIdx[v]
      BY <1>2, <2>1 DEF ChangeCancelled, Shapes, Closing, CloseAt, Configuring, RunningUp,
         Both, vifVars, tabVars, p2pVars, scanVars, thrVars, fwVars
    <3> QED
      BY <1>0, <2>1, <2>2, <3>1, <3>2, Fitting, MovedShapes, MovedThreading
         DEF OpenAt, CloseAt, CfgAt, Both, AddAt, RemoveAt
  <2>6. DeviceTimed' /\ RunningUp'
    BY <1>2, <2>1, <2>2, IfaceAssumption DEF ChangeCancelled, DeviceTimed, RunningUp, Opening,
       Closing, Configuring, Moved, OpenAt, CloseAt, Both,
       Threads, Shapes, Silent, vifVars, tabVars, p2pVars, scanVars, thrVars, fwVars
  <2>7. Opening' /\ Closing' /\ Configuring'
    <3>1. Opening' /\ Closing'
      BY <1>2, <2>1, <2>2, IfaceAssumption DEF ChangeCancelled, Opening, Closing, RunningUp,
         DeviceTimed,
         Moved, Quiet, OpenAt, CloseAt, Threads, Answered, Shapes, vifVars, tabVars, p2pVars,
         scanVars, thrVars, fwVars
    <3>2. Configuring'
      BY <1>2, <2>1, <2>2 DEF ChangeCancelled, Configuring, RunningUp, Shapes,
         Moved, Both, Threads, vifVars, tabVars, p2pVars, scanVars, thrVars, fwVars
    <3> QED BY <3>1, <3>2
  <2>8. ScanInv'
    BY <1>2, <2>1, <2>2, ScanStays DEF ChangeCancelled, Moved, Threads, vifVars, tabVars,
       p2pVars, scanVars, thrVars, fwVars
  <2> QED BY <2>2, <2>4, <2>5, <2>6, <2>7, <2>8 DEF Moved
<1>3. ASSUME ChangeRemoved PROVE IfaceInv'
  <2> DEFINE v == arg["cfg"]
  <2>1. /\ pc["cfg"] \in {"chg.removed"} /\ pc["net"] = "idle" /\ Ok("cfg")
        /\ reply["cfg"] # None /\ reply["cfg"].idx \in Idx
        /\ \A s \in Threads, i \in Idx :
              Given(s, i) <=> s = "cfg" /\ pc["cfg"] \in AddAt /\ Ok("cfg") /\ reply["cfg"].idx = i
        /\ \A s \in Threads, i \in Idx :
              Removed(s, i) <=> s = "cfg" /\ pc["cfg"] \in RemoveAt /\ vifIdx[v] = i
    BY <1>0, <1>3, BeforeStep DEF ChangeRemoved, At, Silent, Threads
  <2>2. Moved("cfg", [m |-> "add"], "chg.added")
    BY <1>0, <1>3, <2>1, Moves, IfaceAssumption DEF ChangeRemoved, Silent, At, Threads
  <2>3. \A x : Changing(x)' <=> x = v
    BY <1>3, <2>2 DEF ChangeRemoved, Moved, Changing, Threads
  <2>4. TableInv' /\ Deferring' /\ FirmwareHas'
    <3>1. v \in up /\ \A x : ~Changing(x)
      BY <2>1 DEF Configuring, Both, Changing
    <3>2. table' = [table EXCEPT ![vifIdx[v]] = None]
          /\ UNCHANGED <<vifs, up, vifIdx, started, fwIfs, deferred, dead>>
      BY <1>3 DEF ChangeRemoved, vifVars, fwVars
    <3>3. /\ \A s \in Threads, j \in Idx : ~Given(s, j)
          /\ \A j \in Idx : (\E s \in Threads : Removed(s, j)) <=> j = vifIdx[v]
      BY <1>0, <2>1 DEF AddAt, RemoveAt
    <3> QED BY <2>2, <2>3, <3>1, <3>2, <3>3, TableChange DEF Moved
  <2>5. Shapes' /\ Threading'
    <3>1. /\ DOMAIN type' = Vifs /\ vifs' \subseteq Vifs /\ deferred' \in Seq(Idx) /\ DOMAIN arg' = Threads
          /\ vifIdx' \in [Vifs -> Idx] /\ table' \in [Idx -> Vifs \cup {None}]
          /\ UNCHANGED <<inds, fwIfs>>
      BY <1>3, <2>1, <2>4 DEF ChangeRemoved, Shapes, vifVars, tabVars, p2pVars, scanVars,
         thrVars, fwVars
    <3> QED
      BY <1>0, <2>1, <2>2, <3>1, Fitting, MovedShapes, MovedThreading
         DEF OpenAt, CloseAt, CfgAt, Both, AddAt, RemoveAt
  <2>6. DeviceTimed' /\ RunningUp'
    BY <1>3, <2>1, <2>2, IfaceAssumption DEF ChangeRemoved, DeviceTimed, RunningUp, Opening,
       Closing, Configuring, Moved, OpenAt, CloseAt, Both,
       Threads, Shapes, Silent, vifVars, tabVars, p2pVars, scanVars, thrVars, fwVars
  <2>7. Opening' /\ Closing' /\ Configuring'
    <3>1. Opening' /\ Closing'
      BY <1>3, <2>1, <2>2, IfaceAssumption DEF ChangeRemoved, Opening, Closing, RunningUp,
         DeviceTimed,
         Moved, Quiet, OpenAt, CloseAt, Threads, Answered, Shapes, vifVars, tabVars, p2pVars,
         scanVars, thrVars, fwVars
    <3>2. Configuring'
      BY <1>3, <2>1, <2>2 DEF ChangeRemoved, Configuring, RunningUp, Shapes,
         Moved, Both, Threads, vifVars, tabVars, p2pVars, scanVars, thrVars, fwVars
    <3> QED BY <3>1, <3>2
  <2>8. ScanInv'
    BY <1>3, <2>1, <2>2, ScanStays DEF ChangeRemoved, Moved, Threads, vifVars, tabVars,
       p2pVars, scanVars, thrVars, fwVars
  <2> QED BY <2>2, <2>4, <2>5, <2>6, <2>7, <2>8 DEF Moved
<1>4. ASSUME ChangeAdded PROVE IfaceInv'
  <2> DEFINE v == arg["cfg"]
  <2>1. /\ pc["cfg"] \in {"chg.added"} /\ pc["net"] = "idle" /\ Ok("cfg")
        /\ reply["cfg"] # None /\ reply["cfg"].idx \in Idx
        /\ \A s \in Threads, i \in Idx :
              Given(s, i) <=> s = "cfg" /\ pc["cfg"] \in AddAt /\ Ok("cfg") /\ reply["cfg"].idx = i
        /\ \A s \in Threads, i \in Idx :
              Removed(s, i) <=> s = "cfg" /\ pc["cfg"] \in RemoveAt /\ vifIdx[v] = i
    BY <1>0, <1>4, BeforeStep DEF ChangeAdded, At, Silent, Threads
  <2>2. Moved("cfg", None, "idle")
    BY <1>0, <1>4, <2>1, Moves, IfaceAssumption DEF ChangeAdded, Silent, At, Threads
  <2>3. \A x : ~Changing(x)'
    BY <1>4, <2>2 DEF ChangeAdded, Moved, Changing, Threads
  <2>4. TableInv' /\ Deferring' /\ FirmwareHas'
    <3>1. v \in up /\ \A x : Changing(x) <=> x = v
      BY <2>1 DEF Configuring, Both, Changing
    <3>2. /\ table' = [table EXCEPT ![reply["cfg"].idx] = v]
          /\ vifIdx' = [vifIdx EXCEPT ![v] = reply["cfg"].idx]
          /\ UNCHANGED <<vifs, up, started, fwIfs, deferred, dead>>
      BY <1>4 DEF ChangeAdded, vifVars, fwVars
    <3>3. /\ Given("cfg", reply["cfg"].idx) /\ \A s \in Threads, i \in Idx : ~Removed(s, i)
          /\ \A s \in Threads, i \in Idx : Given(s, i) => i = reply["cfg"].idx
      BY <1>0, <2>1 DEF AddAt, RemoveAt
    <3>4. \A s \in Threads, i \in Idx : ~Given(s, i)' /\ ~Removed(s, i)'
      BY <2>2 DEF Moved
    <3> HIDE DEF v
    <3> QED BY <1>0, <2>1, <2>3, <3>1, <3>2, <3>3, <3>4, TableChanged
  <2>5. Shapes' /\ Threading'
    <3>1. /\ DOMAIN type' = Vifs /\ vifs' \subseteq Vifs /\ deferred' \in Seq(Idx) /\ DOMAIN arg' = Threads
          /\ vifIdx' \in [Vifs -> Idx] /\ table' \in [Idx -> Vifs \cup {None}]
          /\ UNCHANGED <<inds, fwIfs>>
      BY <1>4, <2>1, <2>4 DEF ChangeAdded, Shapes, vifVars, tabVars, p2pVars, scanVars,
         thrVars, fwVars, Configuring, Both, RunningUp
    <3> QED
      BY <1>0, <2>1, <2>2, <3>1, Fitting, MovedShapes, MovedThreading
         DEF OpenAt, CloseAt, CfgAt, Both, AddAt, RemoveAt
  <2>6. DeviceTimed' /\ RunningUp'
    BY <1>4, <2>1, <2>2, IfaceAssumption DEF ChangeAdded, DeviceTimed, RunningUp, Opening,
       Closing, Configuring, Moved, OpenAt, CloseAt, Both,
       Threads, Shapes, Silent, vifVars, tabVars, p2pVars, scanVars, thrVars, fwVars
  <2>7. Opening' /\ Closing' /\ Configuring'
    <3>1. Opening' /\ Closing'
      BY <1>4, <2>1, <2>2, IfaceAssumption DEF ChangeAdded, Opening, Closing, RunningUp,
         DeviceTimed,
         Moved, Quiet, OpenAt, CloseAt, Threads, Answered, Shapes, vifVars, tabVars, p2pVars,
         scanVars, thrVars, fwVars
    <3>2. Configuring'
      BY <1>4, <2>1, <2>2 DEF ChangeAdded, Configuring, RunningUp, Shapes,
         Moved, Both, Threads, vifVars, tabVars, p2pVars, scanVars, thrVars, fwVars
    <3> QED BY <3>1, <3>2
  <2>8. ScanInv'
    BY <1>4, <2>1, <2>2, ScanStays DEF ChangeAdded, Moved, Threads, vifVars, tabVars, p2pVars,
       scanVars, thrVars, fwVars
  <2> QED BY <2>2, <2>4, <2>5, <2>6, <2>7, <2>8 DEF Moved
<1>5. ASSUME StopCancelled PROVE IfaceInv'
  <2> DEFINE v == arg["cfg"]
  <2>1. /\ pc["cfg"] \in {"stop.scan"} /\ pc["net"] = "idle"
        /\ reply["cfg"] # None /\ reply["cfg"].idx \in Idx
        /\ \A s \in Threads, i \in Idx :
              Given(s, i) <=> s = "cfg" /\ pc["cfg"] \in AddAt /\ Ok("cfg") /\ reply["cfg"].idx = i
        /\ \A s \in Threads, i \in Idx :
              Removed(s, i) <=> s = "cfg" /\ pc["cfg"] \in RemoveAt /\ vifIdx[v] = i
    BY <1>0, <1>5, BeforeStep DEF StopCancelled, At, Silent, Threads
  <2>2. Moved("cfg", None, "idle")
    BY <1>0, <1>5, <2>1, Moves, IfaceAssumption DEF StopCancelled, Silent, At, Threads
  <2>3. \A x : ~Changing(x)'
    BY <1>5, <2>2 DEF StopCancelled, Moved, Changing, Threads
  <2>4. TableInv' /\ Deferring' /\ FirmwareHas' /\ deferred' \in Seq(Idx)
    <3>1. /\ UNCHANGED <<vifs, fwIfs, dead>> /\ \A x : ~Changing(x)
          /\ \A s \in Threads, i \in Idx : ~Given(s, i) /\ ~Removed(s, i)
      BY <1>5, <2>1 DEF StopCancelled, Changing, AddAt, RemoveAt, vifVars, fwVars
    <3>2. CASE UNCHANGED <<tabVars, deferred>>
      BY <2>2, <2>3, <3>1, <3>2, TableStays DEF Moved, Shapes, RunningUp, tabVars
    <3>3. CASE v \in up /\ Uninstall(v) /\ deferred' = Append(deferred, vifIdx[v])
      <4>1. vifIdx[v] \in Idx
        BY <3>3 DEF Shapes, RunningUp
      <4> QED BY <2>2, <2>3, <3>1, <3>3, <4>1, TableDefer DEF Moved
    <3> QED BY <1>5, <3>2, <3>3 DEF StopCancelled, StopDevice, tabVars
  <2>5. Shapes' /\ Threading'
    <3>1. /\ DOMAIN type' = Vifs /\ vifs' \subseteq Vifs /\ deferred' \in Seq(Idx) /\ DOMAIN arg' = Threads
          /\ vifIdx' \in [Vifs -> Idx] /\ table' \in [Idx -> Vifs \cup {None}]
          /\ UNCHANGED <<inds, fwIfs>>
      BY <1>5, <2>1, <2>4 DEF StopCancelled, Shapes, vifVars, tabVars, p2pVars, scanVars,
         thrVars, fwVars, StopDevice, Uninstall
    <3> QED
      BY <1>0, <2>1, <2>2, <3>1, Fitting, MovedShapes, MovedThreading
         DEF OpenAt, CloseAt, CfgAt, Both, AddAt, RemoveAt
  <2>6. DeviceTimed' /\ RunningUp'
    BY <1>5, <2>1, <2>2, IfaceAssumption DEF StopCancelled, DeviceTimed, RunningUp, Opening,
       Closing, Configuring, Moved, OpenAt, CloseAt, Both,
       Threads, Shapes, Silent, vifVars, tabVars, p2pVars, scanVars, thrVars, fwVars,
       StopDevice, StopTimer, Uninstall
  <2>7. Opening' /\ Closing' /\ Configuring'
    <3>1. Opening' /\ Closing'
      BY <1>5, <2>1, <2>2, IfaceAssumption DEF StopCancelled, Opening, Closing, RunningUp,
         DeviceTimed,
         Moved, Quiet, OpenAt, CloseAt, Threads, Answered, Shapes, vifVars, tabVars, p2pVars,
         scanVars, thrVars, fwVars, StopDevice, StopTimer, Uninstall
    <3>2. Configuring'
      BY <1>5, <2>1, <2>2 DEF StopCancelled, Configuring, RunningUp, Shapes,
         Moved, Both, Threads, vifVars, tabVars, p2pVars, scanVars, thrVars, fwVars,
         StopDevice, StopTimer, Uninstall
    <3> QED BY <3>1, <3>2
  <2>8. ScanInv'
    BY <1>5, <2>1, <2>2, ScanStays DEF StopCancelled, Moved, Threads, vifVars, tabVars,
       p2pVars, scanVars, thrVars, fwVars
  <2> QED BY <2>2, <2>4, <2>5, <2>6, <2>7, <2>8 DEF Moved
<1>6. ASSUME ScanAdded PROVE IfaceInv'
  <2> DEFINE v == arg["cfg"]
  <2>1. /\ pc["cfg"] \in {"scan.added"} /\ pc["net"] = "idle" /\ Ok("cfg")
        /\ reply["cfg"] # None /\ reply["cfg"].idx \in Idx
        /\ \A s \in Threads, i \in Idx :
              Given(s, i) <=> s = "cfg" /\ pc["cfg"] \in AddAt /\ Ok("cfg") /\ reply["cfg"].idx = i
        /\ \A s \in Threads, i \in Idx :
              Removed(s, i) <=> s = "cfg" /\ pc["cfg"] \in RemoveAt /\ vifIdx[v] = i
    BY <1>0, <1>6, BeforeStep DEF ScanAdded, At, Silent, Threads
  <2>2. Moved("cfg", [m |-> "scan"], "scan.started")
    BY <1>0, <1>6, <2>1, Moves, IfaceAssumption DEF ScanAdded, Silent, At, Threads
  <2>3. \A x : ~Changing(x)'
    BY <1>6, <2>2 DEF ScanAdded, Moved, Changing, Threads
  <2>4. TableInv' /\ Deferring' /\ FirmwareHas'
    <3>1. arg["cfg"] \in vifs /\ arg["cfg"] \notin up
      BY <1>6, <2>1 DEF Configuring
    <3>2. \A x : ~Changing(x)
      BY <2>1 DEF Changing
    <3>3. Install(arg["cfg"], reply["cfg"].idx) /\ UNCHANGED <<vifs, fwIfs, deferred, dead>>
      BY <1>6 DEF ScanAdded, vifVars, fwVars
    <3>4. Given("cfg", reply["cfg"].idx) /\ \A s \in Threads, i \in Idx : ~Removed(s, i)
      BY <1>0, <2>1 DEF AddAt, RemoveAt
    <3> QED BY <1>0, <2>1, <2>2, <2>3, <3>1, <3>2, <3>3, <3>4, TableInstall DEF Moved
  <2>5. Shapes' /\ Threading'
    <3>1. /\ DOMAIN type' = Vifs /\ vifs' \subseteq Vifs /\ deferred' \in Seq(Idx) /\ DOMAIN arg' = Threads
          /\ vifIdx' \in [Vifs -> Idx] /\ table' \in [Idx -> Vifs \cup {None}]
          /\ UNCHANGED <<inds, fwIfs>>
      BY <1>6, <2>1, <2>4 DEF ScanAdded, Shapes, vifVars, tabVars, p2pVars, scanVars, thrVars,
         fwVars, Install, Configuring
    <3> QED
      BY <1>0, <2>1, <2>2, <3>1, Fitting, MovedShapes, MovedThreading
         DEF OpenAt, CloseAt, CfgAt, Both, AddAt, RemoveAt
  <2>6. DeviceTimed' /\ RunningUp'
    BY <1>6, <2>1, <2>2, IfaceAssumption DEF ScanAdded, DeviceTimed, RunningUp, Opening,
       Closing, Configuring, Moved, OpenAt, CloseAt, Both,
       Threads, Shapes, Silent, vifVars, tabVars, p2pVars, scanVars, thrVars, fwVars,
       ArmAlive, Install
  <2>7. Opening' /\ Closing' /\ Configuring'
    <3>1. Opening' /\ Closing'
      BY <1>6, <2>1, <2>2, IfaceAssumption DEF ScanAdded, Opening, Closing, RunningUp,
         DeviceTimed,
         Moved, Quiet, OpenAt, CloseAt, Threads, Answered, Shapes, vifVars, tabVars, p2pVars,
         scanVars, thrVars, fwVars, ArmAlive, Install
    <3>2. Configuring'
      BY <1>6, <2>1, <2>2 DEF ScanAdded, Configuring, RunningUp, Shapes,
         Moved, Both, Threads, vifVars, tabVars, p2pVars, scanVars, thrVars, fwVars, ArmAlive,
         Install
    <3> QED BY <3>1, <3>2
  <2>8. ScanInv'
    BY <1>6, <2>1, <2>2, ScanStays DEF ScanAdded, Moved, Threads, vifVars, tabVars, p2pVars,
       scanVars, thrVars, fwVars
  <2> QED BY <2>2, <2>4, <2>5, <2>6, <2>7, <2>8 DEF Moved
<1>7. ASSUME ScanFail PROVE IfaceInv'
  <2> DEFINE v == arg["cfg"]
  <2>1. /\ pc["cfg"] \in {"scan.added", "scan.started"} /\ pc["net"] = "idle" /\ ~Ok("cfg") /\ dead
        /\ reply["cfg"] # None /\ reply["cfg"].idx \in Idx
        /\ \A s \in Threads, i \in Idx :
              Given(s, i) <=> s = "cfg" /\ pc["cfg"] \in AddAt /\ Ok("cfg") /\ reply["cfg"].idx = i
        /\ \A s \in Threads, i \in Idx :
              Removed(s, i) <=> s = "cfg" /\ pc["cfg"] \in RemoveAt /\ vifIdx[v] = i
    BY <1>0, <1>7, BeforeStep DEF ScanFail, At, Silent, Threads
  <2>2. Moved("cfg", None, "idle")
    BY <1>0, <1>7, <2>1, Moves, IfaceAssumption DEF ScanFail, Silent, At, Threads
  <2>3. \A x : ~Changing(x)'
    BY <1>7, <2>2 DEF ScanFail, Moved, Changing, Threads
  <2>4. TableInv' /\ Deferring' /\ FirmwareHas'
    <3>1. dead \/ \A x : ~Changing(x)
      BY <2>1 DEF Changing
    <3>2. UNCHANGED <<vifs, up, vifIdx, table, started, fwIfs, deferred, dead>>
      BY <1>7 DEF ScanFail, vifVars, tabVars, p2pVars, scanVars, thrVars, fwVars
    <3>3. dead \/ \A s \in Threads, i \in Idx : ~Given(s, i) /\ ~Removed(s, i)
      BY <2>1 DEF AddAt, RemoveAt
    <3> QED BY <2>2, <2>3, <3>1, <3>2, <3>3, TableStays DEF Moved, Shapes, RunningUp
  <2>5. Shapes' /\ Threading'
    <3>1. /\ DOMAIN type' = Vifs /\ vifs' \subseteq Vifs /\ deferred' \in Seq(Idx) /\ DOMAIN arg' = Threads
          /\ vifIdx' \in [Vifs -> Idx] /\ table' \in [Idx -> Vifs \cup {None}]
          /\ UNCHANGED <<inds, fwIfs>>
      BY <1>7, <2>1, <2>4 DEF ScanFail, Shapes, vifVars, tabVars, p2pVars, scanVars, thrVars,
         fwVars
    <3> QED
      BY <1>0, <2>1, <2>2, <3>1, Fitting, MovedShapes, MovedThreading
         DEF OpenAt, CloseAt, CfgAt, Both, AddAt, RemoveAt
  <2>6. DeviceTimed' /\ RunningUp'
    BY <1>7, <2>1, <2>2, IfaceAssumption DEF ScanFail, DeviceTimed, RunningUp, Opening,
       Closing, Configuring, Moved, OpenAt, CloseAt, Both,
       Threads, Shapes, Silent, vifVars, tabVars, p2pVars, scanVars, thrVars, fwVars
  <2>7. Opening' /\ Closing' /\ Configuring'
    <3>1. Opening' /\ Closing'
      BY <1>7, <2>1, <2>2, IfaceAssumption DEF ScanFail, Opening, Closing, RunningUp,
         DeviceTimed,
         Moved, Quiet, OpenAt, CloseAt, Threads, Answered, Shapes, vifVars, tabVars, p2pVars,
         scanVars, thrVars, fwVars
    <3>2. Configuring'
      BY <1>7, <2>1, <2>2 DEF ScanFail, Configuring, RunningUp, Shapes,
         Moved, Both, Threads, vifVars, tabVars, p2pVars, scanVars, thrVars, fwVars
    <3> QED BY <3>1, <3>2
  <2>8. ScanInv'
    BY <1>7, <2>1, <2>2 DEF ScanFail, ScanInv, ScanHeld, Moved, Threads, vifVars, tabVars,
       p2pVars, scanVars, thrVars, fwVars
  <2> QED BY <2>2, <2>4, <2>5, <2>6, <2>7, <2>8 DEF Moved
<1>8. ASSUME ScanStarted PROVE IfaceInv'
  <2> DEFINE v == arg["cfg"]
  <2>1. /\ pc["cfg"] \in {"scan.started"} /\ pc["net"] = "idle" /\ Ok("cfg")
        /\ reply["cfg"] # None /\ reply["cfg"].idx \in Idx
        /\ \A s \in Threads, i \in Idx :
              Given(s, i) <=> s = "cfg" /\ pc["cfg"] \in AddAt /\ Ok("cfg") /\ reply["cfg"].idx = i
        /\ \A s \in Threads, i \in Idx :
              Removed(s, i) <=> s = "cfg" /\ pc["cfg"] \in RemoveAt /\ vifIdx[v] = i
    BY <1>0, <1>8, BeforeStep DEF ScanStarted, At, Silent, Threads
  <2>2. Moved("cfg", None, "idle")
    BY <1>0, <1>8, <2>1, Moves, IfaceAssumption DEF ScanStarted, Silent, At, Threads
  <2>3. \A x : ~Changing(x)'
    BY <1>8, <2>2 DEF ScanStarted, Moved, Changing, Threads
  <2>4. TableInv' /\ Deferring' /\ FirmwareHas'
    <3>1. dead \/ \A x : ~Changing(x)
      BY <2>1 DEF Changing
    <3>2. UNCHANGED <<vifs, up, vifIdx, table, started, fwIfs, deferred, dead>>
      BY <1>8 DEF ScanStarted, vifVars, tabVars, p2pVars, scanVars, thrVars, fwVars
    <3>3. dead \/ \A s \in Threads, i \in Idx : ~Given(s, i) /\ ~Removed(s, i)
      BY <2>1 DEF AddAt, RemoveAt
    <3> QED BY <2>2, <2>3, <3>1, <3>2, <3>3, TableStays DEF Moved, Shapes, RunningUp
  <2>5. Shapes' /\ Threading'
    <3>1. /\ DOMAIN type' = Vifs /\ vifs' \subseteq Vifs /\ deferred' \in Seq(Idx) /\ DOMAIN arg' = Threads
          /\ vifIdx' \in [Vifs -> Idx] /\ table' \in [Idx -> Vifs \cup {None}]
          /\ UNCHANGED <<inds, fwIfs>>
      BY <1>8, <2>1, <2>4 DEF ScanStarted, Shapes, vifVars, tabVars, p2pVars, scanVars,
         thrVars, fwVars
    <3> QED
      BY <1>0, <2>1, <2>2, <3>1, Fitting, MovedShapes, MovedThreading
         DEF OpenAt, CloseAt, CfgAt, Both, AddAt, RemoveAt
  <2>6. DeviceTimed' /\ RunningUp'
    BY <1>8, <2>1, <2>2, IfaceAssumption DEF ScanStarted, DeviceTimed, RunningUp, Opening,
       Closing, Configuring, Moved, OpenAt, CloseAt, Both,
       Threads, Shapes, Silent, vifVars, tabVars, p2pVars, scanVars, thrVars, fwVars
  <2>7. Opening' /\ Closing' /\ Configuring'
    <3>1. Opening' /\ Closing'
      BY <1>8, <2>1, <2>2, IfaceAssumption DEF ScanStarted, Opening, Closing, RunningUp,
         DeviceTimed,
         Moved, Quiet, OpenAt, CloseAt, Threads, Answered, Shapes, vifVars, tabVars, p2pVars,
         scanVars, thrVars, fwVars
    <3>2. Configuring'
      BY <1>8, <2>1, <2>2 DEF ScanStarted, Configuring, RunningUp, Shapes,
         Moved, Both, Threads, vifVars, tabVars, p2pVars, scanVars, thrVars, fwVars
    <3> QED BY <3>1, <3>2
  <2>8. ScanInv'
    BY <1>8, <2>1, <2>2 DEF ScanStarted, ScanInv, ScanHeld, Answered, Moved, Threads, vifVars,
       tabVars, p2pVars, scanVars, thrVars, fwVars
  <2> QED BY <2>2, <2>4, <2>5, <2>6, <2>7, <2>8 DEF Moved
<1>9. ASSUME RocAdded PROVE IfaceInv'
  <2> DEFINE v == arg["cfg"]
  <2>1. /\ pc["cfg"] \in {"roc.added"} /\ pc["net"] = "idle" /\ Ok("cfg")
        /\ reply["cfg"] # None /\ reply["cfg"].idx \in Idx
        /\ \A s \in Threads, i \in Idx :
              Given(s, i) <=> s = "cfg" /\ pc["cfg"] \in AddAt /\ Ok("cfg") /\ reply["cfg"].idx = i
        /\ \A s \in Threads, i \in Idx :
              Removed(s, i) <=> s = "cfg" /\ pc["cfg"] \in RemoveAt /\ vifIdx[v] = i
    BY <1>0, <1>9, BeforeStep DEF RocAdded, At, Silent, Threads
  <2>2. Moved("cfg", [m |-> "roc"], "roc.sent")
    BY <1>0, <1>9, <2>1, Moves, IfaceAssumption DEF RocAdded, Silent, At, Threads
  <2>3. \A x : ~Changing(x)'
    BY <1>9, <2>2 DEF RocAdded, Moved, Changing, Threads
  <2>4. TableInv' /\ Deferring' /\ FirmwareHas'
    <3>1. arg["cfg"] \in vifs /\ arg["cfg"] \notin up
      BY <1>9, <2>1 DEF Configuring
    <3>2. \A x : ~Changing(x)
      BY <2>1 DEF Changing
    <3>3. Install(arg["cfg"], reply["cfg"].idx) /\ UNCHANGED <<vifs, fwIfs, deferred, dead>>
      BY <1>9 DEF RocAdded, vifVars, fwVars
    <3>4. Given("cfg", reply["cfg"].idx) /\ \A s \in Threads, i \in Idx : ~Removed(s, i)
      BY <1>0, <2>1 DEF AddAt, RemoveAt
    <3> QED BY <1>0, <2>1, <2>2, <2>3, <3>1, <3>2, <3>3, <3>4, TableInstall DEF Moved
  <2>5. Shapes' /\ Threading'
    <3>1. /\ DOMAIN type' = Vifs /\ vifs' \subseteq Vifs /\ deferred' \in Seq(Idx) /\ DOMAIN arg' = Threads
          /\ vifIdx' \in [Vifs -> Idx] /\ table' \in [Idx -> Vifs \cup {None}]
          /\ UNCHANGED <<inds, fwIfs>>
      BY <1>9, <2>1, <2>4 DEF RocAdded, Shapes, vifVars, tabVars, p2pVars, scanVars, thrVars,
         fwVars, Install, Configuring
    <3> QED
      BY <1>0, <2>1, <2>2, <3>1, Fitting, MovedShapes, MovedThreading
         DEF OpenAt, CloseAt, CfgAt, Both, AddAt, RemoveAt
  <2>6. DeviceTimed' /\ RunningUp'
    BY <1>9, <2>1, <2>2, IfaceAssumption DEF RocAdded, DeviceTimed, RunningUp, Opening,
       Closing, Configuring, Moved, OpenAt, CloseAt, Both,
       Threads, Shapes, Silent, vifVars, tabVars, p2pVars, scanVars, thrVars, fwVars,
       ArmAlive, Install
  <2>7. Opening' /\ Closing' /\ Configuring'
    <3>1. Opening' /\ Closing'
      BY <1>9, <2>1, <2>2, IfaceAssumption DEF RocAdded, Opening, Closing, RunningUp,
         DeviceTimed,
         Moved, Quiet, OpenAt, CloseAt, Threads, Answered, Shapes, vifVars, tabVars, p2pVars,
         scanVars, thrVars, fwVars, ArmAlive, Install
    <3>2. Configuring'
      BY <1>9, <2>1, <2>2 DEF RocAdded, Configuring, RunningUp, Shapes,
         Moved, Both, Threads, vifVars, tabVars, p2pVars, scanVars, thrVars, fwVars, ArmAlive,
         Install
    <3> QED BY <3>1, <3>2
  <2>8. ScanInv'
    BY <1>9, <2>1, <2>2, ScanStays DEF RocAdded, Moved, Threads, vifVars, tabVars, p2pVars,
       scanVars, thrVars, fwVars
  <2> QED BY <2>2, <2>4, <2>5, <2>6, <2>7, <2>8 DEF Moved
<1>10. ASSUME RocAddFail PROVE IfaceInv'
  <2> DEFINE v == arg["cfg"]
  <2>1. /\ pc["cfg"] \in {"roc.added"} /\ pc["net"] = "idle" /\ ~Ok("cfg") /\ dead
        /\ reply["cfg"] # None /\ reply["cfg"].idx \in Idx
        /\ \A s \in Threads, i \in Idx :
              Given(s, i) <=> s = "cfg" /\ pc["cfg"] \in AddAt /\ Ok("cfg") /\ reply["cfg"].idx = i
        /\ \A s \in Threads, i \in Idx :
              Removed(s, i) <=> s = "cfg" /\ pc["cfg"] \in RemoveAt /\ vifIdx[v] = i
    BY <1>0, <1>10, BeforeStep DEF RocAddFail, At, Silent, Threads
  <2>2. Moved("cfg", None, "idle")
    BY <1>0, <1>10, <2>1, Moves, IfaceAssumption DEF RocAddFail, Silent, At, Threads
  <2>3. \A x : ~Changing(x)'
    BY <1>10, <2>2 DEF RocAddFail, Moved, Changing, Threads
  <2>4. TableInv' /\ Deferring' /\ FirmwareHas'
    <3>1. dead \/ \A x : ~Changing(x)
      BY <2>1 DEF Changing
    <3>2. UNCHANGED <<vifs, up, vifIdx, table, started, fwIfs, deferred, dead>>
      BY <1>10 DEF RocAddFail, vifVars, tabVars, p2pVars, scanVars, thrVars, fwVars
    <3>3. dead \/ \A s \in Threads, i \in Idx : ~Given(s, i) /\ ~Removed(s, i)
      BY <2>1 DEF AddAt, RemoveAt
    <3> QED BY <2>2, <2>3, <3>1, <3>2, <3>3, TableStays DEF Moved, Shapes, RunningUp
  <2>5. Shapes' /\ Threading'
    <3>1. /\ DOMAIN type' = Vifs /\ vifs' \subseteq Vifs /\ deferred' \in Seq(Idx) /\ DOMAIN arg' = Threads
          /\ vifIdx' \in [Vifs -> Idx] /\ table' \in [Idx -> Vifs \cup {None}]
          /\ UNCHANGED <<inds, fwIfs>>
      BY <1>10, <2>1, <2>4 DEF RocAddFail, Shapes, vifVars, tabVars, p2pVars, scanVars,
         thrVars, fwVars
    <3> QED
      BY <1>0, <2>1, <2>2, <3>1, Fitting, MovedShapes, MovedThreading
         DEF OpenAt, CloseAt, CfgAt, Both, AddAt, RemoveAt
  <2>6. DeviceTimed' /\ RunningUp'
    BY <1>10, <2>1, <2>2, IfaceAssumption DEF RocAddFail, DeviceTimed, RunningUp, Opening,
       Closing, Configuring, Moved, OpenAt, CloseAt, Both,
       Threads, Shapes, Silent, vifVars, tabVars, p2pVars, scanVars, thrVars, fwVars
  <2>7. Opening' /\ Closing' /\ Configuring'
    <3>1. Opening' /\ Closing'
      BY <1>10, <2>1, <2>2, IfaceAssumption DEF RocAddFail, Opening, Closing, RunningUp,
         DeviceTimed,
         Moved, Quiet, OpenAt, CloseAt, Threads, Answered, Shapes, vifVars, tabVars, p2pVars,
         scanVars, thrVars, fwVars
    <3>2. Configuring'
      BY <1>10, <2>1, <2>2 DEF RocAddFail, Configuring, RunningUp, Shapes,
         Moved, Both, Threads, vifVars, tabVars, p2pVars, scanVars, thrVars, fwVars
    <3> QED BY <3>1, <3>2
  <2>8. ScanInv'
    BY <1>10, <2>1, <2>2, ScanStays DEF RocAddFail, Moved, Threads, vifVars, tabVars, p2pVars,
       scanVars, thrVars, fwVars
  <2> QED BY <2>2, <2>4, <2>5, <2>6, <2>7, <2>8 DEF Moved
<1>11. ASSUME RocSent PROVE IfaceInv'
  <2> DEFINE v == arg["cfg"]
  <2>1. /\ pc["cfg"] \in {"roc.sent"} /\ pc["net"] = "idle"
        /\ reply["cfg"] # None /\ reply["cfg"].idx \in Idx
        /\ \A s \in Threads, i \in Idx :
              Given(s, i) <=> s = "cfg" /\ pc["cfg"] \in AddAt /\ Ok("cfg") /\ reply["cfg"].idx = i
        /\ \A s \in Threads, i \in Idx :
              Removed(s, i) <=> s = "cfg" /\ pc["cfg"] \in RemoveAt /\ vifIdx[v] = i
    BY <1>0, <1>11, BeforeStep DEF RocSent, At, Silent, Threads
  <2>2. Moved("cfg", None, "idle")
    BY <1>0, <1>11, <2>1, Moves, IfaceAssumption DEF RocSent, Silent, At, Threads
  <2>3. \A x : ~Changing(x)'
    BY <1>11, <2>2 DEF RocSent, Moved, Changing, Threads
  <2>4. TableInv' /\ Deferring' /\ FirmwareHas'
    <3>1. dead \/ \A x : ~Changing(x)
      BY <2>1 DEF Changing
    <3>2. UNCHANGED <<vifs, up, vifIdx, table, started, fwIfs, deferred, dead>>
      BY <1>11 DEF RocSent, vifVars, tabVars, p2pVars, scanVars, thrVars, fwVars
    <3>3. dead \/ \A s \in Threads, i \in Idx : ~Given(s, i) /\ ~Removed(s, i)
      BY <2>1 DEF AddAt, RemoveAt
    <3> QED BY <2>2, <2>3, <3>1, <3>2, <3>3, TableStays DEF Moved, Shapes, RunningUp
  <2>5. Shapes' /\ Threading'
    <3>1. /\ DOMAIN type' = Vifs /\ vifs' \subseteq Vifs /\ deferred' \in Seq(Idx) /\ DOMAIN arg' = Threads
          /\ vifIdx' \in [Vifs -> Idx] /\ table' \in [Idx -> Vifs \cup {None}]
          /\ UNCHANGED <<inds, fwIfs>>
      BY <1>11, <2>1, <2>4 DEF RocSent, Shapes, vifVars, tabVars, p2pVars, scanVars, thrVars,
         fwVars
    <3> QED
      BY <1>0, <2>1, <2>2, <3>1, Fitting, MovedShapes, MovedThreading
         DEF OpenAt, CloseAt, CfgAt, Both, AddAt, RemoveAt
  <2>6. DeviceTimed' /\ RunningUp'
    BY <1>11, <2>1, <2>2, IfaceAssumption DEF RocSent, DeviceTimed, RunningUp, Opening,
       Closing, Configuring, Moved, OpenAt, CloseAt, Both,
       Threads, Shapes, Silent, vifVars, tabVars, p2pVars, scanVars, thrVars, fwVars
  <2>7. Opening' /\ Closing' /\ Configuring'
    <3>1. Opening' /\ Closing'
      BY <1>11, <2>1, <2>2, IfaceAssumption DEF RocSent, Opening, Closing, RunningUp,
         DeviceTimed,
         Moved, Quiet, OpenAt, CloseAt, Threads, Answered, Shapes, vifVars, tabVars, p2pVars,
         scanVars, thrVars, fwVars
    <3>2. Configuring'
      BY <1>11, <2>1, <2>2 DEF RocSent, Configuring, RunningUp, Shapes,
         Moved, Both, Threads, vifVars, tabVars, p2pVars, scanVars, thrVars, fwVars
    <3> QED BY <3>1, <3>2
  <2>8. ScanInv'
    BY <1>11, <2>1, <2>2, ScanStays DEF RocSent, Moved, Threads, vifVars, tabVars, p2pVars,
       scanVars, thrVars, fwVars
  <2> QED BY <2>2, <2>4, <2>5, <2>6, <2>7, <2>8 DEF Moved
<1>12. ASSUME RocCancelled PROVE IfaceInv'
  <2> DEFINE v == arg["cfg"]
  <2>1. /\ pc["cfg"] \in {"roc.cancel"} /\ pc["net"] = "idle"
        /\ reply["cfg"] # None /\ reply["cfg"].idx \in Idx
        /\ \A s \in Threads, i \in Idx :
              Given(s, i) <=> s = "cfg" /\ pc["cfg"] \in AddAt /\ Ok("cfg") /\ reply["cfg"].idx = i
        /\ \A s \in Threads, i \in Idx :
              Removed(s, i) <=> s = "cfg" /\ pc["cfg"] \in RemoveAt /\ vifIdx[v] = i
    BY <1>0, <1>12, BeforeStep DEF RocCancelled, At, Silent, Threads
  <2>2. Moved("cfg", None, "idle")
    BY <1>0, <1>12, <2>1, Moves, IfaceAssumption DEF RocCancelled, Silent, At, Threads
  <2>3. \A x : ~Changing(x)'
    BY <1>12, <2>2 DEF RocCancelled, Moved, Changing, Threads
  <2>4. TableInv' /\ Deferring' /\ FirmwareHas'
    <3>1. dead \/ \A x : ~Changing(x)
      BY <2>1 DEF Changing
    <3>2. UNCHANGED <<vifs, up, vifIdx, table, started, fwIfs, deferred, dead>>
      BY <1>12 DEF RocCancelled, vifVars, tabVars, p2pVars, scanVars, thrVars, fwVars
    <3>3. dead \/ \A s \in Threads, i \in Idx : ~Given(s, i) /\ ~Removed(s, i)
      BY <2>1 DEF AddAt, RemoveAt
    <3> QED BY <2>2, <2>3, <3>1, <3>2, <3>3, TableStays DEF Moved, Shapes, RunningUp
  <2>5. Shapes' /\ Threading'
    <3>1. /\ DOMAIN type' = Vifs /\ vifs' \subseteq Vifs /\ deferred' \in Seq(Idx) /\ DOMAIN arg' = Threads
          /\ vifIdx' \in [Vifs -> Idx] /\ table' \in [Idx -> Vifs \cup {None}]
          /\ UNCHANGED <<inds, fwIfs>>
      BY <1>12, <2>1, <2>4 DEF RocCancelled, Shapes, vifVars, tabVars, p2pVars, scanVars,
         thrVars, fwVars
    <3> QED
      BY <1>0, <2>1, <2>2, <3>1, Fitting, MovedShapes, MovedThreading
         DEF OpenAt, CloseAt, CfgAt, Both, AddAt, RemoveAt
  <2>6. DeviceTimed' /\ RunningUp'
    BY <1>12, <2>1, <2>2, IfaceAssumption DEF RocCancelled, DeviceTimed, RunningUp, Opening,
       Closing, Configuring, Moved, OpenAt, CloseAt, Both,
       Threads, Shapes, Silent, vifVars, tabVars, p2pVars, scanVars, thrVars, fwVars
  <2>7. Opening' /\ Closing' /\ Configuring'
    <3>1. Opening' /\ Closing'
      BY <1>12, <2>1, <2>2, IfaceAssumption DEF RocCancelled, Opening, Closing, RunningUp,
         DeviceTimed,
         Moved, Quiet, OpenAt, CloseAt, Threads, Answered, Shapes, vifVars, tabVars, p2pVars,
         scanVars, thrVars, fwVars
    <3>2. Configuring'
      BY <1>12, <2>1, <2>2 DEF RocCancelled, Configuring, RunningUp, Shapes,
         Moved, Both, Threads, vifVars, tabVars, p2pVars, scanVars, thrVars, fwVars
    <3> QED BY <3>1, <3>2
  <2>8. ScanInv'
    BY <1>12, <2>1, <2>2, ScanStays DEF RocCancelled, Moved, Threads, vifVars, tabVars,
       p2pVars, scanVars, thrVars, fwVars
  <2> QED BY <2>2, <2>4, <2>5, <2>6, <2>7, <2>8 DEF Moved
<1> QED BY <1>1, <1>2, <1>3, <1>4, <1>5, <1>6, <1>7, <1>8, <1>9, <1>10, <1>11, <1>12 DEF CfgStep

(* What the threads know of their answers stays.                           *)
SameAnswers ==
    /\ inds' \in Seq(Message) /\ OneAnswer'
    /\ \A s \in Threads : /\ Answered(s)' <=> Answered(s)
                          /\ (\E k \in DOMAIN inds' : Confirms(s, k)') =>
                                \E k \in DOMAIN inds : Confirms(s, k)
    /\ \A s \in Threads, i \in Idx : (Given(s, i)' <=> Given(s, i))
                                  /\ (Removed(s, i)' <=> Removed(s, i))
    /\ \A x : Changing(x)' <=> Changing(x)

Reports(q) == \E k \in DOMAIN q : q[k].m = "scandone"

(* No message comes or goes ...                                            *)
LEMMA Unheard ==
    ASSUME Shapes, OneAnswer, UNCHANGED <<pc, arg, cmd, reply, inds>>
    PROVE  SameAnswers
  BY DEF SameAnswers, Shapes, OneAnswer, Answered, Confirms, Given, Removed, Changing

(* ... the firmware reports something by itself ...                        *)
LEMMA Reported ==
    ASSUME Shapes, OneAnswer, UNCHANGED <<pc, arg, cmd, reply>>,
           NEW a \in Message, a.m # "cfm", inds' = Append(inds, a)
    PROVE  SameAnswers /\ (Reports(inds') <=> Reports(inds) \/ a.m = "scandone")
<1>1. /\ inds' \in Seq(Message) /\ inds'[Len(inds) + 1] = a /\ Len(inds) + 1 \in DOMAIN inds'
      /\ \A k \in DOMAIN inds : inds'[k] = inds[k] /\ k \in DOMAIN inds'
      /\ \A k \in DOMAIN inds' : k \in DOMAIN inds \/ k = Len(inds) + 1
  BY AddedLast DEF Shapes
<1>2. \A k \in DOMAIN inds' : inds'[k].m = "cfm" => k \in DOMAIN inds /\ inds'[k] = inds[k]
  BY <1>1
<1>3. \A s \in Threads, i \in Idx :
         (\E k \in DOMAIN inds' : inds'[k].m = "cfm" /\ inds'[k].t = s /\ inds'[k].idx = i)
         <=> \E k \in DOMAIN inds : inds[k].m = "cfm" /\ inds[k].t = s /\ inds[k].idx = i
  BY <1>1, <1>2
<1>4. \A s \in Threads :
         (\E k \in DOMAIN inds' : inds'[k].m = "cfm" /\ inds'[k].t = s)
         <=> \E k \in DOMAIN inds : inds[k].m = "cfm" /\ inds[k].t = s
  BY <1>1, <1>2
<1>5. OneAnswer'
  BY <1>2 DEF OneAnswer
<1>6. \A s \in Threads, i \in Idx : (Given(s, i)' <=> Given(s, i)) /\ (Removed(s, i)' <=> Removed(s, i))
  BY <1>3, <1>4 DEF Given, Removed, Answered, Confirms
<1>7. Reports(inds') <=> Reports(inds) \/ a.m = "scandone"
  BY <1>1 DEF Reports
<1> QED BY <1>1, <1>4, <1>5, <1>6, <1>7 DEF SameAnswers, Answered, Confirms, Changing

(* ... or the receive thread takes such a report.                          *)
LEMMA Handled ==
    ASSUME Shapes, OneAnswer, UNCHANGED <<pc, arg, cmd, reply>>,
           NEW m, m # "cfm", Receive(m)
    PROVE  /\ SameAnswers
           /\ Reports(inds') => Reports(inds)
           /\ Reports(inds) => Reports(inds') \/ m = "scandone"
<1>1. /\ inds' \in Seq(Message) /\ inds[1].m = m /\ 1 \in DOMAIN inds
      /\ \A k \in DOMAIN inds' : k \in Nat /\ k + 1 \in DOMAIN inds /\ inds'[k] = inds[k + 1]
      /\ \A k \in DOMAIN inds : k = 1 \/ (k - 1 \in DOMAIN inds' /\ inds'[k - 1] = inds[k] /\ k \in Nat)
  BY TakenFirst DEF Shapes, Receive
<1>2. \A k \in DOMAIN inds : inds[k].m = "cfm" => \E l \in DOMAIN inds' : inds'[l] = inds[k]
  BY <1>1
<1>3. \A s \in Threads, i \in Idx :
         (\E k \in DOMAIN inds' : inds'[k].m = "cfm" /\ inds'[k].t = s /\ inds'[k].idx = i)
         <=> \E k \in DOMAIN inds : inds[k].m = "cfm" /\ inds[k].t = s /\ inds[k].idx = i
  BY <1>1, <1>2
<1>4. \A s \in Threads :
         (\E k \in DOMAIN inds' : inds'[k].m = "cfm" /\ inds'[k].t = s)
         <=> \E k \in DOMAIN inds : inds[k].m = "cfm" /\ inds[k].t = s
  BY <1>1, <1>2
<1>5. OneAnswer'
  <2>1. \A k, l \in DOMAIN inds' : inds'[k].m = "cfm" /\ inds'[l].m = "cfm" => l = k
    <3>1. \A k, l \in DOMAIN inds' : inds'[k].m = "cfm" /\ inds'[l].m = "cfm" => l + 1 = k + 1
      BY <1>1 DEF OneAnswer
    <3> QED BY <1>1, <3>1
  <2> QED BY <1>1, <2>1 DEF OneAnswer
<1>6. \A s \in Threads, i \in Idx : (Given(s, i)' <=> Given(s, i)) /\ (Removed(s, i)' <=> Removed(s, i))
  BY <1>3, <1>4 DEF Given, Removed, Answered, Confirms
<1>7. (Reports(inds') => Reports(inds)) /\ (Reports(inds) => Reports(inds') \/ m = "scandone")
  BY <1>1 DEF Reports
<1> QED BY <1>1, <1>4, <1>5, <1>6, <1>7 DEF SameAnswers, Answered, Confirms, Changing

(* The firmware confirms the command that waits for it.                    *)
LEMMA Confirmed ==
    ASSUME Shapes, Threading, OneAnswer, UNCHANGED <<pc, arg, cmd, reply>>,
           NEW t \in Threads, Pending(t), NEW i \in Idx, NEW st \in {"ok", "refused"},
           st = "ok" \/ pc[t] = "roc.sent", inds' = Append(inds, Confirm(t, st, i))
    PROVE  /\ inds' \in Seq(Message) /\ OneAnswer' /\ ~Answered(t)
           /\ pc[t] \notin Silent /\ \A s \in Threads : s # t => pc[s] = "idle"
           /\ Reports(inds') <=> Reports(inds)
           /\ \A s \in Threads, j \in Idx :
                 /\ ~Given(s, j) /\ ~Removed(s, j)
                 /\ Given(s, j)' <=> s = t /\ pc[t] \in AddAt /\ j = i
                 /\ Removed(s, j)' <=> s = t /\ pc[t] \in RemoveAt /\ j = cmd[t].i
<1>1. /\ pc[t] \notin Silent /\ \A s \in Threads : s # t => pc[s] = "idle" /\ reply[s] = None
      /\ reply[t] = None
  BY DEF Threading, CommandOf, OneOperation, Threads, Pending, Silent
<1>2. Confirm(t, st, i) \in Message
  BY Fields
<1>3. /\ inds' \in Seq(Message) /\ inds'[Len(inds) + 1] = Confirm(t, st, i) /\ Len(inds) + 1 \in DOMAIN inds'
      /\ \A k \in DOMAIN inds : inds'[k] = inds[k] /\ k \in DOMAIN inds'
      /\ \A k \in DOMAIN inds' : k \in DOMAIN inds \/ k = Len(inds) + 1
  BY <1>2, AddedLast DEF Shapes
<1>4. \A k \in DOMAIN inds : inds[k].m # "cfm"
  <2>1. \A k \in DOMAIN inds : inds[k].m = "cfm" => inds[k].t \in Threads
    BY Fields DEF Shapes
  <2> QED BY <1>1, <2>1 DEF OneAnswer, Pending, Silent
<1>5. /\ Confirm(t, st, i).m = "cfm" /\ Confirm(t, st, i).t = t /\ Confirm(t, st, i).idx = i
      /\ Confirm(t, st, i).status = st
  BY DEF Confirm
<1>6. OneAnswer'
  BY <1>1, <1>3, <1>4, <1>5 DEF OneAnswer
<1>7. /\ \A s \in Threads, j \in Idx : ~Given(s, j) /\ ~Removed(s, j)
      /\ ~Answered(t)
  BY <1>1, <1>4 DEF Given, Removed, Answered, Confirms
<1>8. \A s \in Threads, j \in Idx : Given(s, j)' <=> s = t /\ pc[t] \in AddAt /\ j = i
  BY <1>1, <1>3, <1>4, <1>5 DEF Given, Confirms
<1>9. \A s \in Threads, j \in Idx : Removed(s, j)' <=> s = t /\ pc[t] \in RemoveAt /\ j = cmd[t].i
  BY <1>1, <1>3, <1>4, <1>5 DEF Removed, Answered, Confirms, RemoveAt
<1>10. Reports(inds') <=> Reports(inds)
  BY <1>3, <1>5 DEF Reports
<1> QED BY <1>1, <1>3, <1>6, <1>7, <1>8, <1>9, <1>10

(* The receive thread hands a confirmation over.                           *)
LEMMA HandedOver ==
    ASSUME Shapes, Threading, OneAnswer, RxConfirm
    PROVE  /\ SameAnswers /\ Threading'
           /\ DOMAIN reply' = Threads
           /\ \A s \in Threads : /\ reply'[s] # None => reply'[s].idx \in Idx
                                 /\ reply'[s] = reply[s] \/ \E k \in DOMAIN inds : Confirms(s, k)
           /\ Reports(inds') <=> Reports(inds)
<1> DEFINE a == Head(inds)
           r == [status |-> a.status, idx |-> a.idx]
<1>1. /\ inds' \in Seq(Message) /\ a = inds[1] /\ a.m = "cfm" /\ 1 \in DOMAIN inds /\ a \in Message
      /\ \A k \in DOMAIN inds' : k \in Nat /\ k + 1 \in DOMAIN inds /\ inds'[k] = inds[k + 1]
      /\ \A k \in DOMAIN inds : k = 1 \/ (k - 1 \in DOMAIN inds' /\ inds'[k - 1] = inds[k] /\ k \in Nat)
  BY TakenFirst DEF Shapes, Receive, RxConfirm
<1>2. /\ a.t \in Threads /\ r.idx \in Idx /\ r.idx = a.idx /\ r.status = a.status /\ r # None
      /\ UNCHANGED <<pc, arg, cmd>> /\ DOMAIN reply' = Threads
      /\ \A s \in Threads : reply'[s] = IF s = a.t THEN r ELSE reply[s]
  BY <1>1, Fields DEF RxConfirm, Shapes
<1>3. \A k \in DOMAIN inds' : inds'[k].m # "cfm"
  <2>1. \A k \in DOMAIN inds' : inds'[k].m = "cfm" => k + 1 = 1
    BY <1>1 DEF OneAnswer
  <2>2. \A k \in DOMAIN inds' : k # 0
    BY <1>1
  <2> QED BY <1>1, <2>1, <2>2
<1>4. pc[a.t] \notin Silent /\ reply[a.t] = None /\ (a.status = "ok" \/ pc[a.t] = "roc.sent")
  BY <1>1 DEF OneAnswer
<1>5. \A k \in DOMAIN inds : inds[k].m = "cfm" => k = 1
  BY <1>1 DEF OneAnswer
<1>6. OneAnswer'
  BY <1>3 DEF OneAnswer
<1>7. \A s \in Threads : Answered(s)' <=> Answered(s)
  BY <1>1, <1>2, <1>3, <1>5 DEF Answered, Confirms
<1>8. \A s \in Threads, i \in Idx : Given(s, i)' <=> Given(s, i)
  BY <1>1, <1>2, <1>3, <1>4, <1>5 DEF Given, Confirms, AddAt
<1>9. Threading'
  <2>1. \A s \in Threads : CommandOf(s)'
    BY <1>1, <1>2, <1>4 DEF Threading, CommandOf, RxConfirm, tabVars, fwVars
  <2> QED BY <1>2, <2>1 DEF Threading, OneOperation
<1>10. Reports(inds') <=> Reports(inds)
  BY <1>1 DEF Reports
<1>11. SameAnswers
  BY <1>1, <1>2, <1>3, <1>6, <1>7, <1>8 DEF SameAnswers, Removed, Confirms, Changing
<1> QED BY <1>1, <1>2, <1>9, <1>10, <1>11 DEF Shapes, Confirms

(* The firmware and the receive thread leave what the driver knows of its  *)
(* interfaces.                                                             *)
LEMMA DriverKept ==
    ASSUME Shapes, Closing, Configuring, DeviceTimed, RunningUp,
           UNCHANGED <<vifVars, tabVars, p2pVars, pc, arg, cmd, running>>,
           dead => dead', scanReq' \in {scanReq, None}
    PROVE  Closing' /\ Configuring' /\ DeviceTimed' /\ RunningUp'
<1>1. Closing'
  BY IfaceAssumption DEF Closing, vifVars, tabVars
<1> QED BY <1>1 DEF Configuring, DeviceTimed, RunningUp, vifVars, tabVars, p2pVars

(* The threads and their commands stay.                                    *)
LEMMA ThreadsKept ==
    ASSUME Threading, UNCHANGED <<pc, arg, cmd, reply, vifIdx>>, dead => dead'
    PROVE  Threading'
  BY DEF Threading, OneOperation, CommandOf

(* rwnx_open does not see an answer that makes it add an interface twice.  *)
LEMMA OpeningKept ==
    ASSUME Opening, UNCHANGED <<vifVars, tabVars, p2pVars, pc, arg, running>>,
           dead => dead',
           \A k \in DOMAIN inds' : Confirms("net", k)' => \E l \in DOMAIN inds : Confirms("net", l),
           reply'["net"] = reply["net"] \/ (\E l \in DOMAIN inds : Confirms("net", l))
              \/ (reply'["net"] # None /\ ~Ok("net")')
    PROVE  Opening'
  BY DEF Opening, Ok, vifVars, tabVars, p2pVars

(* The table and what the threads were given stay.                         *)
LEMMA TableKept ==
    ASSUME TableInv, UNCHANGED <<vifs, up, vifIdx, table, started>>, dead => dead',
           \A x : Changing(x)' <=> Changing(x),
           \A s \in Threads, i \in Idx : Given(s, i)' => Given(s, i)
    PROVE  TableInv'
<1>1. TableExact'
  BY DEF TableInv, TableExact, Changing
<1> QED BY <1>1 DEF TableInv

(* Neither the interfaces nor the answers change.                          *)
LEMMA FirmwareKept ==
    ASSUME Shapes, TableInv, Deferring, FirmwareHas, SameAnswers,
           UNCHANGED <<vifs, up, vifIdx, table, started, fwIfs, deferred>>, dead => dead'
    PROVE  TableInv' /\ Deferring' /\ FirmwareHas'
<1>1. TableInv'
  BY TableKept DEF SameAnswers
<1>2. Deferring'
  <2>1. \A k \in DOMAIN deferred : deferred[k] \in Idx
    BY DEF Shapes
  <2> QED BY <2>1 DEF Deferring, SameAnswers
<1>3. FirmwareHas'
  <2> SUFFICES ASSUME ~dead, NEW i \in Idx PROVE i \in fwIfs <=> Has(i)'
    BY DEF FirmwareHas
  <2>1. i \in fwIfs <=> Has(i)
    BY DEF FirmwareHas
  <2> QED BY <2>1 DEF Has, SameAnswers
<1> QED BY <1>1, <1>2, <1>3

(* The firmware's own steps, and the receive thread's.                     *)
LEMMA ReportSteps ==
    ASSUME IfaceInv, FwReport \/ FwDie \/ RxScanDone \/ RxRocOn \/ RxRocExpired
    PROVE  IfaceInv'
<1> USE DEF IfaceInv
<1>1. /\ UNCHANGED <<vifVars, tabVars, p2pVars, pc, arg, cmd, reply, running, fwIfs, deferred>>
      /\ (dead => dead') /\ scanReq' \in {scanReq, None}
  BY DEF FwReport, FwDie, RxScanDone, RxRocOn, RxRocExpired, thrVars, fwVars, scanVars
<1>2. SameAnswers /\ ScanInv'
  <2>1. CASE FwReport
    <3>1. PICK a \in {[m |-> "scandone"], [m |-> "rocon"], [m |-> "rocexp"]} :
             /\ inds' = Append(inds, a)
             /\ fwScan' # fwScan => a = [m |-> "scandone"]
      BY <2>1 DEF FwReport
    <3>2. a \in Message /\ a.m # "cfm" /\ (a = [m |-> "scandone"] => a.m = "scandone")
      BY Fields
    <3>3. SameAnswers /\ (Reports(inds') <=> Reports(inds) \/ a.m = "scandone")
      BY <1>1, <3>1, <3>2, Reported
    <3>4. UNCHANGED <<scanReq, kscan, dead>>
      BY <2>1 DEF FwReport, scanVars
    <3>5. fwScan => fwScan' \/ Reports(inds')
      BY <3>1, <3>2, <3>3 DEF FwReport
    <3> QED BY <1>1, <3>3, <3>4, <3>5 DEF ScanInv, ScanHeld, Reports, SameAnswers, Threads
  <2>2. CASE FwDie
    <3>1. SameAnswers
      BY <1>1, <2>2, Unheard DEF FwDie
    <3> QED BY <2>2, <3>1 DEF FwDie, ScanInv, ScanHeld, scanVars
  <2>3. CASE RxScanDone
    <3>1. SameAnswers
      BY <1>1, <2>3, Handled DEF RxScanDone
    <3> QED BY <2>3, <3>1 DEF RxScanDone, ScanInv, ScanHeld, fwVars
  <2>4. ASSUME RxRocOn \/ RxRocExpired PROVE SameAnswers /\ ScanInv'
    <3>1. SameAnswers /\ (Reports(inds') <=> Reports(inds))
      BY <1>1, <2>4, Handled DEF RxRocOn, RxRocExpired
    <3>2. UNCHANGED <<scanReq, kscan, dead, fwScan>>
      BY <2>4 DEF RxRocOn, RxRocExpired, scanVars, fwVars
    <3> QED BY <1>1, <3>1, <3>2 DEF ScanInv, ScanHeld, Reports, SameAnswers, Threads
  <2> QED BY <2>1, <2>2, <2>3, <2>4
<1>3. Shapes'
  BY <1>1, <1>2 DEF Shapes, SameAnswers, vifVars, tabVars
<1>4. Threading'
  BY <1>1, ThreadsKept DEF tabVars
<1>5. Closing' /\ Configuring' /\ DeviceTimed' /\ RunningUp'
  BY <1>1, DriverKept
<1>6. Opening'
  BY <1>1, <1>2, OpeningKept DEF SameAnswers, Threads
<1>7. TableInv' /\ Deferring' /\ FirmwareHas'
  BY <1>1, <1>2, FirmwareKept DEF vifVars, tabVars
<1> QED BY <1>2, <1>3, <1>4, <1>5, <1>6, <1>7 DEF SameAnswers

(* A command is confirmed to its thread, or given up.                      *)
LEMMA AnswerSteps ==
    ASSUME IfaceInv, RxConfirm \/ \E t \in Threads : Timeout(t)
    PROVE  IfaceInv'
<1> USE DEF IfaceInv
<1>1. /\ UNCHANGED <<vifVars, tabVars, p2pVars, pc, arg, cmd, running, fwIfs, deferred, dead, fwScan>>
      /\ UNCHANGED <<scanReq, kscan>>
  BY DEF RxConfirm, Timeout, fwVars, scanVars
<1>2. Closing' /\ Configuring' /\ DeviceTimed' /\ RunningUp'
  BY <1>1, DriverKept
<1>3. CASE RxConfirm
  <2>1. /\ SameAnswers /\ Threading'
        /\ DOMAIN reply' = Threads
        /\ \A s \in Threads : /\ reply'[s] # None => reply'[s].idx \in Idx
                              /\ reply'[s] = reply[s] \/ \E k \in DOMAIN inds : Confirms(s, k)
        /\ Reports(inds') <=> Reports(inds)
    BY <1>3, HandedOver
  <2>2. Shapes'
    BY <1>1, <2>1 DEF Shapes, SameAnswers, vifVars, tabVars
  <2>3. Opening'
    BY <1>1, <2>1, OpeningKept DEF SameAnswers, Threads
  <2>4. TableInv' /\ Deferring' /\ FirmwareHas'
    BY <1>1, <2>1, FirmwareKept DEF vifVars, tabVars
  <2>5. ScanInv'
    BY <1>1, <2>1 DEF ScanInv, ScanHeld, Reports, SameAnswers, Threads
  <2> QED BY <1>2, <2>1, <2>2, <2>3, <2>4, <2>5 DEF SameAnswers
<1>4. ASSUME NEW t \in Threads, Timeout(t) PROVE IfaceInv'
  <2> DEFINE r == [status |-> "error", idx |-> 0]
  <2>1. /\ UNCHANGED inds /\ DOMAIN reply' = Threads /\ dead /\ Pending(t)
        /\ \A s \in Threads : reply'[s] = IF s = t THEN r ELSE reply[s]
        /\ r.status = "error" /\ r.idx = 0 /\ 0 \in Idx
    BY <1>4, IfaceAssumption DEF Timeout, Shapes, Idx
  <2>2. Shapes'
    BY <1>1, <2>1 DEF Shapes, vifVars, tabVars
  <2>3. Threading'
    <3>1. pc[t] \notin Silent
      BY <2>1 DEF Pending, Threading, CommandOf
    <3>2. \A s \in Threads : CommandOf(s)'
      BY <1>1, <2>1, <3>1 DEF Threading, CommandOf, tabVars
    <3> QED BY <1>1, <3>2 DEF Threading, OneOperation
  <2>4. OneAnswer'
    <3>1. \A k \in DOMAIN inds : inds[k].m = "cfm" => inds[k].t \in Threads
      BY Fields DEF Shapes
    <3>2. \A k \in DOMAIN inds : inds[k].m = "cfm" => inds[k].t # t
      BY <2>1 DEF Pending
    <3> QED BY <1>1, <2>1, <3>1, <3>2 DEF OneAnswer
  <2>5. \A s \in Threads, i \in Idx : Given(s, i)' => Given(s, i)
    BY <1>1, <2>1 DEF Given, Confirms
  <2>6. \A x : Changing(x)' <=> Changing(x)
    BY <1>1 DEF Changing
  <2>7. TableInv'
    BY <1>1, <2>5, <2>6, TableKept DEF vifVars, tabVars
  <2>8. Deferring' /\ FirmwareHas'
    <3>1. \A k \in DOMAIN deferred : deferred[k] \in Idx
      BY DEF Shapes
    <3> QED BY <1>1, <2>1, <2>5, <3>1 DEF Deferring, FirmwareHas
  <2>9. Opening'
    <3>1. \A k \in DOMAIN inds' : Confirms("net", k)' => \E l \in DOMAIN inds : Confirms("net", l)
      BY <2>1 DEF Confirms
    <3>2. r # None
      BY <2>1, Fields
    <3>3. reply'["net"] = reply["net"] \/ (reply'["net"] # None /\ ~Ok("net")')
      BY <2>1, <3>2 DEF Ok, Threads
    <3> QED BY <1>1, <3>1, <3>3, OpeningKept
  <2>10. ScanInv'
    BY <1>1, <2>1 DEF ScanInv, ScanHeld
  <2> QED BY <1>2, <2>2, <2>3, <2>4, <2>7, <2>8, <2>9, <2>10
<1> QED BY <1>3, <1>4

(* A deferred removal reaches the firmware.                                *)
LEMMA DeferredStep ==
    ASSUME IfaceInv, FwDeferred
    PROVE  IfaceInv'
<1> USE DEF IfaceInv
<1>1. /\ UNCHANGED <<vifVars, tabVars, p2pVars, pc, arg, cmd, reply, running, dead, inds>>
      /\ UNCHANGED <<scanReq, kscan, fwScan>>
      /\ fwIfs' = IF dead THEN fwIfs ELSE fwIfs \ {deferred[1]}
  BY DEF FwDeferred, thrVars, scanVars
<1>2. SameAnswers
  BY <1>1, Unheard
<1>3. /\ deferred' \in Seq(Idx) /\ 1 \in DOMAIN deferred /\ deferred[1] \in Idx
      /\ \A k \in DOMAIN deferred' : /\ k \in Nat /\ k + 1 \in DOMAIN deferred
                                    /\ deferred'[k] = deferred[k + 1] /\ k + 1 # 1
      /\ \A k \in DOMAIN deferred : k = 1 \/ (k - 1 \in DOMAIN deferred' /\ deferred'[k - 1] = deferred[k] /\ k \in Nat)
  <2>1. /\ deferred' \in Seq(Idx) /\ 1 \in DOMAIN deferred /\ deferred[1] \in Idx
        /\ \A k \in DOMAIN deferred' : k \in Nat /\ k + 1 \in DOMAIN deferred /\ deferred'[k] = deferred[k + 1]
        /\ \A k \in DOMAIN deferred : k = 1 \/ (k - 1 \in DOMAIN deferred' /\ deferred'[k - 1] = deferred[k] /\ k \in Nat)
    BY TakenFirst DEF Shapes, FwDeferred
  <2>2. \A k \in DOMAIN deferred' : k # 0
    BY DEF Shapes, FwDeferred
  <2> QED BY <2>1, <2>2
<1>4. Shapes'
  BY <1>1, <1>2, <1>3 DEF Shapes, SameAnswers, vifVars, tabVars
<1>5. Threading'
  BY <1>1, ThreadsKept DEF tabVars
<1>6. Closing' /\ Configuring' /\ DeviceTimed' /\ RunningUp'
  BY <1>1, DriverKept
<1>7. Opening'
  BY <1>1, <1>2, OpeningKept DEF SameAnswers, Threads
<1>8. TableInv'
  BY <1>1, <1>2, TableKept DEF SameAnswers, vifVars, tabVars
<1>9. \A k \in DOMAIN deferred : deferred[k] \in Idx
  BY DEF Shapes
<1>10. Deferring'
  <2>1. \A k, l \in DOMAIN deferred' : deferred'[k] = deferred'[l] => k = l \/ dead'
    <3>1. \A k, l \in DOMAIN deferred' : deferred'[k] = deferred'[l] => k + 1 = l + 1 \/ dead
      BY <1>3 DEF Deferring
    <3> QED BY <1>1, <1>3, <3>1
  <2>2. \A k \in DOMAIN deferred' :
          /\ \A v \in up' : vifIdx'[v] # deferred'[k] \/ Changing(v)' \/ dead'
          /\ \A s \in Threads : ~Given(s, deferred[k])'
    BY <1>1, <1>2, <1>3, <1>9 DEF Deferring, SameAnswers, tabVars
  <2> QED BY <2>1, <2>2 DEF Deferring
<1>11. FirmwareHas'
  <2> SUFFICES ASSUME ~dead, NEW i \in Idx PROVE i \in fwIfs' <=> Has(i)'
    BY <1>1 DEF FirmwareHas
  <2>1. i \in fwIfs <=> Has(i)
    BY DEF FirmwareHas
  <2>2. (\E k \in DOMAIN deferred' : deferred'[k] = i) <=> i # deferred[1] /\ \E k \in DOMAIN deferred : deferred[k] = i
    BY <1>3 DEF Deferring
  <2>3. (\A v \in up : vifIdx[v] # deferred[1] \/ Changing(v)) /\ \A s \in Threads : ~Given(s, deferred[1])
    BY <1>3 DEF Deferring
  <2> HIDE DEF IfaceInv
  <2> QED BY <1>1, <1>2, <1>3, <2>1, <2>2, <2>3 DEF Has, SameAnswers, tabVars
<1>12. ScanInv'
  BY <1>1, <1>2 DEF ScanInv, ScanHeld, SameAnswers, Threads
<1> QED BY <1>2, <1>4, <1>5, <1>6, <1>7, <1>8, <1>10, <1>11, <1>12 DEF SameAnswers

(* The firmware carries a command out and confirms it.                     *)
LEMMA CommandStep ==
    ASSUME IfaceInv, NEW t \in Threads, FwStep(t)
    PROVE  IfaceInv'
<1> USE DEF IfaceInv
<1> DEFINE c == cmd[t]
<1>1. /\ UNCHANGED <<vifVars, tabVars, p2pVars, pc, arg, cmd, reply, running, dead, deferred>>
      /\ UNCHANGED <<scanReq, kscan>>
      /\ ~dead /\ deferred = <<>> /\ Pending(t)
  BY DEF FwStep, thrVars, scanVars
<1>2. PICK i \in Idx, st \in {"ok", "refused"} :
         /\ inds' = Append(inds, Confirm(t, st, i))
         /\ st = "ok" \/ c.m = "roc"
         /\ \/ c.m = "add" /\ i \notin fwIfs /\ fwIfs' = fwIfs \cup {i}
            \/ c.m = "remove" /\ fwIfs' = fwIfs \ {c.i}
            \/ c.m = "reset" /\ fwIfs' = {}
            \/ c.m \notin {"add", "remove", "reset"} /\ fwIfs' = fwIfs
         /\ fwScan => fwScan'
         /\ c.m = "scan" => fwScan'
  <2>1. 0 \in Idx
    BY IfaceAssumption DEF Idx
  <2> QED BY <2>1 DEF FwStep
<1>3. pc[t] \notin Silent
  BY <1>1 DEF Pending, Threading, CommandOf
<1>4. /\ c.m = "add" <=> pc[t] \in AddAt
      /\ c.m = "remove" <=> pc[t] \in RemoveAt
      /\ c.m = "reset" <=> pc[t] = "close.reset"
      /\ c.m = "scan" <=> pc[t] = "scan.started"
      /\ c.m = "roc" <=> pc[t] = "roc.sent"
      /\ pc[t] \in RemoveAt => c.i = vifIdx[arg[t]]
  BY <1>3 DEF Threading, CommandOf
<1>5. /\ inds' \in Seq(Message) /\ OneAnswer' /\ ~Answered(t)
      /\ pc[t] \notin Silent /\ \A s \in Threads : s # t => pc[s] = "idle"
      /\ Reports(inds') <=> Reports(inds)
      /\ \A s \in Threads, j \in Idx :
            /\ ~Given(s, j) /\ ~Removed(s, j)
            /\ Given(s, j)' <=> s = t /\ pc[t] \in AddAt /\ j = i
            /\ Removed(s, j)' <=> s = t /\ pc[t] \in RemoveAt /\ j = cmd[t].i
  BY <1>1, <1>2, <1>4, Confirmed
<1>6. fwIfs' \subseteq Idx
  BY <1>2 DEF Shapes
<1>7. Shapes'
  BY <1>1, <1>5, <1>6 DEF Shapes, vifVars, tabVars
<1>8. Threading'
  BY <1>1, ThreadsKept DEF tabVars
<1>9. Closing' /\ Configuring' /\ DeviceTimed' /\ RunningUp'
  BY <1>1, DriverKept
<1>10. Opening'
  BY <1>1 DEF Opening, vifVars, tabVars, p2pVars
<1>11. \A x : Changing(x)' <=> Changing(x)
  BY <1>1 DEF Changing
<1>12. TableInv'
  <2>1. TableExact'
    BY <1>1, <1>11 DEF TableInv, TableExact, Changing, vifVars, tabVars
  <2>2. \A v \in up : pc[t] \in AddAt => vifIdx[v] # i \/ Changing(v)
    BY <1>1, <1>2, <1>4, <1>5 DEF FirmwareHas, Has
  <2> QED BY <1>1, <1>5, <1>11, <2>1, <2>2 DEF TableInv, vifVars, tabVars
<1>13. Deferring'
  BY <1>1 DEF Deferring
<1>14. FirmwareHas'
  <2> SUFFICES ASSUME NEW j \in Idx PROVE j \in fwIfs' <=> Has(j)'
    BY DEF FirmwareHas
  <2>1. j \in fwIfs <=> \E v \in up : vifIdx[v] = j /\ ~Changing(v)
    BY <1>1, <1>5 DEF FirmwareHas, Has
  <2>2. Has(j)' <=> \/ (\E v \in up : vifIdx[v] = j /\ ~Changing(v)) /\ ~(pc[t] \in RemoveAt /\ j = c.i)
                    \/ pc[t] \in AddAt /\ j = i
    BY <1>1, <1>5, <1>11 DEF Has, tabVars
  <2>3. pc[t] = "close.reset" => up = {}
    BY <1>7 DEF Shapes, Closing, CloseAt, Threads, CfgAt, Both
  <2>4. pc[t] \in RemoveAt => pc[t] \notin AddAt /\ pc[t] # "close.reset"
    BY DEF RemoveAt, AddAt
  <2>5. pc[t] = "close.reset" => pc[t] \notin AddAt
    BY DEF AddAt
  <2> HIDE DEF IfaceInv
  <2> QED BY <1>2, <1>4, <2>1, <2>2, <2>3, <2>4, <2>5
<1>15. ScanInv'
  <2>1. pc["cfg"] = "scan.started" => t = "cfg"
    BY <1>5 DEF Threads
  <2> QED BY <1>1, <1>2, <1>4, <1>5, <2>1 DEF ScanInv, ScanHeld, Reports
<1> QED BY <1>5, <1>7, <1>8, <1>9, <1>10, <1>12, <1>13, <1>14, <1>15

(* The alive timer fires, and the last time takes the P2P device away.     *)
LEMMA AliveStep ==
    ASSUME IfaceInv, P2pAliveTimeout
    PROVE  IfaceInv'
<1> USE DEF IfaceInv
<1>1. /\ UNCHANGED <<vifVars, p2pDev, pc, arg, cmd, reply, running, dead, inds, fwIfs>>
      /\ UNCHANGED <<scanReq, kscan, fwScan>>
      /\ timer /\ alive /\ p2pDev \in up /\ p2pDev \in Vifs /\ type[p2pDev] = "P2P_DEVICE"
  BY IfaceAssumption DEF P2pAliveTimeout, thrVars, scanVars, fwVars, DeviceTimed, RunningUp,
     Shapes
<1>2. SameAnswers
  BY <1>1, Unheard
<1>3. ScanInv'
  BY <1>1, <1>2 DEF ScanInv, ScanHeld, SameAnswers, Threads
<1>4. ASSUME UNCHANGED <<timer, tabVars, deferred>>, alive' PROVE IfaceInv'
  <2>1. Shapes'
    BY <1>1, <1>2, <1>4 DEF Shapes, SameAnswers, vifVars, tabVars
  <2>2. Threading'
    BY <1>1, <1>4, ThreadsKept DEF tabVars
  <2>3. Closing' /\ Configuring' /\ Opening' /\ RunningUp'
    BY <1>1, <1>2, <1>4 DEF Closing, Configuring, Opening, RunningUp, SameAnswers, Confirms,
       Ok, vifVars, tabVars
  <2>4. DeviceTimed'
    BY <1>1, <1>4 DEF DeviceTimed, vifVars, tabVars
  <2>5. TableInv' /\ Deferring' /\ FirmwareHas'
    BY <1>1, <1>2, <1>4, FirmwareKept DEF vifVars, tabVars
  <2> QED BY <1>2, <1>3, <2>1, <2>2, <2>3, <2>4, <2>5 DEF SameAnswers
<1>5. ASSUME ~alive', ~timer', deferred' = Append(deferred, vifIdx[p2pDev]), Uninstall(p2pDev)
      PROVE  IfaceInv'
  <2>1. /\ up' = up \ {p2pDev} /\ vifIdx' = vifIdx /\ table' = [table EXCEPT ![vifIdx[p2pDev]] = None]
        /\ up \subseteq Vifs /\ vifIdx[p2pDev] \in Idx
    BY <1>1, <1>5 DEF Uninstall, Shapes, RunningUp
  <2>2. ~Changing(p2pDev)
    BY <1>1 DEF Changing, Configuring, Both
  <2>3. dead \/ \A s \in Threads : ~Removed(s, vifIdx[p2pDev])
    <3> SUFFICES ASSUME ~dead, NEW s \in Threads, Removed(s, vifIdx[p2pDev]) PROVE FALSE
      OBVIOUS
    <3>1. pc[s] \in RemoveAt /\ vifIdx[arg[s]] = vifIdx[p2pDev]
      BY DEF Removed, Threading, CommandOf
    <3>2. arg[s] \in up /\ type[arg[s]] # "P2P_DEVICE"
      BY <3>1 DEF Closing, Configuring, CloseAt, Both, RemoveAt, Shapes, OpenAt, CfgAt, Threads
    <3>3. pc["cfg"] # "chg.added"
      BY <3>1 DEF Threading, OneOperation, Threads, RemoveAt
    <3>4. table[vifIdx[arg[s]]] = arg[s] /\ table[vifIdx[p2pDev]] = p2pDev
      BY <1>1, <3>2, <3>3 DEF TableInv, TableExact
    <3> QED BY <1>1, <3>1, <3>2, <3>4
  <2>4. TableInv' /\ Deferring' /\ FirmwareHas' /\ deferred' \in Seq(Idx)
    BY <1>1, <1>2, <1>5, <2>1, <2>2, <2>3, TableDefer DEF SameAnswers, vifVars
  <2>5. Shapes'
    BY <1>1, <1>2, <2>1, <2>4 DEF Shapes, SameAnswers, vifVars
  <2>6. Threading'
    BY <1>1, <2>1, ThreadsKept
  <2>7. DeviceTimed' /\ RunningUp'
    BY <1>1, <1>5, <2>1 DEF DeviceTimed, RunningUp, vifVars
  <2>8. Closing' /\ Configuring' /\ Opening'
    BY <1>1, <1>2, <2>1 DEF Closing, Configuring, Opening, SameAnswers, Confirms, Ok, vifVars
  <2> QED BY <1>2, <1>3, <2>4, <2>5, <2>6, <2>7, <2>8 DEF SameAnswers
<1> QED BY <1>1, <1>4, <1>5 DEF P2pAliveTimeout

(* The interfaces of Iface keep its invariant when every operation holds   *)
(* RTNL.                                                                   *)
LEMMA IfaceStart == Init => IfaceInv
<1> SUFFICES ASSUME Init PROVE IfaceInv
  OBVIOUS
<1>1. "net" \in Threads /\ "cfg" \in Threads
  BY DEF Threads
<1>2. /\ \A t \in Threads : pc[t] = "idle" /\ cmd[t] = None /\ reply[t] = None
      /\ DOMAIN inds = {} /\ DOMAIN deferred = {}
  BY DEF Init
<1>3. Shapes
  <2>1. 0 \in Idx
    BY IfaceAssumption DEF Idx
  <2> QED BY <2>1, <1>1, <1>2, IfaceAssumption DEF Init, Shapes
<1>4. Threading /\ OneAnswer
  BY <1>1, <1>2 DEF Threading, OneOperation, CommandOf, Silent, RemoveAt, OneAnswer
<1>5. Opening /\ Closing /\ Configuring
  BY <1>1, <1>2 DEF Opening, Closing, Configuring, OpenAt, CloseAt, Both
<1>6. DeviceTimed /\ RunningUp
  BY DEF Init, DeviceTimed, RunningUp
<1>7. \A t \in Threads, i \in Idx : ~Given(t, i)
  BY <1>1, <1>2 DEF Given, AddAt
<1>8. TableInv
  <2>1. Cardinality({}) = 0
    BY FS_EmptySet
  <2>2. TableExact
    BY <2>1 DEF Init, TableExact
  <2> QED BY <1>7, <2>2 DEF Init, TableInv
<1>9. Deferring /\ FirmwareHas
  BY <1>2, <1>7 DEF Init, Deferring, FirmwareHas, Has
<1>10. ScanInv
  BY DEF Init, ScanInv, ScanHeld
<1> QED BY <1>3, <1>4, <1>5, <1>6, <1>8, <1>9, <1>10 DEF IfaceInv

(* Every step of Iface keeps the invariant.                                *)
LEMMA IfaceStep ==
    ASSUME Rtnl, IfaceInv, [Next]_vars
    PROVE  IfaceInv'
<1>1. CASE UNCHANGED vars
  <2>1. UNCHANGED <<vifVars, tabVars, p2pVars, scanVars, thrVars, fwVars, running, deferred, inds>>
    BY <1>1 DEF vars
  <2> USE <2>1 DEF vifVars, tabVars, p2pVars, scanVars, thrVars, fwVars
  <2>2. Shapes' /\ Threading' /\ OneAnswer' /\ Opening' /\ Closing' /\ Configuring'
    BY DEF IfaceInv, Shapes, Threading, OneOperation, CommandOf, OneAnswer, Opening, Closing,
       Configuring, Confirms, Ok
  <2>3. SameAnswers
    BY Unheard DEF IfaceInv
  <2>4. TableInv' /\ Deferring' /\ FirmwareHas'
    BY <2>3, FirmwareKept DEF IfaceInv
  <2>5. DeviceTimed' /\ RunningUp'
    BY DEF IfaceInv, DeviceTimed, RunningUp
  <2>6. ScanInv'
    BY <2>3 DEF IfaceInv, ScanInv, ScanHeld, SameAnswers, Threads
  <2> QED BY <2>2, <2>4, <2>5, <2>6 DEF IfaceInv
<1>2. CASE Call
  BY <1>2, CallStep
<1>3. CASE NetStep
  BY <1>3, NetSteps
<1>4. CASE CfgStep
  BY <1>4, CfgSteps
<1>5. CASE Rx
  BY <1>5, ReportSteps, AnswerSteps DEF Rx
<1>6. CASE Firmware
  BY <1>6, DeferredStep, ReportSteps, CommandStep DEF Firmware
<1>7. CASE FwDie
  BY <1>7, ReportSteps
<1>8. CASE P2pAliveTimeout
  BY <1>8, AliveStep
<1>9. CASE \E t \in Threads : Timeout(t)
  BY <1>9, AnswerSteps
<1> QED BY <1>1, <1>2, <1>3, <1>4, <1>5, <1>6, <1>7, <1>8, <1>9 DEF Next

(* Outside of operations the indices of the interfaces that are up are     *)
(* those the firmware has, one each.                                       *)
LEMMA IfaceAgrees == IfaceInv => TableExact /\ FwAgrees /\ ScanHeld /\ TimerHasDevice
<1> SUFFICES ASSUME IfaceInv PROVE TableExact /\ FwAgrees /\ ScanHeld /\ TimerHasDevice
  OBVIOUS
<1>1. TableExact /\ ScanHeld
  BY DEF IfaceInv, TableInv, ScanInv
<1>2. TimerHasDevice
  BY DEF IfaceInv, DeviceTimed, RunningUp, TimerHasDevice
<1>3. ASSUME \A t \in Threads : pc[t] = "idle", deferred = <<>>, ~dead
      PROVE  fwIfs = {vifIdx[v] : v \in up} /\ Cardinality(fwIfs) = Cardinality(up)
  <2>1. /\ \A s \in Threads, i \in Idx : ~Given(s, i) /\ ~Removed(s, i)
        /\ \A v : ~Changing(v)
    BY <1>3, BeforeCall
  <2>2. up \subseteq Vifs /\ vifIdx \in [Vifs -> Idx] /\ fwIfs \subseteq Idx
    BY DEF IfaceInv, Shapes, RunningUp
  <2>3. \A i \in Idx : i \in fwIfs <=> \E v \in up : vifIdx[v] = i
    BY <1>3, <2>1 DEF IfaceInv, FirmwareHas, Has
  <2>4. fwIfs = {vifIdx[v] : v \in up}
    BY <2>2, <2>3
  <2>5. \A v, w \in up : vifIdx[v] = vifIdx[w] => v = w
    BY <1>1, <1>3, <2>1 DEF TableExact, Changing
  <2>6. IsFiniteSet(up)
    BY <2>2, FS_Subset, IfaceAssumption
  <2> DEFINE f == [v \in up |-> vifIdx[v]]
  <2>7. f \in Bijection(up, fwIfs)
    <3>1. f \in [up -> fwIfs] /\ (\A v, w \in up : f[v] = f[w] => v = w)
          /\ \A i \in fwIfs : \E v \in up : f[v] = i
      BY <2>4, <2>5
    <3> HIDE DEF f
    <3> QED BY <3>1 DEF Bijection, Injection, Surjection, IsInjective
  <2>8. ExistsBijection(up, fwIfs)
    BY <2>7 DEF ExistsBijection
  <2> QED BY <2>4, <2>6, <2>8, FS_Bijection
<1>4. FwAgrees
  BY <1>3 DEF FwAgrees
<1> QED BY <1>1, <1>2, <1>4

(* When every operation holds RTNL, vif_table and vif_started are exactly  *)
(* the interfaces that are up, the firmware has them under the same        *)
(* indices outside of operations, a scan request is completed once and     *)
(* held until then, and the alive timer only runs while its P2P device is  *)
(* up: for any number of interfaces, operations and messages on their way. *)
THEOREM InterfacesKept ==
    ASSUME Rtnl
    PROVE  Spec => [](TableExact /\ FwAgrees /\ ScanHeld /\ TimerHasDevice)
<1>1. IfaceInv /\ [Next]_vars => IfaceInv'
  BY IfaceStep
<1> QED BY <1>1, IfaceStart, IfaceAgrees, PTL DEF Spec

(* The same for the behaviours of the host run, whose other parts leave    *)
(* the variables of Iface alone.                                           *)
LEMMA HostIface ==
    ASSUME Rtnl
    PROVE  MCSpec => [](TableExact /\ FwAgrees /\ ScanHeld /\ TimerHasDevice)
<1>1. MCInit => Init
  BY DEF MCInit
<1>2. [MCNext]_allVars => [Next]_vars
  BY DEF MCNext, InSm, InApm, InDfs, allVars
<1> QED BY <1>1, <1>2, InterfacesKept, PTL DEF MCSpec, Spec

(* vif_table, vif_started and the firmware's interfaces are those that are *)
(* up.                                                                     *)
THEOREM HostInterfacesAgree ==
    ASSUME Rtnl
    PROVE  MCSpec => []InterfacesAgree
<1>1. TableExact /\ FwAgrees /\ ScanHeld /\ TimerHasDevice => InterfacesAgree
  BY DEF InterfacesAgree
<1> QED BY <1>1, HostIface, PTL

(* A scan request is held until it is completed, once, and the alive timer *)
(* runs only while the P2P device is there.                                *)
THEOREM HostScanAndTimer ==
    ASSUME Rtnl
    PROVE  MCSpec => []ScanAndTimerHeld
<1>1. TableExact /\ FwAgrees /\ ScanHeld /\ TimerHasDevice => ScanAndTimerHeld
  BY DEF ScanAndTimerHeld
<1> QED BY <1>1, HostIface, PTL

-----------------------------------------------------------------------------
(******************************** Conn ************************************)

(* A set of numbers has a least one.                                       *)
LEMMA Least ==
  ASSUME NEW T \in SUBSET Nat, T # {}
  PROVE  \E x \in T : \A y \in T : x <= y
<1>1. PICK R : R = OpToRel(<, Nat)
  OBVIOUS
<1>2. IsWellFoundedOn(R, Nat)
  BY <1>1, NatLessThanWellFounded, Zenon
<1>3. \A x, y \in Nat : <<x, y>> \in R <=> x < y
  BY <1>1 DEF OpToRel
<1>4. PICK x \in T : \A y \in T : ~ (<<y, x>> \in R)
  BY <1>2, WFMin
<1>5. ASSUME NEW y \in T PROVE x <= y
  <2>1. x \in Nat /\ y \in Nat
    OBVIOUS
  <2>2. ~(y < x)
    BY <1>3, <1>4, <2>1
  <2> QED BY <2>1, <2>2
<1> QED BY <1>5

(* The parts of the invariant that a live command manager keeps.           *)
ConnSound == Sm!OneCommand /\ Sm!Presence /\ Sm!Alternate /\ Sm!JoinEnds /\ Sm!Known /\ Sm!Wanted

(* The operations of user space leave the firmware and its messages alone. *)
LEMMA ConnUser ==
    ASSUME Sm!ConnAssumption, Sm!ConnTypeOK, ~c_crashed, ConnSound, Sm!Call \/ Sm!UserStep
    PROVE  ConnSound'
<1> USE DEF ConnSound, Sm!ConnAssumption
<1>0. c_inds' = c_inds /\ fw' = fw /\ c_crashed' = c_crashed
  BY DEF Sm!Call, Sm!UserStep, Sm!OpenBegin, Sm!ConnectIgnored, Sm!Disconnect,
    Sm!ExternalAuth, Sm!CloseBegin,
    Sm!ConnectBegin, Sm!OpenAdded, Sm!ConnectEnd, Sm!DisconnectEnd,
    Sm!CloseDisconnect, Sm!CloseLeft,
    Sm!CloseRemoved, Sm!fwVars, Sm!cmdVars, Sm!Send, Sm!Goto
<1>1. Sm!Alternate' /\ Sm!JoinEnds' /\ (Sm!Linked' <=> Sm!Linked)
  BY <1>0 DEF Sm!Alternate, Sm!JoinEnds, Sm!Linked, Sm!LinkUp, Sm!LinkDown,
    Sm!Result, Sm!Left, Sm!Unlinked, Sm!Ended, Sm!Joins,
    Sm!CfmdJoin, Sm!Cfmd
<1>2. \A i \in DOMAIN c_inds : (Sm!Cfmd(i)' <=> Sm!Cfmd(i)) /\ (Sm!LinkUp(i)' <=> Sm!LinkUp(i))
        /\ (Sm!Left(i)' <=> Sm!Left(i)) /\ (Sm!Result(i)' <=> Sm!Result(i))
  BY <1>0 DEF Sm!LinkUp, Sm!LinkDown, Sm!Result, Sm!Left, Sm!Cfmd
<1>3. Sm!Joins' <=> Sm!Joins
  BY <1>0 DEF Sm!Joins
<1> USE <1>0, <1>1, <1>2, <1>3
<1>4. CASE Sm!OpenBegin
  <2>1. Sm!OneCommand'
    BY <1>4 DEF Sm!OpenBegin, Sm!Begin, Sm!Send, Sm!OneCommand, Sm!Sends
  <2>2. Sm!Presence'
    BY <1>4 DEF Sm!OpenBegin, Sm!Begin, Sm!Send, Sm!Presence, Sm!krnVars
  <2>3. Sm!Known'
    BY <1>4 DEF Sm!OpenBegin, Sm!Begin, Sm!Send, Sm!Known, Sm!krnVars, Sm!Presence,
      Sm!Linked
  <2>4. Sm!Wanted'
    BY <1>4 DEF Sm!OpenBegin, Sm!Begin, Sm!Send, Sm!Wanted, Sm!krnVars, Sm!Presence,
      Sm!Joins
  <2> QED BY <2>1, <2>2, <2>3, <2>4
<1>5. CASE Sm!OpenAdded
  <2>1. Sm!OneCommand'
    BY <1>5 DEF Sm!OpenAdded, Sm!At, Sm!Goto, Sm!OneCommand, Sm!Sends
  <2>2. Sm!Presence'
    BY <1>5 DEF Sm!OpenAdded, Sm!At, Sm!Goto, Sm!Presence, Sm!krnVars, Sm!OneCommand,
      Sm!Sends
  <2>3. Sm!Known'
    BY <1>5 DEF Sm!OpenAdded, Sm!At, Sm!Goto, Sm!Known, Sm!krnVars, Sm!Presence,
      Sm!Linked
  <2>4. Sm!Wanted'
    BY <1>5 DEF Sm!OpenAdded, Sm!At, Sm!Goto, Sm!Wanted, Sm!krnVars, Sm!Presence,
      Sm!OneCommand, Sm!Sends
  <2> QED BY <2>1, <2>2, <2>3, <2>4
<1>6. CASE Sm!ConnectIgnored
  <2>1. Sm!OneCommand'
    BY <1>6 DEF Sm!ConnectIgnored, Sm!Begin, Sm!OneCommand, Sm!Sends, Sm!cmdVars
  <2>2. Sm!Presence'
    BY <1>6 DEF Sm!ConnectIgnored, Sm!Begin, Sm!Presence, Sm!cmdVars
  <2>3. Sm!Known'
    BY <1>6 DEF Sm!ConnectIgnored, Sm!Begin, Sm!Known, Sm!cmdVars
  <2>4. Sm!Wanted'
    BY <1>6 DEF Sm!ConnectIgnored, Sm!Begin, Sm!Wanted, Sm!cmdVars
  <2> QED BY <2>1, <2>2, <2>3, <2>4
<1>7. ASSUME NEW k \in Kinds, Sm!ConnectBegin(k) PROVE ConnSound'
  <2>0. conn # "DISCONNECTING" /\ c_up /\ c_pc = "idle"
    BY <1>7 DEF Sm!ConnectBegin, Sm!BusyReturn, Sm!Busy, Sm!Begin
  <2>a. (conn' = "ROAMING" \/ conn' = "CONNECTING") /\ (isRoam' <=> conn = "CONNECTED")
        /\ UNCHANGED <<c_up, inTable, c_ap, carrier, kconn>>
    BY <1>7 DEF Sm!ConnectBegin
  <2>1. Sm!OneCommand'
    BY <1>7, <2>0 DEF Sm!ConnectBegin, Sm!Send, Sm!OneCommand, Sm!Sends, Sm!cmdVars
  <2>2. Sm!Presence'
    BY <1>7, <2>0, <2>a DEF Sm!ConnectBegin, Sm!Send, Sm!Presence, Sm!cmdVars,
      Sm!OneCommand, Sm!Sends
  <2>3. Sm!Known'
    BY <1>7, <2>0, <2>a DEF Sm!ConnectBegin, Sm!Send, Sm!Known, Sm!cmdVars
  <2>4. Sm!Wanted'
    BY <1>7, <2>0, <2>a DEF Sm!ConnectBegin, Sm!Send, Sm!Wanted, Sm!cmdVars,
      Sm!OneCommand
  <2> QED BY <2>1, <2>2, <2>3, <2>4
<1>8. CASE Sm!ConnectEnd
  <2>1. Sm!OneCommand'
    BY <1>8 DEF Sm!ConnectEnd, Sm!At, Sm!Goto, Sm!OneCommand, Sm!Sends
  <2>2. Sm!Presence'
    BY <1>8 DEF Sm!ConnectEnd, Sm!At, Sm!Goto, Sm!Presence, Sm!drvVars
  <2>3. Sm!Known'
    BY <1>8 DEF Sm!ConnectEnd, Sm!At, Sm!Goto, Sm!Known, Sm!drvVars
  <2>4. Sm!Wanted'
    BY <1>8 DEF Sm!ConnectEnd, Sm!At, Sm!Goto, Sm!Wanted, Sm!drvVars, Sm!OneCommand
  <2> QED BY <2>1, <2>2, <2>3, <2>4
<1>9. CASE Sm!Disconnect
  <2>1. Sm!OneCommand'
    BY <1>9 DEF Sm!Disconnect, Sm!Begin, Sm!Send, Sm!OneCommand, Sm!Sends
  <2>2. Sm!Presence'
    BY <1>9 DEF Sm!Disconnect, Sm!Begin, Sm!Send, Sm!Presence, Sm!OneCommand
  <2>3. Sm!Known'
    BY <1>9 DEF Sm!Disconnect, Sm!Begin, Sm!Send, Sm!Known
  <2>4. Sm!Wanted'
    BY <1>9 DEF Sm!Disconnect, Sm!Begin, Sm!Send, Sm!Wanted, Sm!OneCommand
  <2> QED BY <2>1, <2>2, <2>3, <2>4
<1>10. CASE Sm!DisconnectEnd
  <2>1. Sm!OneCommand'
    BY <1>10 DEF Sm!DisconnectEnd, Sm!At, Sm!Goto, Sm!OneCommand, Sm!Sends
  <2>2. Sm!Presence'
    BY <1>10 DEF Sm!DisconnectEnd, Sm!At, Sm!Goto, Sm!Presence, Sm!drvVars, Sm!krnVars
  <2>3. Sm!Known'
    BY <1>10 DEF Sm!DisconnectEnd, Sm!At, Sm!Goto, Sm!Known, Sm!drvVars, Sm!krnVars
  <2>4. Sm!Wanted'
    BY <1>10 DEF Sm!DisconnectEnd, Sm!At, Sm!Goto, Sm!Wanted, Sm!drvVars, Sm!krnVars,
      Sm!OneCommand
  <2> QED BY <2>1, <2>2, <2>3, <2>4
<1>11. CASE Sm!ExternalAuth
  <2>1. Sm!OneCommand'
    BY <1>11 DEF Sm!ExternalAuth, Sm!Begin, Sm!Send, Sm!OneCommand, Sm!Sends
  <2>2. Sm!Presence'
    BY <1>11 DEF Sm!ExternalAuth, Sm!Begin, Sm!Send, Sm!Presence, Sm!krnVars,
      Sm!OneCommand
  <2>3. Sm!Known'
    BY <1>11 DEF Sm!ExternalAuth, Sm!Begin, Sm!Send, Sm!Known, Sm!krnVars
  <2>4. Sm!Wanted'
    BY <1>11 DEF Sm!ExternalAuth, Sm!Begin, Sm!Send, Sm!Wanted, Sm!krnVars,
      Sm!OneCommand
  <2> QED BY <2>1, <2>2, <2>3, <2>4
<1>12. CASE Sm!CloseBegin
  <2>1. Sm!OneCommand'
    BY <1>12 DEF Sm!CloseBegin, Sm!Begin, Sm!Goto, Sm!OneCommand, Sm!Sends
  <2>2. Sm!Presence'
    BY <1>12 DEF Sm!CloseBegin, Sm!Begin, Sm!Goto, Sm!Presence, Sm!drvVars,
      Sm!krnVars, Sm!OneCommand
  <2>3. Sm!Known'
    BY <1>12 DEF Sm!CloseBegin, Sm!Begin, Sm!Goto, Sm!Known, Sm!drvVars, Sm!krnVars
  <2>4. Sm!Wanted'
    BY <1>12 DEF Sm!CloseBegin, Sm!Begin, Sm!Goto, Sm!Wanted, Sm!drvVars, Sm!krnVars,
      Sm!OneCommand
  <2> QED BY <2>1, <2>2, <2>3, <2>4
<1>13. CASE Sm!CloseDisconnect
  <2>0. c_up /\ c_cmd = "none"
    BY <1>13 DEF Sm!CloseDisconnect, Sm!Presence, Sm!OneCommand
  <2>1. Sm!OneCommand'
    BY <1>13 DEF Sm!CloseDisconnect, Sm!Send, Sm!OneCommand, Sm!Sends
  <2>2. Sm!Presence'
    BY <1>13, <2>0 DEF Sm!CloseDisconnect, Sm!Send, Sm!Presence, Sm!krnVars,
      Sm!OneCommand
  <2>3. Sm!Known'
    BY <1>13, <2>0 DEF Sm!CloseDisconnect, Sm!Send, Sm!Known, Sm!krnVars
  <2>4. Sm!Wanted'
    BY <1>13, <2>0 DEF Sm!CloseDisconnect, Sm!Send, Sm!Wanted, Sm!krnVars, Sm!OneCommand
  <2> QED BY <2>1, <2>2, <2>3, <2>4
<1>14. CASE Sm!CloseLeft
  <2>1. Sm!OneCommand'
    BY <1>14 DEF Sm!CloseLeft, Sm!At, Sm!Send, Sm!OneCommand, Sm!Sends
  <2>2. Sm!Presence'
    BY <1>14 DEF Sm!CloseLeft, Sm!At, Sm!Send, Sm!KeepsEntry, Sm!Presence,
      Sm!krnVars, Sm!OneCommand
  <2>3. Sm!Known'
    BY <1>14 DEF Sm!CloseLeft, Sm!At, Sm!Send, Sm!KeepsEntry, Sm!Known, Sm!krnVars
  <2>4. Sm!Wanted'
    BY <1>14 DEF Sm!CloseLeft, Sm!At, Sm!Send, Sm!Wanted, Sm!krnVars, Sm!OneCommand
  <2> QED BY <2>1, <2>2, <2>3, <2>4
<1>15. CASE Sm!CloseRemoved
  <2>0. fw = "none" /\ c_inds = <<>> /\ c_cmd = "none" /\ c_pc = "close.removed"
    BY <1>15 DEF Sm!CloseRemoved, Sm!At, Sm!OneCommand, Sm!Presence
  <2>1. Sm!OneCommand'
    BY <1>15, <2>0 DEF Sm!CloseRemoved, Sm!Goto, Sm!OneCommand, Sm!Sends
  <2>2. Sm!Presence'
    BY <1>15, <2>0 DEF Sm!CloseRemoved, Sm!Goto, Sm!Presence
  <2>3. Sm!Known'
    BY <1>15, <2>0 DEF Sm!CloseRemoved, Sm!Goto, Sm!Known, Sm!Linked
  <2>4. Sm!Wanted'
    BY <1>15, <2>0 DEF Sm!CloseRemoved, Sm!Goto, Sm!Wanted, Sm!Joins
  <2> QED BY <2>1, <2>2, <2>3, <2>4
<1> QED BY <1>4, <1>5, <1>6, <1>7, <1>8, <1>9, <1>10, <1>11, <1>12, <1>13, <1>14, <1>15
        DEF Sm!Call, Sm!UserStep

(* The queue without its first message, which is the one that is handled.  *)
MsgTaken == c_inds # <<>> /\ c_inds' = Tail(c_inds) /\ fw' = fw

(* What is left when the first message has been taken.                     *)
LEMMA MsgTakenFacts ==
    ASSUME c_inds \in Seq(Sm!Message), MsgTaken
    PROVE  /\ c_inds' \in Seq(Sm!Message) /\ 1 \in DOMAIN c_inds /\ c_inds[1] \in Sm!Message
           /\ Head(c_inds) = c_inds[1]
           /\ DOMAIN c_inds = 1..Len(c_inds) /\ Len(c_inds) \in Nat
           /\ DOMAIN c_inds' = 1..(Len(c_inds) - 1) /\ Len(c_inds') = Len(c_inds) - 1
           /\ \A k \in DOMAIN c_inds' : k \in Nat /\ k + 1 \in DOMAIN c_inds /\ c_inds'[k] = c_inds[k + 1]
           /\ \A k \in DOMAIN c_inds : k = 1 \/ (k - 1 \in DOMAIN c_inds' /\ c_inds'[k - 1] = c_inds[k] /\ k \in Nat)
           /\ fw' = fw
  BY DEF MsgTaken

(* The k-th of the messages left is what the one behind it was.            *)
MsgShifted(k) ==
    /\ Sm!Cfmd(k)' <=> Sm!Cfmd(k + 1)
    /\ Sm!CfmdJoin(k)' <=> Sm!CfmdJoin(k + 1)
    /\ Sm!LinkUp(k)' <=> Sm!LinkUp(k + 1)
    /\ Sm!LinkDown(k)' <=> Sm!LinkDown(k + 1)
    /\ Sm!Result(k)' <=> Sm!Result(k + 1)
    /\ Sm!Left(k)' <=> Sm!Left(k + 1)
    /\ Sm!Unlinked(k)' <=> Sm!Unlinked(k + 1)
    /\ Sm!Ended(k)' <=> Sm!Ended(k + 1)

(* Every message left keeps what it says.                                  *)
LEMMA MsgShiftedAll ==
    ASSUME c_inds \in Seq(Sm!Message), MsgTaken
    PROVE  \A k \in DOMAIN c_inds' : MsgShifted(k)
<1> SUFFICES ASSUME NEW k \in DOMAIN c_inds' PROVE MsgShifted(k)
  OBVIOUS
<1>1. c_inds'[k] = c_inds[k + 1]
  BY MsgTakenFacts
<1> QED BY <1>1 DEF MsgShifted, Sm!Cfmd, Sm!CfmdJoin, Sm!LinkUp, Sm!LinkDown,
          Sm!Result, Sm!Left, Sm!Unlinked, Sm!Ended

(* A handled message leaves the order of the others as it was.             *)
LEMMA MsgTakenOrder ==
    ASSUME Sm!ConnTypeOK, Sm!Alternate, Sm!JoinEnds, MsgTaken
    PROVE  Sm!Alternate' /\ Sm!JoinEnds'
<1>s. \A k \in DOMAIN c_inds' : k \in Nat /\ k > 0 /\ k + 1 \in DOMAIN c_inds /\ MsgShifted(k)
  BY MsgTakenFacts, MsgShiftedAll DEF Sm!ConnTypeOK
<1>t. \A k \in DOMAIN c_inds : k \in Nat /\ (k > 1 => k - 1 \in DOMAIN c_inds')
  BY MsgTakenFacts DEF Sm!ConnTypeOK
<1>f. fw' = fw
  BY DEF MsgTaken
<1>0. Sm!Joins' <=> Sm!Joins
  BY <1>f DEF Sm!Joins
<1>1. Sm!Alternate'
  <2>1. ASSUME NEW i \in DOMAIN c_inds', NEW j \in DOMAIN c_inds', Sm!LinkUp(i)', Sm!LinkUp(j)', i < j
        PROVE \E k \in DOMAIN c_inds' : i < k /\ k < j /\ Sm!LinkDown(k)'
    <3>1. PICK k \in DOMAIN c_inds : i + 1 < k /\ k < j + 1 /\ Sm!LinkDown(k)
      BY <2>1, <1>s, <1>t, <1>f DEF Sm!Alternate, MsgShifted
    <3>2. k - 1 \in DOMAIN c_inds' /\ i < k - 1 /\ k - 1 < j /\ Sm!LinkDown(k - 1)'
      BY <3>1, <1>s, <1>t DEF MsgShifted
    <3> QED BY <3>2
  <2>2. ASSUME NEW i \in DOMAIN c_inds', NEW j \in DOMAIN c_inds', Sm!Unlinked(i)', Sm!LinkDown(j)', i < j
        PROVE \E k \in DOMAIN c_inds' : i < k /\ k < j /\ Sm!LinkUp(k)'
    <3>1. PICK k \in DOMAIN c_inds : i + 1 < k /\ k < j + 1 /\ Sm!LinkUp(k)
      BY <2>2, <1>s, <1>t, <1>f DEF Sm!Alternate, MsgShifted
    <3>2. k - 1 \in DOMAIN c_inds' /\ i < k - 1 /\ k - 1 < j /\ Sm!LinkUp(k - 1)'
      BY <3>1, <1>s, <1>t DEF MsgShifted
    <3> QED BY <3>2
  <2>3. ASSUME NEW i \in DOMAIN c_inds', Sm!Unlinked(i)', fw' = "up"
        PROVE \E k \in DOMAIN c_inds' : i < k /\ Sm!LinkUp(k)'
    <3>1. PICK k \in DOMAIN c_inds : i + 1 < k /\ Sm!LinkUp(k)
      BY <2>3, <1>s, <1>t, <1>f DEF Sm!Alternate, MsgShifted
    <3>2. k - 1 \in DOMAIN c_inds' /\ i < k - 1 /\ Sm!LinkUp(k - 1)'
      BY <3>1, <1>s, <1>t DEF MsgShifted
    <3> QED BY <3>2
  <2>4. ASSUME NEW i \in DOMAIN c_inds', Sm!LinkUp(i)', fw' \notin {"up", "none"}
        PROVE \E k \in DOMAIN c_inds' : i < k /\ Sm!LinkDown(k)'
    <3>1. PICK k \in DOMAIN c_inds : i + 1 < k /\ Sm!LinkDown(k)
      BY <2>4, <1>s, <1>t, <1>f DEF Sm!Alternate, MsgShifted
    <3>2. k - 1 \in DOMAIN c_inds' /\ i < k - 1 /\ Sm!LinkDown(k - 1)'
      BY <3>1, <1>s, <1>t DEF MsgShifted
    <3> QED BY <3>2
  <2> QED BY <2>1, <2>2, <2>3, <2>4 DEF Sm!Alternate
<1>2. Sm!JoinEnds'
  <2>1. ASSUME NEW i \in DOMAIN c_inds', NEW j \in DOMAIN c_inds', Sm!Ended(i)', Sm!LinkUp(j)', i < j
        PROVE \E k \in DOMAIN c_inds' : i < k /\ k < j /\ Sm!CfmdJoin(k)'
    <3>1. PICK k \in DOMAIN c_inds : i + 1 < k /\ k < j + 1 /\ Sm!CfmdJoin(k)
      BY <2>1, <1>s, <1>t, <1>f DEF Sm!JoinEnds, MsgShifted
    <3>2. k - 1 \in DOMAIN c_inds' /\ i < k - 1 /\ k - 1 < j /\ Sm!CfmdJoin(k - 1)'
      BY <3>1, <1>s, <1>t DEF MsgShifted
    <3> QED BY <3>2
  <2>2. ASSUME NEW i \in DOMAIN c_inds', Sm!Ended(i)', Sm!Joins'
        PROVE \E k \in DOMAIN c_inds' : i < k /\ Sm!CfmdJoin(k)'
    <3>1. PICK k \in DOMAIN c_inds : i + 1 < k /\ Sm!CfmdJoin(k)
      BY <1>0, <2>2, <1>s, <1>t, <1>f DEF Sm!JoinEnds, MsgShifted
    <3>2. k - 1 \in DOMAIN c_inds' /\ i < k - 1 /\ Sm!CfmdJoin(k - 1)'
      BY <3>1, <1>s, <1>t DEF MsgShifted
    <3> QED BY <3>2
  <2>3. ASSUME NEW i \in DOMAIN c_inds', Sm!Left(i)'
        PROVE /\ i > 1 => Sm!CfmdJoin(i - 1)'
              /\ Sm!Joins' \/ fw' = "none" \/ \E k \in DOMAIN c_inds' : i < k /\ Sm!Result(k)'
    <3>0. i + 1 \in DOMAIN c_inds /\ Sm!Left(i + 1) /\ i + 1 > 1 /\ (i + 1) - 1 = i
      BY <2>3, <1>s DEF MsgShifted
    <3>1. /\ Sm!CfmdJoin((i + 1) - 1)
          /\ Sm!Joins \/ fw = "none" \/ \E k \in DOMAIN c_inds : i + 1 < k /\ Sm!Result(k)
      BY <3>0 DEF Sm!JoinEnds
    <3>2. i > 1 => Sm!CfmdJoin(i - 1)'
      <4> SUFFICES ASSUME i > 1 PROVE Sm!CfmdJoin(i - 1)'
        OBVIOUS
      <4>1. i \in DOMAIN c_inds /\ i - 1 \in DOMAIN c_inds' /\ (i - 1) + 1 = i
        BY <1>s, MsgTakenFacts DEF Sm!ConnTypeOK
      <4>2. Sm!CfmdJoin(i - 1)' <=> Sm!CfmdJoin((i - 1) + 1)
        BY <1>s, <4>1 DEF MsgShifted
      <4> QED BY <3>0, <3>1, <4>1, <4>2
    <3>3. CASE Sm!Joins \/ fw = "none"
      BY <1>0, <3>2, <3>3, <1>f
    <3>4. CASE \E k \in DOMAIN c_inds : i + 1 < k /\ Sm!Result(k)
      <4>1. PICK k \in DOMAIN c_inds : i + 1 < k /\ Sm!Result(k)
        BY <3>4
      <4>2. k - 1 \in DOMAIN c_inds' /\ i < k - 1 /\ Sm!Result(k - 1)'
        BY <4>1, <1>s, <1>t DEF MsgShifted
      <4> QED BY <3>2, <4>2
    <3> QED BY <3>1, <3>3, <3>4
  <2> QED BY <2>1, <2>2, <2>3 DEF Sm!JoinEnds
<1> QED BY <1>1, <1>2

(* The handlers of the receive thread.                                     *)
LEMMA ConnRx ==
    ASSUME Sm!ConnAssumption, Sm!ConnTypeOK, ~c_crashed, ConnSound, Sm!Rx
    PROVE  ConnSound'
<1> USE DEF ConnSound
<1>0. MsgTaken /\ c_crashed' = c_crashed
  BY DEF Sm!Rx, Sm!RxConfirm, Sm!RxConnectInd, Sm!RxDisconnectInd, Sm!RxExternalAuth,
    Sm!Receive, MsgTaken, Sm!cmdVars
<1>s. \A k \in DOMAIN c_inds' : k \in Nat /\ k > 0 /\ k + 1 \in DOMAIN c_inds /\ MsgShifted(k)
  BY <1>0, MsgTakenFacts, MsgShiftedAll DEF Sm!ConnTypeOK
<1>t. \A k \in DOMAIN c_inds : k \in Nat /\ (k = 1 \/ (k - 1 \in DOMAIN c_inds' /\ MsgShifted(k - 1) /\ (k - 1) + 1 = k))
  BY <1>0, MsgTakenFacts, MsgShiftedAll DEF Sm!ConnTypeOK
<1>h. 1 \in DOMAIN c_inds /\ Head(c_inds) = c_inds[1] /\ c_inds[1] \in Sm!Message /\ c_inds # <<>>
  BY <1>0, MsgTakenFacts DEF Sm!ConnTypeOK, MsgTaken
<1>v. \A k \in DOMAIN c_inds' : c_inds'[k] = c_inds[k + 1]
  BY <1>0, MsgTakenFacts DEF Sm!ConnTypeOK
<1>n. /\ Len(c_inds') = Len(c_inds) - 1 /\ DOMAIN c_inds' = 1..(Len(c_inds) - 1) /\ Len(c_inds) \in Nat
      /\ DOMAIN c_inds = 1..Len(c_inds) /\ (c_inds' = <<>> <=> Len(c_inds) = 1)
  BY <1>0, MsgTakenFacts DEF Sm!ConnTypeOK, MsgTaken
<1>f. fw' = fw /\ (Sm!Joins' <=> Sm!Joins)
  BY <1>0 DEF MsgTaken, Sm!Joins
<1>1. Sm!Alternate' /\ Sm!JoinEnds'
  BY <1>0, MsgTakenOrder
<1>u. c_inds[1].m # "cfm" => c_up /\ inTable /\ c_pc # "open"
  BY <1>h DEF Sm!Presence, Sm!Cfmd
<1>l. /\ ~Sm!LinkUp(1) /\ ~Sm!LinkDown(1) => (Sm!Linked' <=> Sm!Linked)
      /\ Sm!LinkUp(1) => Sm!Linked' \/ fw = "none"
      /\ Sm!LinkUp(1) => ~Sm!Linked
      /\ Sm!Unlinked(1) => ~Sm!Linked'
      /\ Sm!LinkDown(1) => Sm!Linked
      /\ ~Sm!LinkDown(1) /\ Sm!Unlinked(1) => ~Sm!Linked
  <2>1. ASSUME ~Sm!LinkUp(1), ~Sm!LinkDown(1) PROVE Sm!Linked' <=> Sm!Linked
    <3>1. ASSUME Sm!Linked PROVE Sm!Linked'
      <4>1. CASE \E i \in DOMAIN c_inds : Sm!LinkDown(i) /\ \A j \in DOMAIN c_inds : j < i => ~Sm!LinkUp(j)
        <5>1. PICK i \in DOMAIN c_inds : Sm!LinkDown(i) /\ \A j \in DOMAIN c_inds : j < i => ~Sm!LinkUp(j)
          BY <4>1
        <5>2. i - 1 \in DOMAIN c_inds' /\ Sm!LinkDown(i - 1)'
          BY <1>t, <2>1, <5>1 DEF MsgShifted
        <5>3. \A j \in DOMAIN c_inds' : j < i - 1 => ~Sm!LinkUp(j)'
          BY <1>s, <1>t, <5>1 DEF MsgShifted
        <5> QED BY <5>2, <5>3 DEF Sm!Linked
      <4>2. CASE fw = "up" /\ \A i \in DOMAIN c_inds : ~Sm!LinkUp(i)
        BY <4>2, <1>f, <1>s DEF Sm!Linked, MsgShifted
      <4> QED BY <3>1, <4>1, <4>2 DEF Sm!Linked
    <3>2. ASSUME Sm!Linked' PROVE Sm!Linked
      <4>1. CASE \E i \in DOMAIN c_inds' : Sm!LinkDown(i)' /\ \A j \in DOMAIN c_inds' : j < i => ~Sm!LinkUp(j)'
        <5>1. PICK i \in DOMAIN c_inds' : Sm!LinkDown(i)' /\ \A j \in DOMAIN c_inds' : j < i => ~Sm!LinkUp(j)'
          BY <4>1
        <5>2. i + 1 \in DOMAIN c_inds /\ Sm!LinkDown(i + 1)
          BY <1>s, <5>1 DEF MsgShifted
        <5>3. \A j \in DOMAIN c_inds : j < i + 1 => ~Sm!LinkUp(j)
          BY <1>s, <1>t, <2>1, <5>1 DEF MsgShifted
        <5> QED BY <5>2, <5>3 DEF Sm!Linked
      <4>2. CASE fw' = "up" /\ \A i \in DOMAIN c_inds' : ~Sm!LinkUp(i)'
        BY <4>2, <1>f, <1>t, <2>1 DEF Sm!Linked, MsgShifted
      <4> QED BY <3>2, <4>1, <4>2 DEF Sm!Linked
    <3> QED BY <3>1, <3>2
  <2>2. ASSUME Sm!LinkUp(1) PROVE ~Sm!Linked
    <3>1. ~Sm!LinkDown(1)
      BY <2>2 DEF Sm!LinkUp, Sm!LinkDown
    <3>2. \A i \in DOMAIN c_inds : Sm!LinkDown(i) => 1 < i
      BY <3>1, <1>n
    <3> QED BY <1>h, <2>2, <3>2 DEF Sm!Linked
  <2>3. ASSUME Sm!LinkUp(1), fw # "none" PROVE Sm!Linked'
    <3>1. CASE \E i \in DOMAIN c_inds : Sm!LinkDown(i)
      <4>1. PICK i \in DOMAIN c_inds : Sm!LinkDown(i) /\ i > 1
        BY <3>1, <1>t, <1>n, <2>3 DEF Sm!LinkUp, Sm!LinkDown
      <4>2. \E k \in DOMAIN c_inds : Sm!LinkDown(k) /\ \A j \in DOMAIN c_inds : Sm!LinkDown(j) => k <= j
        <5>1. PICK k \in {j \in DOMAIN c_inds : Sm!LinkDown(j)} :
                  \A j \in {l \in DOMAIN c_inds : Sm!LinkDown(l)} : k <= j
          BY <3>1, <1>t, Least
        <5> QED BY <5>1
      <4>3. PICK k \in DOMAIN c_inds : Sm!LinkDown(k) /\ \A j \in DOMAIN c_inds : Sm!LinkDown(j) => k <= j
        BY <4>2
      <4>4. \A j \in DOMAIN c_inds : 1 < j /\ j < k => ~Sm!LinkUp(j)
        BY <1>h, <1>n, <2>3, <4>3 DEF Sm!Alternate
      <4>5. k > 1 /\ k - 1 \in DOMAIN c_inds' /\ Sm!LinkDown(k - 1)'
        BY <1>t, <1>n, <2>3, <4>3 DEF MsgShifted, Sm!LinkUp, Sm!LinkDown
      <4>6. \A j \in DOMAIN c_inds' : j < k - 1 => ~Sm!LinkUp(j)'
        BY <1>s, <1>n, <4>3, <4>4 DEF MsgShifted
      <4> QED BY <4>5, <4>6 DEF Sm!Linked
    <3>2. CASE ~ \E i \in DOMAIN c_inds : Sm!LinkDown(i)
      <4>1. \A j \in DOMAIN c_inds : j > 1 => ~Sm!LinkUp(j)
        BY <1>h, <1>n, <2>3, <3>2 DEF Sm!Alternate
      <4>2. fw = "up"
        BY <1>h, <2>3, <3>2 DEF Sm!Alternate
      <4> QED BY <4>1, <4>2, <1>f, <1>s DEF Sm!Linked, MsgShifted
    <3> QED BY <3>1, <3>2
  <2>4. ASSUME Sm!Unlinked(1) PROVE ~Sm!Linked'
    <3>1. ASSUME NEW i \in DOMAIN c_inds', Sm!LinkDown(i)' PROVE \E j \in DOMAIN c_inds' : j < i /\ Sm!LinkUp(j)'
      <4>1. PICK k \in DOMAIN c_inds : 1 < k /\ k < i + 1 /\ Sm!LinkUp(k)
        BY <1>h, <1>s, <2>4, <3>1 DEF Sm!Alternate, MsgShifted
      <4>2. k - 1 \in DOMAIN c_inds' /\ k - 1 < i /\ Sm!LinkUp(k - 1)'
        BY <1>s, <1>t, <4>1 DEF MsgShifted
      <4> QED BY <4>2
    <3>2. ASSUME fw' = "up" PROVE \E j \in DOMAIN c_inds' : Sm!LinkUp(j)'
      <4>1. PICK k \in DOMAIN c_inds : 1 < k /\ Sm!LinkUp(k)
        BY <1>h, <1>f, <2>4, <3>2 DEF Sm!Alternate
      <4>2. k - 1 \in DOMAIN c_inds' /\ Sm!LinkUp(k - 1)'
        BY <1>t, <4>1 DEF MsgShifted
      <4> QED BY <4>2
    <3> QED BY <3>1, <3>2 DEF Sm!Linked
  <2>5. ASSUME Sm!LinkDown(1) PROVE Sm!Linked
    BY <1>h, <1>n, <2>5 DEF Sm!Linked
  <2>6. ASSUME ~Sm!LinkDown(1), Sm!Unlinked(1) PROVE ~Sm!Linked
    <3>1. ~Sm!LinkUp(1)
      BY <2>6 DEF Sm!Unlinked, Sm!LinkUp
    <3> QED BY <2>1, <2>4, <2>6, <3>1
  <2> QED BY <2>1, <2>2, <2>3, <2>4, <2>5, <2>6
<1>r. /\ (\E k \in DOMAIN c_inds : Sm!Result(k)) /\ ~Sm!Result(1) => \E k \in DOMAIN c_inds' : Sm!Result(k)'
      /\ (\A i \in DOMAIN c_inds : Sm!Left(i) => \E j \in DOMAIN c_inds : j < i /\ Sm!LinkUp(j)) /\ ~Sm!LinkUp(1)
           => \A i \in DOMAIN c_inds' : Sm!Left(i)' => \E j \in DOMAIN c_inds' : j < i /\ Sm!LinkUp(j)'
  <2>1. ASSUME NEW k \in DOMAIN c_inds, Sm!Result(k), ~Sm!Result(1) PROVE \E l \in DOMAIN c_inds' : Sm!Result(l)'
    <3>1. k - 1 \in DOMAIN c_inds' /\ Sm!Result(k - 1)'
      BY <2>1, <1>t DEF MsgShifted
    <3> QED BY <3>1
  <2>2. ASSUME \A i \in DOMAIN c_inds : Sm!Left(i) => \E j \in DOMAIN c_inds : j < i /\ Sm!LinkUp(j),
               ~Sm!LinkUp(1), NEW i \in DOMAIN c_inds', Sm!Left(i)'
        PROVE  \E j \in DOMAIN c_inds' : j < i /\ Sm!LinkUp(j)'
    <3>1. PICK j \in DOMAIN c_inds : j < i + 1 /\ Sm!LinkUp(j)
      BY <2>2, <1>s DEF MsgShifted
    <3>2. j - 1 \in DOMAIN c_inds' /\ j - 1 < i /\ Sm!LinkUp(j - 1)'
      BY <2>2, <3>1, <1>s, <1>t DEF MsgShifted
    <3> QED BY <3>2
  <2> QED BY <2>1, <2>2
<1>j. ASSUME NEW k \in DOMAIN c_inds, Sm!CfmdJoin(k) PROVE c_pc = "connect"
  BY <1>j DEF Sm!CfmdJoin, Sm!OneCommand, Sm!Sends, Sm!ConnAssumption
<1>e. Sm!Ended(1) /\ ~wants => ~Sm!Joins /\ \A k \in DOMAIN c_inds' : ~Sm!LinkUp(k)'
  <2>1. ASSUME Sm!Ended(1), ~wants PROVE ~ \E k \in DOMAIN c_inds : Sm!CfmdJoin(k)
    BY <1>j, <2>1 DEF Sm!Wanted
  <2>2. ASSUME Sm!Ended(1), ~wants, NEW k \in DOMAIN c_inds' PROVE ~Sm!LinkUp(k)'
    BY <1>h, <1>s, <2>1, <2>2 DEF Sm!JoinEnds, MsgShifted
  <2> QED BY <1>h, <2>1, <2>2 DEF Sm!JoinEnds
<1>w. ASSUME conn = "DISCONNECTING", ~Sm!Cfmd(1),
             c_cmd' = c_cmd
      PROVE  \/ c_cmd' = "disconnect" /\ \A i \in DOMAIN c_inds' : ~Sm!Cfmd(i)'
             \/ /\ fw' \in {"idle", "none"}
                /\ \A i \in DOMAIN c_inds' : Sm!LinkUp(i)' => \E k \in DOMAIN c_inds' : i < k /\ Sm!Cfmd(k)'
  <2>1. CASE c_cmd = "disconnect" /\ \A i \in DOMAIN c_inds : ~Sm!Cfmd(i)
    BY <2>1, <1>w, <1>s DEF MsgShifted
  <2>2. CASE fw \in {"idle", "none"} /\ \A i \in DOMAIN c_inds : Sm!LinkUp(i) =>
                 \E k \in DOMAIN c_inds : i < k /\ Sm!Cfmd(k)
    <3>1. ASSUME NEW i \in DOMAIN c_inds', Sm!LinkUp(i)' PROVE \E k \in DOMAIN c_inds' : i < k /\ Sm!Cfmd(k)'
      <4>1. PICK k \in DOMAIN c_inds : i + 1 < k /\ Sm!Cfmd(k)
        BY <2>2, <3>1, <1>s DEF MsgShifted
      <4>2. k - 1 \in DOMAIN c_inds' /\ i < k - 1 /\ Sm!Cfmd(k - 1)'
        BY <4>1, <1>s, <1>t DEF MsgShifted
      <4> QED BY <4>2
    <3> QED BY <2>2, <3>1, <1>f
  <2> QED BY <1>w, <2>1, <2>2 DEF Sm!Wanted
<1>2. CASE Sm!RxConfirm
  <2>0. /\ c_cmd = c_inds[1].of /\ c_cmd # "none" /\ c_reply' = c_inds[1].r /\ c_cmd' = "none"
        /\ Sm!Cfmd(1) /\ ~Sm!LinkUp(1) /\ ~Sm!LinkDown(1) /\ ~Sm!Result(1)
        /\ UNCHANGED <<Sm!drvVars, Sm!krnVars, c_pc>>
        /\ c_inds[1].r \in {"ok", "BUSY"} /\ (c_cmd \notin Kinds => c_inds[1].r = "ok")
    BY <1>2, <1>h DEF Sm!RxConfirm, Sm!Receive, Sm!OneCommand, Sm!Cfmd, Sm!LinkUp,
      Sm!LinkDown,
      Sm!Result, Sm!Message
  <2>a. \A k \in DOMAIN c_inds' : ~Sm!Cfmd(k)'
    BY <2>0, <1>h, <1>s DEF Sm!OneCommand, MsgShifted
  <2>b. UNCHANGED <<conn, c_up, inTable, c_ap, isRoam, carrier, kconn, owed, wants, c_pc>>
    BY <2>0 DEF Sm!drvVars, Sm!krnVars
  <2>1. Sm!OneCommand'
    BY <2>0, <2>a, <2>b DEF Sm!OneCommand, Sm!Sends, Sm!ConnAssumption
  <2>2. Sm!Presence'
    <3>1. c_pc = "close.removed" => fw = "none" /\ c_inds' = <<>>
      BY <2>0, <1>h, <1>n DEF Sm!Presence, Sm!OneCommand, Sm!Sends, Sm!ConnAssumption
    <3>2. c_pc = "open" => c_inds' = <<>> /\ fw # "none"
      <4>1. ASSUME c_pc = "open" PROVE ~ \E k \in DOMAIN c_inds' : TRUE
        BY <4>1, <2>a, <1>s DEF Sm!Presence, MsgShifted
      <4> QED BY <4>1, <1>n, <1>h DEF Sm!Presence
    <3>3. \A k \in DOMAIN c_inds' : ~Sm!Cfmd(k)'
      BY <2>a
    <3> QED BY <3>1, <3>2, <3>3, <2>0, <2>b, <1>f, <1>h DEF Sm!Presence
  <2>3. Sm!Known'
    BY <2>0, <2>b, <1>f, <1>l, <1>r DEF Sm!Known
  <2>4. Sm!Wanted'
    BY <2>0, <2>a, <2>b, <1>f, <1>h, <1>s, <1>t DEF Sm!Wanted, MsgShifted, Sm!OneCommand
  <2> QED BY <1>1, <2>1, <2>2, <2>3, <2>4
<1>3. CASE Sm!RxConnectInd
  <2>0. /\ ~Sm!Cfmd(1) /\ ~Sm!LinkDown(1) /\ Sm!Result(1) /\ Sm!Ended(1)
        /\ (Sm!LinkUp(1) <=> c_inds[1].ok) /\ (Sm!Unlinked(1) <=> ~c_inds[1].ok)
        /\ UNCHANGED <<c_up, inTable, c_pc, c_cmd, c_reply, wants>> /\ c_up /\ inTable /\ c_pc # "open"
    BY <1>3, <1>h, <1>u DEF Sm!RxConnectInd, Sm!Receive, Sm!Cfmd, Sm!LinkUp,
      Sm!LinkDown, Sm!Result, Sm!Ended,
      Sm!Unlinked, Sm!cmdVars, Sm!krnVars
  <2>1. Sm!OneCommand'
    BY <2>0, <1>s, <1>v DEF Sm!OneCommand, MsgShifted
  <2>2. Sm!Presence'
    BY <2>0, <1>f, <1>h, <1>s, <1>n DEF Sm!Presence, MsgShifted
  <2>3. CASE Sm!Overtaken(c_inds[1].ok)
    <3>1. /\ conn = "DISCONNECTING" /\ Sm!LinkUp(1) /\ c_ap'
          /\ UNCHANGED <<conn, carrier, kconn, wants>> /\ ~isRoam'
      BY <1>3, <1>h, <2>0, <2>3 DEF Sm!RxConnectInd, Sm!Overtaken, Sm!krnVars
    <3>2. ASSUME NEW i \in DOMAIN c_inds', Sm!Left(i)' PROVE FALSE
      <4>1. i + 1 \in DOMAIN c_inds /\ Sm!Left(i + 1) /\ i + 1 > 1 /\ (i + 1) - 1 = i /\ i \in DOMAIN c_inds
        BY <1>s, <1>n, <3>2 DEF MsgShifted
      <4>2. Sm!CfmdJoin(i)
        BY <4>1 DEF Sm!JoinEnds
      <4> QED BY <1>j, <3>1, <4>1, <4>2 DEF Sm!Wanted
    <3>3. Sm!Known'
      BY <1>l, <3>1, <3>2, <2>0, <1>f DEF Sm!Known, Sm!Presence
    <3>4. Sm!Wanted'
      BY <3>1, <2>0, <1>w DEF Sm!Wanted
    <3> QED BY <1>1, <2>1, <2>2, <3>3, <3>4
  <2>4. CASE ~Sm!Overtaken(c_inds[1].ok) /\ c_inds[1].ok
    <3>1. /\ conn' = "CONNECTED" /\ carrier' /\ kconn' = "connected" /\ c_ap' /\ ~isRoam'
      BY <1>3, <1>h, <2>0, <2>4 DEF Sm!RxConnectInd
    <3>2. Sm!Known'
      BY <1>l, <3>1, <2>0, <2>4, <1>f DEF Sm!Known, Sm!Presence
    <3>3. Sm!Wanted'
      BY <3>1, <2>0 DEF Sm!Wanted
    <3> QED BY <1>1, <2>1, <2>2, <3>2, <3>3
  <2>5. CASE ~c_inds[1].ok
    <3>1. /\ conn' = "DISCONNECTED" /\ carrier' = carrier /\ kconn' = "idle" /\ ~isRoam'
      BY <1>3, <1>h, <2>0, <2>5 DEF Sm!RxConnectInd, Sm!Overtaken, Sm!ConnTypeOK,
        Sm!TypeOK
    <3>2. Sm!Known'
      BY <1>l, <3>1, <2>0, <2>5, <1>f DEF Sm!Known
    <3>3. Sm!Wanted'
      BY <3>1, <2>0, <1>e, <1>f DEF Sm!Wanted
    <3> QED BY <1>1, <2>1, <2>2, <3>2, <3>3
  <2> QED BY <2>3, <2>4, <2>5
<1>4. CASE Sm!RxDisconnectInd
  <2>0. /\ ~Sm!Cfmd(1) /\ Sm!LinkDown(1) /\ ~Sm!Result(1) /\ Sm!Unlinked(1)
        /\ (Sm!Left(1) <=> c_inds[1].reassoc) /\ (Sm!Ended(1) <=> ~c_inds[1].reassoc)
        /\ c_up /\ inTable /\ c_pc # "open" /\ Sm!Linked /\ c_ap /\ conn # "DISCONNECTED"
    BY <1>4, <1>h, <1>u, <1>l DEF Sm!RxDisconnectInd, Sm!Receive, Sm!Cfmd,
      Sm!LinkDown, Sm!Result, Sm!Ended,
      Sm!Left, Sm!Unlinked, Sm!Known
  <2>1. /\ ~carrier' /\ conn' = Sm!AfterLoss /\ isRoam' = isRoam
        /\ UNCHANGED <<c_up, inTable, c_pc, c_cmd, c_reply, wants>>
        /\ kconn' = IF Sm!Left(1) THEN kconn ELSE "idle"
    BY <1>4, <1>h, <2>0 DEF Sm!RxDisconnectInd, Sm!Reports, Sm!cmdVars, Sm!krnVars,
      Sm!ConnTypeOK, Sm!TypeOK
  <2>2. Sm!OneCommand'
    BY <2>0, <2>1, <1>s, <1>v DEF Sm!OneCommand, MsgShifted
  <2>3. Sm!Presence'
    BY <2>0, <2>1, <1>f, <1>h, <1>s, <1>n DEF Sm!Presence, MsgShifted
  <2>4. Sm!Left(1) => Sm!Joins \/ fw = "none" \/ \E k \in DOMAIN c_inds' : Sm!Result(k)'
    BY <1>h, <1>r, <2>0 DEF Sm!JoinEnds
  <2>5. Sm!Known'
    BY <1>l, <2>0, <2>1, <2>4, <1>f DEF Sm!Known, Sm!AfterLoss, Sm!Presence,
      Sm!ConnTypeOK, Sm!TypeOK
  <2>6. Sm!Left(1) => kconn = "connected"
    BY <2>0, <1>h, <1>n DEF Sm!Known, Sm!ConnTypeOK, Sm!TypeOK
  <2>7. Sm!Wanted'
    <3>1. c_pc' = "connect" => conn' # "DISCONNECTING" /\ wants'
      BY <2>1 DEF Sm!Wanted, Sm!AfterLoss
    <3>2. conn' = "DISCONNECTING" => conn = "DISCONNECTING"
      BY <2>1 DEF Sm!AfterLoss
    <3>3. ~wants' /\ kconn' = "idle" => ~Sm!Joins' /\ \A k \in DOMAIN c_inds' : ~Sm!LinkUp(k)'
      BY <2>0, <2>1, <2>6, <1>e, <1>f
    <3> QED BY <3>1, <3>2, <3>3, <1>w, <2>0, <2>1 DEF Sm!Wanted
  <2> QED BY <1>1, <2>2, <2>3, <2>5, <2>7
<1>5. CASE Sm!RxExternalAuth
  <2>0. /\ ~Sm!Cfmd(1) /\ ~Sm!LinkUp(1) /\ ~Sm!LinkDown(1) /\ ~Sm!Result(1)
        /\ UNCHANGED <<conn, c_up, inTable, c_ap, isRoam, carrier, kconn, owed, wants, c_pc, c_cmd, c_reply>>
    BY <1>5, <1>h DEF Sm!RxExternalAuth, Sm!Receive, Sm!Cfmd, Sm!LinkUp, Sm!LinkDown,
      Sm!Result, Sm!krnVars
  <2>1. Sm!OneCommand'
    BY <2>0, <1>s, <1>v DEF Sm!OneCommand, MsgShifted
  <2>2. Sm!Presence'
    BY <2>0, <1>f, <1>h, <1>s, <1>n DEF Sm!Presence, MsgShifted
  <2>3. Sm!Known'
    BY <2>0, <1>f, <1>l, <1>r DEF Sm!Known
  <2>4. Sm!Wanted'
    BY <2>0, <1>f, <1>h, <1>s, <1>t DEF Sm!Wanted, MsgShifted
  <2> QED BY <1>1, <2>1, <2>2, <2>3, <2>4
<1> QED BY <1>2, <1>3, <1>4, <1>5 DEF Sm!Rx

(* The queue with more messages behind it.                                 *)
MsgAdded(n) ==
    /\ c_inds' \in Seq(Sm!Message) /\ n \in Nat /\ DOMAIN c_inds = 1..n /\ DOMAIN c_inds' = 1..Len(c_inds')
    /\ Len(c_inds') \in Nat /\ n <= Len(c_inds') /\ Len(c_inds) = n
    /\ \A k \in DOMAIN c_inds : k \in DOMAIN c_inds' /\ c_inds'[k] = c_inds[k]
    /\ UNCHANGED <<conn, c_up, inTable, c_ap, isRoam, carrier, kconn, owed, wants, c_pc, c_cmd, c_reply,
                   c_crashed>>

(* The k-th message still says what it said.                               *)
MsgStays(k) ==
    /\ k \in DOMAIN c_inds'
    /\ c_inds'[k] = c_inds[k]
    /\ Sm!Cfmd(k)' <=> Sm!Cfmd(k)
    /\ Sm!CfmdJoin(k)' <=> Sm!CfmdJoin(k)
    /\ Sm!LinkUp(k)' <=> Sm!LinkUp(k)
    /\ Sm!LinkDown(k)' <=> Sm!LinkDown(k)
    /\ Sm!Result(k)' <=> Sm!Result(k)
    /\ Sm!Left(k)' <=> Sm!Left(k)
    /\ Sm!Unlinked(k)' <=> Sm!Unlinked(k)
    /\ Sm!Ended(k)' <=> Sm!Ended(k)

(* The messages in front of those added still say what they said.          *)
LEMMA MsgAddedStay ==
    ASSUME NEW n, MsgAdded(n)
    PROVE  \A k \in DOMAIN c_inds : MsgStays(k)
<1> SUFFICES ASSUME NEW k \in DOMAIN c_inds PROVE MsgStays(k)
  OBVIOUS
<1>1. k \in DOMAIN c_inds' /\ c_inds'[k] = c_inds[k]
  BY DEF MsgAdded
<1> QED BY <1>1 DEF MsgStays, Sm!Cfmd, Sm!CfmdJoin, Sm!LinkUp, Sm!LinkDown,
          Sm!Result, Sm!Left, Sm!Unlinked, Sm!Ended

(* Of the messages behind the n-th only the first may be a confirmation,   *)
(* and of the command that waits for it.                                   *)
CfmLast(n) ==
    /\ \A k \in DOMAIN c_inds : ~Sm!Cfmd(k)
    /\ n + 1 \in DOMAIN c_inds' /\ Sm!Cfmd(n + 1)' /\ c_inds'[n + 1].of = c_cmd /\ c_cmd # "none"
    /\ c_cmd \notin Kinds => c_inds'[n + 1].r = "ok"
    /\ \A k \in DOMAIN c_inds' : k > n + 1 => ~Sm!Cfmd(k)'

(* A command that is confirmed has had no confirmation before.             *)
LEMMA MsgAddedCommand ==
    ASSUME NEW n, MsgAdded(n), Sm!OneCommand,
           CfmLast(n) \/ \A k \in DOMAIN c_inds' : k > n => ~Sm!Cfmd(k)'
    PROVE  Sm!OneCommand'
<1>1. \A k \in DOMAIN c_inds : MsgStays(k)
  BY MsgAddedStay
<1>2. \A k \in DOMAIN c_inds' : k \in DOMAIN c_inds \/ k > n
  BY DEF MsgAdded
<1>3. UNCHANGED <<c_pc, c_cmd, c_reply>>
  BY DEF MsgAdded
<1>4. CASE CfmLast(n)
  <2>1. \A k \in DOMAIN c_inds' : Sm!Cfmd(k)' => k = n + 1
    BY <1>1, <1>2, <1>4 DEF CfmLast, MsgStays, MsgAdded
  <2> QED BY <1>3, <1>4, <2>1 DEF Sm!OneCommand, CfmLast
<1>5. CASE \A k \in DOMAIN c_inds' : k > n => ~Sm!Cfmd(k)'
  <2>1. \A k \in DOMAIN c_inds' : Sm!Cfmd(k)' => k \in DOMAIN c_inds /\ Sm!Cfmd(k) /\ c_inds'[k] = c_inds[k]
    BY <1>1, <1>2, <1>5 DEF MsgStays
  <2> QED BY <1>3, <2>1 DEF Sm!OneCommand
<1> QED BY <1>4, <1>5

(* The elements of two sequences put together.                             *)
LEMMA JoinedSeq ==
  ASSUME NEW S, NEW r \in Seq(S), NEW t \in Seq(S)
  PROVE  /\ r \o t \in Seq(S) /\ Len(r \o t) = Len(r) + Len(t)
         /\ \A k \in DOMAIN r : k \in DOMAIN (r \o t) /\ (r \o t)[k] = r[k]
         /\ \A k \in DOMAIN (r \o t) : k > Len(r) => k - Len(r) \in DOMAIN t /\ (r \o t)[k] = t[k - Len(r)]
  OBVIOUS

(* One message more.                                                       *)
LEMMA MsgAddedOne ==
    ASSUME c_inds \in Seq(Sm!Message), NEW m \in Sm!Message, c_inds' = Append(c_inds, m),
           UNCHANGED <<Sm!drvVars, Sm!krnVars, Sm!cmdVars>>
    PROVE  /\ MsgAdded(Len(c_inds)) /\ Len(c_inds') = Len(c_inds) + 1 /\ c_inds'[Len(c_inds) + 1] = m
           /\ \A k \in DOMAIN c_inds' : k \in DOMAIN c_inds \/ k = Len(c_inds) + 1
  BY DEF MsgAdded, Sm!drvVars, Sm!krnVars, Sm!cmdVars

(* Two messages more.                                                      *)
LEMMA MsgAddedTwo ==
    ASSUME c_inds \in Seq(Sm!Message), NEW a \in Sm!Message, NEW b \in Sm!Message,
           c_inds' = c_inds \o <<a>> \o <<b>>, UNCHANGED <<Sm!drvVars, Sm!krnVars, Sm!cmdVars>>
    PROVE  /\ MsgAdded(Len(c_inds)) /\ Len(c_inds') = Len(c_inds) + 2
           /\ c_inds'[Len(c_inds) + 1] = a /\ c_inds'[Len(c_inds) + 2] = b
           /\ \A k \in DOMAIN c_inds' : k \in DOMAIN c_inds \/ k = Len(c_inds) + 1 \/ k = Len(c_inds) + 2
<1>1. PICK r : r = c_inds \o <<a>>
  OBVIOUS
<1>2. /\ r \in Seq(Sm!Message) /\ Len(r) = Len(c_inds) + 1 /\ r[Len(c_inds) + 1] = a
      /\ \A k \in DOMAIN c_inds : k \in DOMAIN r /\ r[k] = c_inds[k]
  BY <1>1
<1>3. /\ c_inds' \in Seq(Sm!Message) /\ Len(c_inds') = Len(r) + 1 /\ c_inds'[Len(r) + 1] = b
      /\ \A k \in DOMAIN r : k \in DOMAIN c_inds' /\ c_inds'[k] = r[k]
  BY <1>1, <1>2
<1> QED BY <1>2, <1>3 DEF MsgAdded, Sm!drvVars, Sm!krnVars, Sm!cmdVars

(* A join ends, or the AP goes away: one message more, and the link is     *)
(* up or down as it says.                                                  *)
LEMMA ConnJoin ==
    ASSUME Sm!ConnAssumption, Sm!ConnTypeOK, ~c_crashed, ConnSound, Sm!FwJoined \/ Sm!FwLost
    PROVE  ConnSound'
<1> USE DEF ConnSound
<1>n. PICK n \in Nat : n = Len(c_inds)
  BY DEF Sm!ConnTypeOK
<1>1. ASSUME Sm!FwLost PROVE ConnSound'
  <2>1. Sm!DisconnectInd(FALSE) \in Sm!Message /\ fw = "up" /\ fw' = "idle"
    BY <1>1 DEF Sm!DisconnectInd, Sm!Message, Sm!FwLost
  <2>2. /\ MsgAdded(n) /\ Len(c_inds') = n + 1 /\ c_inds'[n + 1] = Sm!DisconnectInd(FALSE)
        /\ \A k \in DOMAIN c_inds' : k \in DOMAIN c_inds \/ k = n + 1
    BY <1>1, <1>n, <2>1, MsgAddedOne DEF Sm!ConnTypeOK, Sm!FwLost, Sm!Ind
  <2>3. \A k \in DOMAIN c_inds : MsgStays(k) /\ k \in Nat /\ k <= n
    BY <2>2, MsgAddedStay DEF MsgAdded
  <2>4. /\ n + 1 \in DOMAIN c_inds' /\ ~Sm!Cfmd(n + 1)' /\ ~Sm!CfmdJoin(n + 1)' /\ ~Sm!LinkUp(n + 1)'
        /\ Sm!LinkDown(n + 1)' /\ ~Sm!Result(n + 1)' /\ ~Sm!Left(n + 1)' /\ Sm!Unlinked(n + 1)' /\ Sm!Ended(n + 1)'
    BY <2>2 DEF Sm!Cfmd, Sm!CfmdJoin, Sm!LinkUp, Sm!LinkDown, Sm!Result, Sm!Left,
      Sm!Unlinked, Sm!Ended, Sm!DisconnectInd, MsgAdded
  <2>5. Sm!OneCommand'
    BY <2>2, <2>4, MsgAddedCommand DEF MsgAdded
  <2>6. Sm!Presence'
    BY <2>1, <2>2, <2>3, <2>4 DEF Sm!Presence, MsgStays, MsgAdded, Sm!OneCommand,
      Sm!Sends, Sm!ConnAssumption
  <2>7. Sm!Alternate'
    BY <2>1, <2>2, <2>3, <2>4 DEF Sm!Alternate, MsgStays
  <2>8. Sm!JoinEnds'
    BY <2>1, <2>2, <2>3, <2>4 DEF Sm!JoinEnds, MsgStays, Sm!Joins
  <2>9. Sm!Linked' <=> Sm!Linked
    BY <2>1, <2>2, <2>3, <2>4 DEF Sm!Linked, MsgStays
  <2>10. Sm!Known'
    BY <2>1, <2>2, <2>3, <2>4, <2>9 DEF Sm!Known, MsgStays, MsgAdded, Sm!Joins
  <2>11. Sm!Wanted'
    BY <2>1, <2>2, <2>3, <2>4 DEF Sm!Wanted, MsgStays, MsgAdded, Sm!Joins
  <2> QED BY <2>5, <2>6, <2>7, <2>8, <2>10, <2>11
<1>2. ASSUME Sm!FwJoined, fw' = "idle" PROVE ConnSound'
  <2>1. Sm!ConnectInd(FALSE) \in Sm!Message /\ Sm!Joins /\ fw # "up" /\ fw # "none"
    BY <1>2 DEF Sm!Joins, Sm!ConnectInd, Sm!Message, Sm!FwJoined, Sm!ConnTypeOK,
      Sm!TypeOK
  <2>2. /\ MsgAdded(n) /\ Len(c_inds') = n + 1 /\ c_inds'[n + 1] = Sm!ConnectInd(FALSE)
        /\ \A k \in DOMAIN c_inds' : k \in DOMAIN c_inds \/ k = n + 1
    BY <1>2, <1>n, <2>1, MsgAddedOne DEF Sm!ConnTypeOK, Sm!FwJoined, Sm!Ind
  <2>3. \A k \in DOMAIN c_inds : MsgStays(k) /\ k \in Nat /\ k <= n
    BY <2>2, MsgAddedStay DEF MsgAdded
  <2>4. /\ n + 1 \in DOMAIN c_inds' /\ ~Sm!Cfmd(n + 1)' /\ ~Sm!CfmdJoin(n + 1)' /\ ~Sm!LinkDown(n + 1)'
        /\ ~Sm!LinkUp(n + 1)' /\ Sm!Unlinked(n + 1)' /\ Sm!Result(n + 1)' /\ ~Sm!Left(n + 1)' /\ Sm!Ended(n + 1)'
    BY <2>2 DEF Sm!Cfmd, Sm!CfmdJoin, Sm!LinkUp, Sm!LinkDown, Sm!Result, Sm!Left,
      Sm!Unlinked, Sm!Ended, Sm!ConnectInd, MsgAdded
  <2>5. Sm!OneCommand'
    BY <2>2, <2>4, MsgAddedCommand DEF MsgAdded
  <2>6. Sm!Presence'
    BY <1>2, <2>1, <2>2, <2>3, <2>4 DEF Sm!Joins, Sm!Presence, MsgStays, MsgAdded,
      Sm!OneCommand, Sm!Sends, Sm!ConnAssumption
  <2>7. Sm!Alternate'
    BY <1>2, <2>1, <2>2, <2>3, <2>4 DEF Sm!Alternate, MsgStays
  <2>8. Sm!JoinEnds'
    BY <1>2, <2>1, <2>2, <2>3, <2>4 DEF Sm!JoinEnds, MsgStays, Sm!Joins
  <2>9. Sm!Linked' <=> Sm!Linked
    BY <1>2, <2>1, <2>2, <2>3, <2>4 DEF Sm!Linked, MsgStays
  <2>10. Sm!Known'
    BY <1>2, <2>1, <2>2, <2>3, <2>4, <2>9 DEF Sm!Known, MsgStays, MsgAdded, Sm!Joins
  <2>11. Sm!Wanted'
    BY <1>2, <2>1, <2>2, <2>3, <2>4 DEF Sm!Wanted, MsgStays, MsgAdded, Sm!Joins
  <2> QED BY <2>5, <2>6, <2>7, <2>8, <2>10, <2>11
<1>3. ASSUME Sm!FwJoined, fw' = "up" PROVE ConnSound'
  <2>1. Sm!ConnectInd(TRUE) \in Sm!Message /\ Sm!Joins /\ fw # "up" /\ fw # "none"
    BY <1>3 DEF Sm!Joins, Sm!ConnectInd, Sm!Message, Sm!FwJoined, Sm!ConnTypeOK,
      Sm!TypeOK
  <2>2. /\ MsgAdded(n) /\ Len(c_inds') = n + 1 /\ c_inds'[n + 1] = Sm!ConnectInd(TRUE)
        /\ \A k \in DOMAIN c_inds' : k \in DOMAIN c_inds \/ k = n + 1
    BY <1>3, <1>n, <2>1, MsgAddedOne DEF Sm!ConnTypeOK, Sm!FwJoined, Sm!Ind
  <2>3. \A k \in DOMAIN c_inds : MsgStays(k) /\ k \in Nat /\ k <= n
    BY <2>2, MsgAddedStay DEF MsgAdded
  <2>4. /\ n + 1 \in DOMAIN c_inds' /\ ~Sm!Cfmd(n + 1)' /\ ~Sm!CfmdJoin(n + 1)' /\ ~Sm!LinkDown(n + 1)'
        /\ Sm!LinkUp(n + 1)' /\ ~Sm!Unlinked(n + 1)' /\ Sm!Result(n + 1)' /\ ~Sm!Left(n + 1)' /\ Sm!Ended(n + 1)'
    BY <2>2 DEF Sm!Cfmd, Sm!CfmdJoin, Sm!LinkUp, Sm!LinkDown, Sm!Result, Sm!Left,
      Sm!Unlinked, Sm!Ended, Sm!ConnectInd, MsgAdded
  <2>5. Sm!OneCommand'
    BY <2>2, <2>4, MsgAddedCommand DEF MsgAdded
  <2>6. Sm!Presence'
    BY <1>3, <2>1, <2>2, <2>3, <2>4 DEF Sm!Joins, Sm!Presence, MsgStays, MsgAdded,
      Sm!OneCommand, Sm!Sends, Sm!ConnAssumption
  <2>7. Sm!Alternate'
    BY <1>3, <2>1, <2>2, <2>3, <2>4 DEF Sm!Alternate, MsgStays
  <2>8. Sm!JoinEnds'
    BY <1>3, <2>1, <2>2, <2>3, <2>4 DEF Sm!JoinEnds, MsgStays, Sm!Joins
  <2>9. Sm!Linked' <=> Sm!Linked
    BY <1>3, <2>1, <2>2, <2>3, <2>4 DEF Sm!Linked, MsgStays
  <2>10. Sm!Known'
    BY <1>3, <2>1, <2>2, <2>3, <2>4, <2>9 DEF Sm!Known, MsgStays, MsgAdded, Sm!Joins
  <2>11. Sm!Wanted'
    BY <1>3, <2>1, <2>2, <2>3, <2>4 DEF Sm!Wanted, MsgStays, MsgAdded, Sm!Joins
  <2> QED BY <2>5, <2>6, <2>7, <2>8, <2>10, <2>11
<1>4. Sm!FwJoined => fw' \in {"idle", "up"}
  BY DEF Sm!FwJoined
<1> QED BY <1>1, <1>2, <1>3, <1>4

(* Append adds the same as a sequence of one element.                      *)
LEMMA OneMoreSeq ==
  ASSUME NEW S, NEW s \in Seq(S), NEW x \in S
  PROVE  s \o <<x>> \in Seq(S) /\ Append(s, x) = s \o <<x>>
  OBVIOUS

(* Three sequences put together.                                           *)
LEMMA RegroupedSeq ==
  ASSUME NEW S, NEW r \in Seq(S), NEW d \in Seq(S), NEW a \in Seq(S)
  PROVE  (r \o d) \o a = r \o (d \o a)
  OBVIOUS

(* The firmware handles a command: its confirmation, and behind it what    *)
(* the command makes of the link.                                          *)
LEMMA ConnCommand ==
    ASSUME Sm!ConnAssumption, Sm!ConnTypeOK, ~c_crashed, ConnSound, Sm!FwCommand
    PROVE  ConnSound'
<1> USE DEF ConnSound
<1>n. PICK n \in Nat : n = Len(c_inds)
  BY DEF Sm!ConnTypeOK
<1>c. /\ c_cmd # "none" /\ \A k \in DOMAIN c_inds : ~Sm!Cfmd(k)
      /\ UNCHANGED <<Sm!drvVars, Sm!krnVars, Sm!cmdVars>>
  BY DEF Sm!FwCommand, Sm!Cfmd
<1>m. Sm!Confirm(c_cmd, "ok") \in Sm!Message /\ Sm!Confirm(c_cmd, "BUSY") \in Sm!Message
  <2>1. c_cmd \in Sm!Commands
    BY <1>c DEF Sm!ConnTypeOK
  <2> QED BY <2>1 DEF Sm!Confirm, Sm!Message
<1>i. /\ Sm!DisconnectInd(TRUE) \in Sm!Message /\ Sm!DisconnectInd(FALSE) \in Sm!Message
      /\ Sm!ConnectInd(FALSE) \in Sm!Message /\ [m |-> "authreq"] \in Sm!Message
  BY DEF Sm!ConnectInd, Sm!DisconnectInd, Sm!Message, Sm!ConnTypeOK, Sm!TypeOK
<1>1. ASSUME c_cmd = "add", fw' = "idle", Sm!Ind(Sm!Confirm(c_cmd, "ok"))
      PROVE  ConnSound'
  <2>0. c_pc = "open" /\ ~c_up /\ fw \in {"none", "idle"} /\ \A i \in DOMAIN c_inds : Sm!Cfmd(i)
    BY <1>c, <1>1 DEF Sm!OneCommand, Sm!Sends, Sm!Presence, Sm!ConnAssumption
  <2>a. DOMAIN c_inds = {}
    BY <1>c, <2>0
  <2>1. c_pc = "open" /\ c_inds = <<>> /\ ~c_up /\ fw \in {"none", "idle"}
    BY <2>0, <2>a DEF Sm!ConnTypeOK
  <2>2. /\ MsgAdded(n) /\ Len(c_inds') = n + 1 /\ c_inds'[n + 1] = Sm!Confirm(c_cmd, "ok")
        /\ \A k \in DOMAIN c_inds' : k \in DOMAIN c_inds \/ k = n + 1
    BY <1>c, <1>m, <1>n, <1>1, MsgAddedOne DEF Sm!ConnTypeOK, Sm!Ind
  <2>3. \A k \in DOMAIN c_inds : MsgStays(k) /\ k \in Nat /\ k <= n
    BY <2>2, MsgAddedStay DEF MsgAdded
  <2>4. /\ n + 1 \in DOMAIN c_inds' /\ Sm!Cfmd(n + 1)' /\ ~Sm!LinkUp(n + 1)' /\ ~Sm!LinkDown(n + 1)'
        /\ ~Sm!Result(n + 1)' /\ ~Sm!Left(n + 1)' /\ ~Sm!Unlinked(n + 1)' /\ ~Sm!Ended(n + 1)'
        /\ c_inds'[n + 1].of = c_cmd /\ (c_cmd \notin Kinds => c_inds'[n + 1].r = "ok")
        /\ (Sm!CfmdJoin(n + 1)' <=> c_cmd \in Kinds)
    BY <1>1, <2>2 DEF Sm!Cfmd, Sm!CfmdJoin, Sm!LinkUp, Sm!LinkDown, Sm!Result,
      Sm!Left, Sm!Unlinked, Sm!Ended, Sm!Confirm,
      MsgAdded, Sm!ConnAssumption
  <2>5. Sm!OneCommand'
    BY <1>c, <2>2, <2>4, MsgAddedCommand DEF CfmLast, MsgAdded
  <2>6. Sm!Presence'
    BY <1>c, <1>1, <2>1, <2>2, <2>3, <2>4 DEF Sm!Presence, MsgStays, MsgAdded,
      Sm!OneCommand, Sm!Sends, Sm!ConnAssumption
  <2>7. Sm!Alternate'
    BY <1>c, <1>1, <2>1, <2>2, <2>3, <2>4 DEF Sm!Alternate, MsgStays
  <2>8. Sm!JoinEnds'
    BY <1>c, <1>1, <2>1, <2>2, <2>3, <2>4 DEF Sm!JoinEnds, MsgStays, Sm!Joins
  <2>9. Sm!Linked' <=> Sm!Linked
    BY <1>c, <1>1, <2>1, <2>2, <2>3, <2>4 DEF Sm!Linked, MsgStays
  <2>10. Sm!Known'
    BY <1>c, <1>1, <2>1, <2>2, <2>3, <2>4, <2>9 DEF Sm!Known, MsgStays, MsgAdded,
      Sm!Joins
  <2>11. Sm!Wanted'
    BY <1>c, <1>1, <2>1, <2>2, <2>3, <2>4 DEF Sm!Wanted, MsgStays, MsgAdded, Sm!Joins
  <2> QED BY <2>5, <2>6, <2>7, <2>8, <2>10, <2>11
<1>2. ASSUME c_cmd = "remove", fw' = "none", Sm!Ind(Sm!Confirm(c_cmd, "ok"))
      PROVE  ConnSound'
  <2>1. c_pc = "close.removed" /\ c_up
    BY <1>c, <1>2 DEF Sm!OneCommand, Sm!Sends, Sm!Presence, Sm!ConnAssumption, Sm!Wanted
  <2>2. /\ MsgAdded(n) /\ Len(c_inds') = n + 1 /\ c_inds'[n + 1] = Sm!Confirm(c_cmd, "ok")
        /\ \A k \in DOMAIN c_inds' : k \in DOMAIN c_inds \/ k = n + 1
    BY <1>c, <1>m, <1>n, <1>2, MsgAddedOne DEF Sm!ConnTypeOK, Sm!Ind
  <2>3. \A k \in DOMAIN c_inds : MsgStays(k) /\ k \in Nat /\ k <= n
    BY <2>2, MsgAddedStay DEF MsgAdded
  <2>4. /\ n + 1 \in DOMAIN c_inds' /\ Sm!Cfmd(n + 1)' /\ ~Sm!LinkUp(n + 1)' /\ ~Sm!LinkDown(n + 1)'
        /\ ~Sm!Result(n + 1)' /\ ~Sm!Left(n + 1)' /\ ~Sm!Unlinked(n + 1)' /\ ~Sm!Ended(n + 1)'
        /\ c_inds'[n + 1].of = c_cmd /\ (c_cmd \notin Kinds => c_inds'[n + 1].r = "ok")
        /\ (Sm!CfmdJoin(n + 1)' <=> c_cmd \in Kinds)
    BY <1>2, <2>2 DEF Sm!Cfmd, Sm!CfmdJoin, Sm!LinkUp, Sm!LinkDown, Sm!Result,
      Sm!Left, Sm!Unlinked, Sm!Ended, Sm!Confirm,
      MsgAdded, Sm!ConnAssumption
  <2>5. Sm!OneCommand'
    BY <1>c, <2>2, <2>4, MsgAddedCommand DEF CfmLast, MsgAdded
  <2>6. Sm!Presence'
    BY <1>c, <1>2, <2>1, <2>2, <2>3, <2>4 DEF Sm!Presence, MsgStays, MsgAdded,
      Sm!OneCommand, Sm!Sends, Sm!ConnAssumption
  <2>7. Sm!Alternate'
    BY <1>c, <1>2, <2>1, <2>2, <2>3, <2>4 DEF Sm!Alternate, MsgStays
  <2>8. Sm!JoinEnds'
    BY <1>c, <1>2, <2>1, <2>2, <2>3, <2>4 DEF Sm!JoinEnds, MsgStays, Sm!Joins
  <2>9. Sm!Linked' => Sm!Linked
    BY <1>c, <1>2, <2>1, <2>2, <2>3, <2>4 DEF Sm!Linked, MsgStays
  <2>10. Sm!Known'
    BY <1>c, <1>2, <2>1, <2>2, <2>3, <2>4, <2>9 DEF Sm!Known, MsgStays, MsgAdded,
      Sm!Joins
  <2>11. Sm!Wanted'
    BY <1>c, <1>2, <2>1, <2>2, <2>3, <2>4 DEF Sm!Wanted, MsgStays, MsgAdded, Sm!Joins
  <2> QED BY <2>5, <2>6, <2>7, <2>8, <2>10, <2>11
<1>3. ASSUME c_cmd \in Kinds, fw' = fw, Sm!Ind(Sm!Confirm(c_cmd, "BUSY"))
      PROVE  ConnSound'
  <2>1. c_pc = "connect" /\ c_up
    BY <1>c, <1>3 DEF Sm!OneCommand, Sm!Sends, Sm!Presence, Sm!ConnAssumption, Sm!Wanted
  <2>2. /\ MsgAdded(n) /\ Len(c_inds') = n + 1 /\ c_inds'[n + 1] = Sm!Confirm(c_cmd, "BUSY")
        /\ \A k \in DOMAIN c_inds' : k \in DOMAIN c_inds \/ k = n + 1
    BY <1>c, <1>m, <1>n, <1>3, MsgAddedOne DEF Sm!ConnTypeOK, Sm!Ind
  <2>3. \A k \in DOMAIN c_inds : MsgStays(k) /\ k \in Nat /\ k <= n
    BY <2>2, MsgAddedStay DEF MsgAdded
  <2>4. /\ n + 1 \in DOMAIN c_inds' /\ Sm!Cfmd(n + 1)' /\ ~Sm!LinkUp(n + 1)' /\ ~Sm!LinkDown(n + 1)'
        /\ ~Sm!Result(n + 1)' /\ ~Sm!Left(n + 1)' /\ ~Sm!Unlinked(n + 1)' /\ ~Sm!Ended(n + 1)'
        /\ c_inds'[n + 1].of = c_cmd /\ (c_cmd \notin Kinds => c_inds'[n + 1].r = "ok")
        /\ (Sm!CfmdJoin(n + 1)' <=> c_cmd \in Kinds)
    BY <1>3, <2>2 DEF Sm!Cfmd, Sm!CfmdJoin, Sm!LinkUp, Sm!LinkDown, Sm!Result,
      Sm!Left, Sm!Unlinked, Sm!Ended, Sm!Confirm,
      MsgAdded, Sm!ConnAssumption
  <2>5. Sm!OneCommand'
    BY <1>c, <2>2, <2>4, MsgAddedCommand DEF CfmLast, MsgAdded
  <2>6. Sm!Presence'
    BY <1>c, <1>3, <2>1, <2>2, <2>3, <2>4 DEF Sm!Presence, MsgStays, MsgAdded,
      Sm!OneCommand, Sm!Sends, Sm!ConnAssumption
  <2>7. Sm!Alternate'
    BY <1>c, <1>3, <2>1, <2>2, <2>3, <2>4 DEF Sm!Alternate, MsgStays
  <2>8. Sm!JoinEnds'
    BY <1>c, <1>3, <2>1, <2>2, <2>3, <2>4 DEF Sm!JoinEnds, MsgStays, Sm!Joins
  <2>9. Sm!Linked' <=> Sm!Linked
    BY <1>c, <1>3, <2>1, <2>2, <2>3, <2>4 DEF Sm!Linked, MsgStays
  <2>10. Sm!Known'
    BY <1>c, <1>3, <2>1, <2>2, <2>3, <2>4, <2>9 DEF Sm!Known, MsgStays, MsgAdded,
      Sm!Joins
  <2>11. Sm!Wanted'
    BY <1>c, <1>3, <2>1, <2>2, <2>3, <2>4 DEF Sm!Wanted, MsgStays, MsgAdded, Sm!Joins
  <2> QED BY <2>5, <2>6, <2>7, <2>8, <2>10, <2>11
<1>4. ASSUME c_cmd = "authrsp", fw' = IF fw = "auth" THEN "joining" ELSE fw, Sm!Ind(Sm!Confirm(c_cmd, "ok"))
      PROVE  ConnSound'
  <2>1. c_pc = "disconnect" /\ c_up
    BY <1>c, <1>4 DEF Sm!OneCommand, Sm!Sends, Sm!Presence, Sm!ConnAssumption, Sm!Wanted
  <2>2. /\ MsgAdded(n) /\ Len(c_inds') = n + 1 /\ c_inds'[n + 1] = Sm!Confirm(c_cmd, "ok")
        /\ \A k \in DOMAIN c_inds' : k \in DOMAIN c_inds \/ k = n + 1
    BY <1>c, <1>m, <1>n, <1>4, MsgAddedOne DEF Sm!ConnTypeOK, Sm!Ind
  <2>3. \A k \in DOMAIN c_inds : MsgStays(k) /\ k \in Nat /\ k <= n
    BY <2>2, MsgAddedStay DEF MsgAdded
  <2>4. /\ n + 1 \in DOMAIN c_inds' /\ Sm!Cfmd(n + 1)' /\ ~Sm!LinkUp(n + 1)' /\ ~Sm!LinkDown(n + 1)'
        /\ ~Sm!Result(n + 1)' /\ ~Sm!Left(n + 1)' /\ ~Sm!Unlinked(n + 1)' /\ ~Sm!Ended(n + 1)'
        /\ c_inds'[n + 1].of = c_cmd /\ (c_cmd \notin Kinds => c_inds'[n + 1].r = "ok")
        /\ (Sm!CfmdJoin(n + 1)' <=> c_cmd \in Kinds)
    BY <1>4, <2>2 DEF Sm!Cfmd, Sm!CfmdJoin, Sm!LinkUp, Sm!LinkDown, Sm!Result,
      Sm!Left, Sm!Unlinked, Sm!Ended, Sm!Confirm,
      MsgAdded, Sm!ConnAssumption
  <2>5. Sm!OneCommand'
    BY <1>c, <2>2, <2>4, MsgAddedCommand DEF CfmLast, MsgAdded
  <2>6. Sm!Presence'
    BY <1>c, <1>4, <2>1, <2>2, <2>3, <2>4 DEF Sm!Presence, MsgStays, MsgAdded,
      Sm!OneCommand, Sm!Sends, Sm!ConnAssumption
  <2>7. Sm!Alternate'
    BY <1>c, <1>4, <2>1, <2>2, <2>3, <2>4 DEF Sm!Alternate, MsgStays
  <2>8. Sm!JoinEnds'
    BY <1>c, <1>4, <2>1, <2>2, <2>3, <2>4 DEF Sm!JoinEnds, MsgStays, Sm!Joins
  <2>9. Sm!Linked' <=> Sm!Linked
    BY <1>c, <1>4, <2>1, <2>2, <2>3, <2>4 DEF Sm!Linked, MsgStays
  <2>10. Sm!Known'
    BY <1>c, <1>4, <2>1, <2>2, <2>3, <2>4, <2>9 DEF Sm!Known, MsgStays, MsgAdded,
      Sm!Joins
  <2>11. Sm!Wanted'
    BY <1>c, <1>4, <2>1, <2>2, <2>3, <2>4 DEF Sm!Wanted, MsgStays, MsgAdded, Sm!Joins
  <2> QED BY <2>5, <2>6, <2>7, <2>8, <2>10, <2>11
<1>5. ASSUME c_cmd = "disconnect", fw = "up", fw' = "idle",
             c_inds' = c_inds \o <<Sm!Confirm(c_cmd, "ok")>> \o <<Sm!DisconnectInd(FALSE)>>
      PROVE  ConnSound'
  <2>1. c_pc \in {"disconnect", "close.leave"} /\ c_up
    BY <1>c, <1>5 DEF Sm!OneCommand, Sm!Sends, Sm!Presence, Sm!ConnAssumption,
      Sm!ConnTypeOK, Sm!TypeOK
  <2>2. /\ MsgAdded(n) /\ Len(c_inds') = n + 2 /\ c_inds'[n + 1] = Sm!Confirm(c_cmd, "ok")
        /\ c_inds'[n + 2] = Sm!DisconnectInd(FALSE)
        /\ \A k \in DOMAIN c_inds' : k \in DOMAIN c_inds \/ k = n + 1 \/ k = n + 2
    BY <1>c, <1>m, <1>i, <1>n, <1>5, MsgAddedTwo DEF Sm!ConnTypeOK
  <2>3. \A k \in DOMAIN c_inds : MsgStays(k) /\ k \in Nat /\ k <= n
    BY <2>2, MsgAddedStay DEF MsgAdded
  <2>4. /\ n + 1 \in DOMAIN c_inds' /\ n + 2 \in DOMAIN c_inds'
        /\ Sm!Cfmd(n + 1)' /\ ~Sm!LinkUp(n + 1)' /\ ~Sm!LinkDown(n + 1)'
        /\ ~Sm!Result(n + 1)' /\ ~Sm!Left(n + 1)' /\ ~Sm!Unlinked(n + 1)' /\ ~Sm!Ended(n + 1)'
        /\ c_inds'[n + 1].of = c_cmd /\ c_inds'[n + 1].r = "ok" /\ (Sm!CfmdJoin(n + 1)' <=> c_cmd \in Kinds)
        /\ ~Sm!Cfmd(n + 2)' /\ ~Sm!LinkUp(n + 2)' /\ ~Sm!CfmdJoin(n + 2)'
        /\ Sm!LinkDown(n + 2)' /\ ~Sm!Result(n + 2)' /\ ~Sm!Left(n + 2)' /\ Sm!Unlinked(n + 2)' /\ Sm!Ended(n + 2)'
    BY <1>5, <2>2 DEF Sm!Cfmd, Sm!CfmdJoin, Sm!LinkUp, Sm!LinkDown, Sm!Result,
      Sm!Left, Sm!Unlinked, Sm!Ended, Sm!Confirm,
      MsgAdded, Sm!ConnAssumption, Sm!DisconnectInd, Sm!ConnectInd
  <2>5. Sm!OneCommand'
    BY <1>c, <2>2, <2>4, MsgAddedCommand DEF CfmLast, MsgAdded
  <2>6. Sm!Presence'
    BY <1>c, <1>5, <2>1, <2>2, <2>3, <2>4 DEF Sm!Presence, MsgStays, MsgAdded,
      Sm!OneCommand, Sm!Sends, Sm!ConnAssumption
  <2>7. Sm!Alternate'
    <3>1. \A k \in DOMAIN c_inds' : Sm!LinkUp(k)' => k \in DOMAIN c_inds /\ Sm!LinkUp(k)
      BY <2>2, <2>3, <2>4 DEF MsgStays
    <3>2. \A i, j \in DOMAIN c_inds' : Sm!LinkUp(i)' /\ Sm!LinkUp(j)' /\ i < j =>
            \E k \in DOMAIN c_inds' : i < k /\ k < j /\ Sm!LinkDown(k)'
      BY <2>3, <3>1 DEF Sm!Alternate, MsgStays
    <3>3. \A i, j \in DOMAIN c_inds' : Sm!Unlinked(i)' /\ Sm!LinkDown(j)' /\ i < j =>
            \E k \in DOMAIN c_inds' : i < k /\ k < j /\ Sm!LinkUp(k)'
      <4> SUFFICES ASSUME NEW i \in DOMAIN c_inds', NEW j \in DOMAIN c_inds', Sm!Unlinked(i)', Sm!LinkDown(j)', i < j
                   PROVE  \E k \in DOMAIN c_inds' : i < k /\ k < j /\ Sm!LinkUp(k)'
        OBVIOUS
      <4>1. i \in DOMAIN c_inds /\ Sm!Unlinked(i)
        BY <2>2, <2>3, <2>4 DEF MsgStays
      <4>2. CASE j \in DOMAIN c_inds
        <5>1. PICK k \in DOMAIN c_inds : i < k /\ k < j /\ Sm!LinkUp(k)
          BY <4>1, <4>2, <2>3 DEF Sm!Alternate, MsgStays
        <5> QED BY <5>1, <2>3 DEF MsgStays
      <4>3. CASE j \notin DOMAIN c_inds
        <5>1. j = n + 2 /\ fw = "up"
          BY <4>3, <1>5, <2>2, <2>4
        <5>2. PICK k \in DOMAIN c_inds : i < k /\ Sm!LinkUp(k)
          BY <4>1, <5>1 DEF Sm!Alternate
        <5> QED BY <5>1, <5>2, <2>3 DEF MsgStays
      <4> QED BY <4>2, <4>3
    <3>4. \A i \in DOMAIN c_inds' : Sm!LinkUp(i)' => \E k \in DOMAIN c_inds' : i < k /\ Sm!LinkDown(k)'
      <4>1. \A i \in DOMAIN c_inds' : Sm!LinkUp(i)' => i \in Nat /\ i <= n
        BY <2>3, <3>1
      <4>2. n + 2 \in DOMAIN c_inds' /\ Sm!LinkDown(n + 2)' /\ \A i \in Nat : i <= n => i < n + 2
        BY <2>4
      <4> QED BY <4>1, <4>2
    <3> QED BY <1>5, <3>2, <3>3, <3>4 DEF Sm!Alternate
  <2>8. Sm!JoinEnds'
    <3>1. \A k \in DOMAIN c_inds' : (Sm!LinkUp(k)' => k \in DOMAIN c_inds /\ Sm!LinkUp(k))
                                 /\ (Sm!Left(k)' => k \in DOMAIN c_inds /\ Sm!Left(k))
      BY <2>2, <2>3, <2>4 DEF MsgStays
    <3>2. ASSUME NEW i \in DOMAIN c_inds', NEW j \in DOMAIN c_inds', Sm!Ended(i)', Sm!LinkUp(j)', i < j
          PROVE  \E k \in DOMAIN c_inds' : i < k /\ k < j /\ Sm!CfmdJoin(k)'
      <4>1. i \in DOMAIN c_inds /\ j \in DOMAIN c_inds /\ Sm!Ended(i) /\ Sm!LinkUp(j)
        BY <2>2, <2>3, <2>4, <3>1, <3>2 DEF MsgStays
      <4>2. PICK k \in DOMAIN c_inds : i < k /\ k < j /\ Sm!CfmdJoin(k)
        BY <3>2, <4>1 DEF Sm!JoinEnds
      <4> QED BY <4>2, <2>3 DEF MsgStays
    <3>3. ~Sm!Joins'
      BY <1>5 DEF Sm!Joins
    <3>4. ASSUME NEW i \in DOMAIN c_inds', Sm!Left(i)'
          PROVE  /\ i > 1 => Sm!CfmdJoin(i - 1)'
                 /\ fw' = "none" \/ \E k \in DOMAIN c_inds' : i < k /\ Sm!Result(k)'
      <4>1. i \in DOMAIN c_inds /\ Sm!Left(i) /\ (i > 1 => i - 1 \in DOMAIN c_inds)
        BY <2>2, <3>1, <3>4 DEF MsgAdded
      <4>2. i > 1 => Sm!CfmdJoin(i - 1)'
        BY <2>3, <4>1 DEF Sm!JoinEnds, MsgStays
      <4>3. \E k \in DOMAIN c_inds' : i < k /\ Sm!Result(k)'
        <5>1. PICK k \in DOMAIN c_inds : i < k /\ Sm!Result(k)
          BY <1>5, <4>1 DEF Sm!JoinEnds, Sm!Joins
        <5> QED BY <2>3, <5>1 DEF MsgStays
      <4> QED BY <4>2, <4>3
    <3> QED BY <3>2, <3>3, <3>4 DEF Sm!JoinEnds
  <2>9. Sm!Linked' <=> Sm!Linked
    BY <1>c, <1>5, <2>1, <2>2, <2>3, <2>4 DEF Sm!Linked, MsgStays
  <2>10. Sm!Known'
    BY <1>c, <1>5, <2>1, <2>2, <2>3, <2>4, <2>9 DEF Sm!Known, MsgStays, MsgAdded,
      Sm!Joins
  <2>11. Sm!Wanted'
    <3>1. \A k \in DOMAIN c_inds' : Sm!LinkUp(k)' => k \in DOMAIN c_inds /\ Sm!LinkUp(k) /\ k < n + 1
      BY <2>2, <2>3, <2>4 DEF MsgStays
    <3>2. UNCHANGED <<conn, kconn, wants, c_pc, c_cmd>> /\ fw' \in {"idle", "none"} /\ ~Sm!Joins'
      BY <1>5, <2>2 DEF MsgAdded, Sm!Joins
    <3> QED BY <2>1, <2>4, <3>1, <3>2 DEF Sm!Wanted
  <2> QED BY <2>5, <2>6, <2>7, <2>8, <2>10, <2>11
<1>6. ASSUME c_cmd = "disconnect", Sm!Joins, fw' = "idle",
             c_inds' = c_inds \o <<Sm!Confirm(c_cmd, "ok")>> \o <<Sm!ConnectInd(FALSE)>>
      PROVE  ConnSound'
  <2>1. c_pc \in {"disconnect", "close.leave"} /\ c_up /\ fw # "up" /\ fw # "none"
    BY <1>c, <1>6 DEF Sm!Joins, Sm!OneCommand, Sm!Sends, Sm!Presence,
      Sm!ConnAssumption, Sm!ConnTypeOK, Sm!TypeOK
  <2>2. /\ MsgAdded(n) /\ Len(c_inds') = n + 2 /\ c_inds'[n + 1] = Sm!Confirm(c_cmd, "ok")
        /\ c_inds'[n + 2] = Sm!ConnectInd(FALSE)
        /\ \A k \in DOMAIN c_inds' : k \in DOMAIN c_inds \/ k = n + 1 \/ k = n + 2
    BY <1>c, <1>m, <1>i, <1>n, <1>6, MsgAddedTwo DEF Sm!ConnTypeOK
  <2>3. \A k \in DOMAIN c_inds : MsgStays(k) /\ k \in Nat /\ k <= n
    BY <2>2, MsgAddedStay DEF MsgAdded
  <2>4. /\ n + 1 \in DOMAIN c_inds' /\ n + 2 \in DOMAIN c_inds'
        /\ Sm!Cfmd(n + 1)' /\ ~Sm!LinkUp(n + 1)' /\ ~Sm!LinkDown(n + 1)'
        /\ ~Sm!Result(n + 1)' /\ ~Sm!Left(n + 1)' /\ ~Sm!Unlinked(n + 1)' /\ ~Sm!Ended(n + 1)'
        /\ c_inds'[n + 1].of = c_cmd /\ c_inds'[n + 1].r = "ok" /\ (Sm!CfmdJoin(n + 1)' <=> c_cmd \in Kinds)
        /\ ~Sm!Cfmd(n + 2)' /\ ~Sm!LinkUp(n + 2)' /\ ~Sm!CfmdJoin(n + 2)'
        /\ ~Sm!LinkDown(n + 2)' /\ Sm!Result(n + 2)' /\ ~Sm!Left(n + 2)' /\ Sm!Unlinked(n + 2)' /\ Sm!Ended(n + 2)'
    BY <1>6, <2>2 DEF Sm!Cfmd, Sm!CfmdJoin, Sm!LinkUp, Sm!LinkDown, Sm!Result,
      Sm!Left, Sm!Unlinked, Sm!Ended, Sm!Confirm,
      MsgAdded, Sm!ConnAssumption, Sm!DisconnectInd, Sm!ConnectInd
  <2>5. Sm!OneCommand'
    BY <1>c, <2>2, <2>4, MsgAddedCommand DEF CfmLast, MsgAdded
  <2>6. Sm!Presence'
    BY <1>c, <1>6, <2>1, <2>2, <2>3, <2>4 DEF Sm!Presence, MsgStays, MsgAdded,
      Sm!OneCommand, Sm!Sends, Sm!ConnAssumption
  <2>7. Sm!Alternate'
    <3>1. \A k \in DOMAIN c_inds' : Sm!LinkUp(k)' => k \in DOMAIN c_inds /\ Sm!LinkUp(k)
      BY <2>2, <2>3, <2>4 DEF MsgStays
    <3>2. \A i, j \in DOMAIN c_inds' : Sm!LinkUp(i)' /\ Sm!LinkUp(j)' /\ i < j =>
            \E k \in DOMAIN c_inds' : i < k /\ k < j /\ Sm!LinkDown(k)'
      BY <2>3, <3>1 DEF Sm!Alternate, MsgStays
    <3>3. \A i, j \in DOMAIN c_inds' : Sm!Unlinked(i)' /\ Sm!LinkDown(j)' /\ i < j =>
            \E k \in DOMAIN c_inds' : i < k /\ k < j /\ Sm!LinkUp(k)'
      <4> SUFFICES ASSUME NEW i \in DOMAIN c_inds', NEW j \in DOMAIN c_inds', Sm!Unlinked(i)', Sm!LinkDown(j)', i < j
                   PROVE  \E k \in DOMAIN c_inds' : i < k /\ k < j /\ Sm!LinkUp(k)'
        OBVIOUS
      <4>1. i \in DOMAIN c_inds /\ Sm!Unlinked(i)
        BY <2>2, <2>3, <2>4 DEF MsgStays
      <4>2. CASE j \in DOMAIN c_inds
        <5>1. PICK k \in DOMAIN c_inds : i < k /\ k < j /\ Sm!LinkUp(k)
          BY <4>1, <4>2, <2>3 DEF Sm!Alternate, MsgStays
        <5> QED BY <5>1, <2>3 DEF MsgStays
      <4>3. CASE j \notin DOMAIN c_inds
        <5>1. j = n + 2 /\ fw = "up"
          BY <4>3, <1>6, <2>2, <2>4
        <5>2. PICK k \in DOMAIN c_inds : i < k /\ Sm!LinkUp(k)
          BY <4>1, <5>1 DEF Sm!Alternate
        <5> QED BY <5>1, <5>2, <2>3 DEF MsgStays
      <4> QED BY <4>2, <4>3
    <3>4. \A i \in DOMAIN c_inds' : Sm!LinkUp(i)' => \E k \in DOMAIN c_inds' : i < k /\ Sm!LinkDown(k)'
      BY <1>6, <2>1, <2>3, <2>4, <3>1 DEF Sm!Alternate, MsgStays
    <3> QED BY <1>6, <3>2, <3>3, <3>4 DEF Sm!Alternate
  <2>8. Sm!JoinEnds'
    <3>1. \A k \in DOMAIN c_inds' : (Sm!LinkUp(k)' => k \in DOMAIN c_inds /\ Sm!LinkUp(k))
                                 /\ (Sm!Left(k)' => k \in DOMAIN c_inds /\ Sm!Left(k))
      BY <2>2, <2>3, <2>4 DEF MsgStays
    <3>2. ASSUME NEW i \in DOMAIN c_inds', NEW j \in DOMAIN c_inds', Sm!Ended(i)', Sm!LinkUp(j)', i < j
          PROVE  \E k \in DOMAIN c_inds' : i < k /\ k < j /\ Sm!CfmdJoin(k)'
      <4>1. i \in DOMAIN c_inds /\ j \in DOMAIN c_inds /\ Sm!Ended(i) /\ Sm!LinkUp(j)
        BY <2>2, <2>3, <2>4, <3>1, <3>2 DEF MsgStays
      <4>2. PICK k \in DOMAIN c_inds : i < k /\ k < j /\ Sm!CfmdJoin(k)
        BY <3>2, <4>1 DEF Sm!JoinEnds
      <4> QED BY <4>2, <2>3 DEF MsgStays
    <3>3. ~Sm!Joins'
      BY <1>6 DEF Sm!Joins
    <3>4. ASSUME NEW i \in DOMAIN c_inds', Sm!Left(i)'
          PROVE  /\ i > 1 => Sm!CfmdJoin(i - 1)'
                 /\ fw' = "none" \/ \E k \in DOMAIN c_inds' : i < k /\ Sm!Result(k)'
      <4>1. i \in DOMAIN c_inds /\ Sm!Left(i) /\ (i > 1 => i - 1 \in DOMAIN c_inds)
        BY <2>2, <3>1, <3>4 DEF MsgAdded
      <4>2. i > 1 => Sm!CfmdJoin(i - 1)'
        BY <2>3, <4>1 DEF Sm!JoinEnds, MsgStays
      <4>3. \E k \in DOMAIN c_inds' : i < k /\ Sm!Result(k)'
        BY <2>3, <2>4, <4>1
      <4> QED BY <4>2, <4>3
    <3> QED BY <3>2, <3>3, <3>4 DEF Sm!JoinEnds
  <2>9. Sm!Linked' <=> Sm!Linked
    BY <1>c, <1>6, <2>1, <2>2, <2>3, <2>4 DEF Sm!Linked, MsgStays
  <2>10. Sm!Known'
    BY <1>c, <1>6, <2>1, <2>2, <2>3, <2>4, <2>9 DEF Sm!Known, MsgStays, MsgAdded,
      Sm!Joins
  <2>11. Sm!Wanted'
    <3>1. \A k \in DOMAIN c_inds' : Sm!LinkUp(k)' => k \in DOMAIN c_inds /\ Sm!LinkUp(k) /\ k < n + 1
      BY <2>2, <2>3, <2>4 DEF MsgStays
    <3>2. UNCHANGED <<conn, kconn, wants, c_pc, c_cmd>> /\ fw' \in {"idle", "none"} /\ ~Sm!Joins'
      BY <1>6, <2>2 DEF MsgAdded, Sm!Joins
    <3> QED BY <2>1, <2>4, <3>1, <3>2 DEF Sm!Wanted
  <2> QED BY <2>5, <2>6, <2>7, <2>8, <2>10, <2>11
<1>7. ASSUME c_cmd = "disconnect", fw \in {"none", "idle"}, fw' = fw, Sm!Ind(Sm!Confirm(c_cmd, "ok"))
      PROVE  ConnSound'
  <2>1. c_pc \in {"disconnect", "close.leave"} /\ c_up
    BY <1>c, <1>7 DEF Sm!OneCommand, Sm!Sends, Sm!Presence, Sm!ConnAssumption, Sm!Wanted
  <2>2. /\ MsgAdded(n) /\ Len(c_inds') = n + 1 /\ c_inds'[n + 1] = Sm!Confirm(c_cmd, "ok")
        /\ \A k \in DOMAIN c_inds' : k \in DOMAIN c_inds \/ k = n + 1
    BY <1>c, <1>m, <1>n, <1>7, MsgAddedOne DEF Sm!ConnTypeOK, Sm!Ind
  <2>3. \A k \in DOMAIN c_inds : MsgStays(k) /\ k \in Nat /\ k <= n
    BY <2>2, MsgAddedStay DEF MsgAdded
  <2>4. /\ n + 1 \in DOMAIN c_inds' /\ Sm!Cfmd(n + 1)' /\ ~Sm!LinkUp(n + 1)' /\ ~Sm!LinkDown(n + 1)'
        /\ ~Sm!Result(n + 1)' /\ ~Sm!Left(n + 1)' /\ ~Sm!Unlinked(n + 1)' /\ ~Sm!Ended(n + 1)'
        /\ c_inds'[n + 1].of = c_cmd /\ (c_cmd \notin Kinds => c_inds'[n + 1].r = "ok")
        /\ (Sm!CfmdJoin(n + 1)' <=> c_cmd \in Kinds)
    BY <1>7, <2>2 DEF Sm!Cfmd, Sm!CfmdJoin, Sm!LinkUp, Sm!LinkDown, Sm!Result,
      Sm!Left, Sm!Unlinked, Sm!Ended, Sm!Confirm,
      MsgAdded, Sm!ConnAssumption
  <2>5. Sm!OneCommand'
    BY <1>c, <2>2, <2>4, MsgAddedCommand DEF CfmLast, MsgAdded
  <2>6. Sm!Presence'
    BY <1>c, <1>7, <2>1, <2>2, <2>3, <2>4 DEF Sm!Presence, MsgStays, MsgAdded,
      Sm!OneCommand, Sm!Sends, Sm!ConnAssumption
  <2>7. Sm!Alternate'
    BY <1>c, <1>7, <2>1, <2>2, <2>3, <2>4 DEF Sm!Alternate, MsgStays
  <2>8. Sm!JoinEnds'
    BY <1>c, <1>7, <2>1, <2>2, <2>3, <2>4 DEF Sm!JoinEnds, MsgStays, Sm!Joins
  <2>9. Sm!Linked' <=> Sm!Linked
    BY <1>c, <1>7, <2>1, <2>2, <2>3, <2>4 DEF Sm!Linked, MsgStays
  <2>10. Sm!Known'
    BY <1>c, <1>7, <2>1, <2>2, <2>3, <2>4, <2>9 DEF Sm!Known, MsgStays, MsgAdded,
      Sm!Joins
  <2>11. Sm!Wanted'
    BY <1>c, <1>7, <2>1, <2>2, <2>3, <2>4 DEF Sm!Wanted, MsgStays, MsgAdded, Sm!Joins
  <2> QED BY <2>5, <2>6, <2>7, <2>8, <2>10, <2>11
<1>8. ASSUME c_cmd \in Kinds, fw' \in {"joining", "auth"}, NEW t \in Seq(Sm!Message),
             c_inds' = c_inds \o <<Sm!Confirm(c_cmd, "ok")>> \o t,
             fw = "up" => Len(t) > 0 /\ t[1].m = "disconnect" /\ t[1].reassoc,
             \A k \in DOMAIN t : \/ t[k].m = "authreq"
                                 \/ t[k].m = "disconnect" /\ t[k].reassoc /\ k = 1 /\ fw = "up"
      PROVE  ConnSound'
  <2>1. c_pc = "connect" /\ c_up /\ fw # "none"
    BY <1>c, <1>8 DEF Sm!OneCommand, Sm!Sends, Sm!Presence, Sm!ConnAssumption
  <2>a. Len(t) \in Nat /\ DOMAIN t = 1..Len(t)
    BY <1>8
  <2>2. /\ MsgAdded(n) /\ Len(c_inds') = n + 1 + Len(t) /\ c_inds'[n + 1] = Sm!Confirm(c_cmd, "ok")
        /\ \A k \in DOMAIN c_inds' : k \in DOMAIN c_inds \/ k = n + 1 \/ k > n + 1
        /\ \A k \in DOMAIN c_inds' : k > n + 1 => k - (n + 1) \in DOMAIN t /\ c_inds'[k] = t[k - (n + 1)]
    <3>1. PICK r : r = c_inds \o <<Sm!Confirm(c_cmd, "ok")>>
      OBVIOUS
    <3>2. /\ r \in Seq(Sm!Message) /\ Len(r) = n + 1 /\ r[n + 1] = Sm!Confirm(c_cmd, "ok")
          /\ \A k \in DOMAIN c_inds : k \in DOMAIN r /\ r[k] = c_inds[k]
      BY <1>m, <1>n, <3>1 DEF Sm!ConnTypeOK
    <3>a. c_inds' = r \o t
      BY <1>8, <3>1
    <3>3. /\ c_inds' \in Seq(Sm!Message) /\ Len(c_inds') = n + 1 + Len(t)
          /\ \A k \in DOMAIN r : k \in DOMAIN c_inds' /\ c_inds'[k] = r[k]
          /\ \A k \in DOMAIN c_inds' : k > n + 1 => k - (n + 1) \in DOMAIN t /\ c_inds'[k] = t[k - (n + 1)]
      <4>1. n + 1 \in Nat /\ t \in Seq(Sm!Message) /\ r \in Seq(Sm!Message) /\ Len(r) = n + 1
        BY <1>8, <1>n, <3>2
      <4>2. /\ r \o t \in Seq(Sm!Message) /\ Len(r \o t) = Len(r) + Len(t)
            /\ \A k \in DOMAIN r : k \in DOMAIN (r \o t) /\ (r \o t)[k] = r[k]
            /\ \A k \in DOMAIN (r \o t) : k > Len(r) => k - Len(r) \in DOMAIN t /\ (r \o t)[k] = t[k - Len(r)]
        BY <4>1, JoinedSeq, Zenon
      <4>3. /\ r \o t \in Seq(Sm!Message) /\ Len(r \o t) = n + 1 + Len(t)
            /\ \A k \in DOMAIN r : k \in DOMAIN (r \o t) /\ (r \o t)[k] = r[k]
            /\ \A k \in DOMAIN (r \o t) : k > n + 1 => k - (n + 1) \in DOMAIN t /\ (r \o t)[k] = t[k - (n + 1)]
        BY <4>1, <4>2, Zenon
      <4> QED BY <3>a, <4>3, Zenon
    <3>4. /\ DOMAIN c_inds = 1..n /\ DOMAIN c_inds' = 1..Len(c_inds') /\ Len(c_inds') \in Nat /\ n <= Len(c_inds')
          /\ DOMAIN r = 1..(n + 1)
      BY <1>n, <2>a, <3>2, <3>3 DEF Sm!ConnTypeOK
    <3>5. \A k \in DOMAIN c_inds : k \in DOMAIN c_inds' /\ c_inds'[k] = c_inds[k]
      BY <3>2, <3>3
    <3>6. MsgAdded(n)
      BY <1>c, <1>n, <3>3, <3>4, <3>5 DEF MsgAdded, Sm!drvVars, Sm!krnVars, Sm!cmdVars
    <3>7. c_inds'[n + 1] = Sm!Confirm(c_cmd, "ok")
      BY <3>2, <3>3, <3>4
    <3>8. \A k \in DOMAIN c_inds' : k \in DOMAIN c_inds \/ k = n + 1 \/ k > n + 1
      BY <3>4
    <3> QED BY <3>3, <3>6, <3>7, <3>8
  <2>3. \A k \in DOMAIN c_inds : MsgStays(k) /\ k \in Nat /\ k <= n
    BY <2>2, MsgAddedStay DEF MsgAdded
  <2>4. /\ n + 1 \in DOMAIN c_inds'
        /\ Sm!Cfmd(n + 1)' /\ ~Sm!LinkUp(n + 1)' /\ ~Sm!LinkDown(n + 1)'
        /\ ~Sm!Result(n + 1)' /\ ~Sm!Left(n + 1)' /\ ~Sm!Unlinked(n + 1)' /\ ~Sm!Ended(n + 1)'
        /\ c_inds'[n + 1].of = c_cmd /\ c_inds'[n + 1].r = "ok" /\ Sm!CfmdJoin(n + 1)'
    BY <1>8, <2>2, <2>a DEF Sm!Cfmd, Sm!CfmdJoin, Sm!LinkUp, Sm!LinkDown, Sm!Result,
      Sm!Left, Sm!Unlinked, Sm!Ended, Sm!Confirm,
      MsgAdded, Sm!ConnAssumption
  <2>c. ASSUME NEW k \in DOMAIN c_inds', k > n + 1
        PROVE  /\ ~Sm!Cfmd(k)' /\ ~Sm!LinkUp(k)' /\ ~Sm!CfmdJoin(k)' /\ ~Sm!Result(k)' /\ ~Sm!Ended(k)'
               /\ (Sm!Unlinked(k)' <=> Sm!Left(k)') /\ (Sm!LinkDown(k)' <=> Sm!Left(k)') /\ (Sm!Left(k)' => k = n + 2 /\ fw = "up")
    <3>1. k - (n + 1) \in DOMAIN t /\ c_inds'[k] = t[k - (n + 1)] /\ k \in Int
      BY <2>2, <2>a, <2>c DEF MsgAdded
    <3>2. CASE c_inds'[k].m = "authreq"
      BY <3>2 DEF Sm!Cfmd, Sm!CfmdJoin, Sm!LinkUp, Sm!LinkDown, Sm!Result, Sm!Left,
        Sm!Unlinked, Sm!Ended
    <3>3. CASE c_inds'[k].m = "disconnect" /\ c_inds'[k].reassoc /\ k - (n + 1) = 1 /\ fw = "up"
      <4>2. k = n + 2
        BY <3>1, <3>3
      <4> QED BY <3>3, <4>2 DEF Sm!Cfmd, Sm!CfmdJoin, Sm!LinkUp, Sm!LinkDown,
                Sm!Result, Sm!Left, Sm!Unlinked, Sm!Ended
    <3> QED BY <1>8, <3>1, <3>2, <3>3
  <2>d. fw = "up" => n + 2 \in DOMAIN c_inds' /\ Sm!Left(n + 2)' /\ Sm!LinkDown(n + 2)'
    <3> SUFFICES ASSUME fw = "up" PROVE n + 2 \in DOMAIN c_inds' /\ Sm!Left(n + 2)' /\ Sm!LinkDown(n + 2)'
      OBVIOUS
    <3>2. n + 2 \in DOMAIN c_inds' /\ (n + 2) - (n + 1) = 1
      BY <1>8, <2>2, <2>a DEF MsgAdded
    <3>a. \A k \in DOMAIN c_inds' : k > n + 1 => c_inds'[k] = t[k - (n + 1)]
      BY <2>2
    <3>b. n + 2 > n + 1
      OBVIOUS
    <3>c. c_inds'[n + 2] = t[(n + 2) - (n + 1)]
      BY <3>2, <3>a, <3>b
    <3>3. c_inds'[n + 2] = t[1]
      BY <3>2, <3>c
    <3> QED BY <1>8, <3>2, <3>3 DEF Sm!Left, Sm!LinkDown
  <2>e. /\ \A k \in DOMAIN c_inds' : Sm!LinkUp(k)' => k \in DOMAIN c_inds /\ Sm!LinkUp(k)
        /\ \A k \in DOMAIN c_inds' : Sm!Ended(k)' => k \in DOMAIN c_inds /\ Sm!Ended(k)
        /\ \A k \in DOMAIN c_inds' :
             Sm!Left(k)' => (k \in DOMAIN c_inds /\ Sm!Left(k)) \/ (k = n + 2 /\ fw = "up")
        /\ \A k \in DOMAIN c_inds' :
             Sm!LinkDown(k)' => (k \in DOMAIN c_inds /\ Sm!LinkDown(k)) \/ (k = n + 2 /\ fw = "up")
        /\ \A k \in DOMAIN c_inds' :
             Sm!Unlinked(k)' => (k \in DOMAIN c_inds /\ Sm!Unlinked(k)) \/ (k = n + 2 /\ fw = "up")
    BY <2>2, <2>3, <2>4, <2>c DEF MsgStays
  <2>5. Sm!OneCommand'
    BY <1>c, <2>2, <2>4, <2>c, MsgAddedCommand DEF CfmLast, MsgAdded
  <2>6. Sm!Presence'
    BY <1>c, <1>8, <2>1, <2>2, <2>3, <2>4 DEF Sm!Presence, MsgStays, MsgAdded,
      Sm!OneCommand, Sm!Sends, Sm!ConnAssumption
  <2>7. Sm!Alternate'
    <3>2. \A i, j \in DOMAIN c_inds' : Sm!LinkUp(i)' /\ Sm!LinkUp(j)' /\ i < j =>
            \E k \in DOMAIN c_inds' : i < k /\ k < j /\ Sm!LinkDown(k)'
      BY <2>3, <2>e DEF Sm!Alternate, MsgStays
    <3>3. \A i, j \in DOMAIN c_inds' : Sm!Unlinked(i)' /\ Sm!LinkDown(j)' /\ i < j =>
            \E k \in DOMAIN c_inds' : i < k /\ k < j /\ Sm!LinkUp(k)'
      <4> SUFFICES ASSUME NEW i \in DOMAIN c_inds', NEW j \in DOMAIN c_inds', Sm!Unlinked(i)', Sm!LinkDown(j)', i < j
                   PROVE  \E k \in DOMAIN c_inds' : i < k /\ k < j /\ Sm!LinkUp(k)'
        OBVIOUS
      <4>1. i \in DOMAIN c_inds /\ Sm!Unlinked(i)
        <5>1. \A k \in DOMAIN c_inds : k <= n + 2
          BY <2>3
        <5>2. j <= n + 2
          BY <2>e, <5>1
        <5>a. DOMAIN c_inds' = 1..Len(c_inds') /\ Len(c_inds') \in Nat
          BY <2>2 DEF MsgAdded
        <5>b. \A x \in DOMAIN c_inds' : x \in Int
          BY <5>a
        <5>3. i # n + 2
          <6>1. \A x, y \in Int : x < y /\ y <= n + 2 => x # n + 2
            OBVIOUS
          <6> QED BY <5>2, <5>b, <6>1, Zenon
        <5> QED BY <2>e, <5>3
      <4>2. CASE j \in DOMAIN c_inds
        <5>1. PICK k \in DOMAIN c_inds : i < k /\ k < j /\ Sm!LinkUp(k)
          BY <4>1, <4>2, <2>3 DEF Sm!Alternate, MsgStays
        <5> QED BY <5>1, <2>3 DEF MsgStays
      <4>3. CASE j \notin DOMAIN c_inds
        <5>1. j = n + 2 /\ fw = "up"
          BY <4>3, <2>e
        <5>2. PICK k \in DOMAIN c_inds : i < k /\ Sm!LinkUp(k)
          BY <4>1, <5>1 DEF Sm!Alternate
        <5> QED BY <5>1, <5>2, <2>3 DEF MsgStays
      <4> QED BY <4>2, <4>3
    <3>4. \A i \in DOMAIN c_inds' : Sm!LinkUp(i)' => \E k \in DOMAIN c_inds' : i < k /\ Sm!LinkDown(k)'
      BY <2>1, <2>3, <2>d, <2>e DEF Sm!Alternate, MsgStays
    <3> QED BY <1>8, <3>2, <3>3, <3>4 DEF Sm!Alternate
  <2>8. Sm!JoinEnds'
    <3>2. ASSUME NEW i \in DOMAIN c_inds', NEW j \in DOMAIN c_inds', Sm!Ended(i)', Sm!LinkUp(j)', i < j
          PROVE  \E k \in DOMAIN c_inds' : i < k /\ k < j /\ Sm!CfmdJoin(k)'
      <4>1. i \in DOMAIN c_inds /\ j \in DOMAIN c_inds /\ Sm!Ended(i) /\ Sm!LinkUp(j)
        BY <2>e, <3>2
      <4>2. PICK k \in DOMAIN c_inds : i < k /\ k < j /\ Sm!CfmdJoin(k)
        BY <3>2, <4>1 DEF Sm!JoinEnds
      <4> QED BY <4>2, <2>3 DEF MsgStays
    <3>3. \A i \in DOMAIN c_inds' : Sm!Ended(i)' => i < n + 1
      BY <2>3, <2>e
    <3>4. Sm!Joins'
      BY <1>8 DEF Sm!Joins
    <3>5. ASSUME NEW i \in DOMAIN c_inds', Sm!Left(i)' PROVE i > 1 => Sm!CfmdJoin(i - 1)'
      <4>1. CASE i \in DOMAIN c_inds /\ Sm!Left(i)
        <5>1. i > 1 => i - 1 \in DOMAIN c_inds
          BY <2>2, <4>1 DEF MsgAdded
        <5> QED BY <2>3, <4>1, <5>1 DEF Sm!JoinEnds, MsgStays
      <4>2. CASE i = n + 2
        <5>1. (n + 2) - 1 = n + 1
          OBVIOUS
        <5> QED BY <2>4, <4>2, <5>1
      <4> QED BY <2>e, <3>5, <4>1, <4>2
    <3> QED BY <2>4, <3>2, <3>3, <3>4, <3>5 DEF Sm!JoinEnds
  <2>9. Sm!Linked' <=> Sm!Linked
    <3>1. ASSUME Sm!Linked PROVE Sm!Linked'
      <4>1. CASE \E i \in DOMAIN c_inds : Sm!LinkDown(i) /\ \A j \in DOMAIN c_inds : j < i => ~Sm!LinkUp(j)
        BY <4>1, <2>3, <2>e DEF Sm!Linked, MsgStays
      <4>2. CASE fw = "up" /\ \A i \in DOMAIN c_inds : ~Sm!LinkUp(i)
        BY <4>2, <2>d, <2>e DEF Sm!Linked
      <4> QED BY <3>1, <4>1, <4>2 DEF Sm!Linked
    <3>2. ASSUME Sm!Linked' PROVE Sm!Linked
      <4>1. PICK i \in DOMAIN c_inds' : Sm!LinkDown(i)' /\ \A j \in DOMAIN c_inds' : j < i => ~Sm!LinkUp(j)'
        BY <1>8, <3>2 DEF Sm!Linked
      <4>2. CASE i \in DOMAIN c_inds /\ Sm!LinkDown(i)
        BY <4>1, <4>2, <2>3 DEF Sm!Linked, MsgStays
      <4>3. CASE i = n + 2 /\ fw = "up"
        BY <4>1, <4>3, <2>3 DEF Sm!Linked, MsgStays
      <4> QED BY <2>e, <4>1, <4>2, <4>3
    <3> QED BY <3>1, <3>2
  <2>10. Sm!Known'
    BY <1>8, <2>1, <2>2, <2>9 DEF Sm!Known, MsgAdded, Sm!Joins, Sm!Wanted
  <2>11. Sm!Wanted'
    BY <2>1, <2>2 DEF Sm!Wanted, MsgAdded
  <2> QED BY <2>5, <2>6, <2>7, <2>8, <2>10, <2>11
<1>9. ASSUME c_cmd = "disconnect", fw' = IF fw = "none" THEN fw ELSE "idle",
             c_inds' = c_inds \o <<Sm!Confirm(c_cmd, "ok")>>
                \o (CASE fw = "up" -> <<Sm!DisconnectInd(FALSE)>>
                      [] fw \in {"joining", "auth"} -> <<Sm!ConnectInd(FALSE)>>
                      [] OTHER -> <<>>)
      PROVE  ConnSound'
  <2>1. CASE fw = "up"
    BY <1>5, <1>9, <2>1
  <2>2. CASE fw \in {"joining", "auth"}
    BY <1>6, <1>9, <2>2 DEF Sm!Joins
  <2>3. CASE fw \in {"none", "idle"}
    <3>1. c_inds' = c_inds \o <<Sm!Confirm(c_cmd, "ok")>> \o <<>>
      BY <1>9, <2>3
    <3>a. /\ c_inds \o <<Sm!Confirm(c_cmd, "ok")>> \in Seq(Sm!Message)
          /\ Append(c_inds, Sm!Confirm(c_cmd, "ok")) = c_inds \o <<Sm!Confirm(c_cmd, "ok")>>
      BY <1>m, OneMoreSeq DEF Sm!ConnTypeOK
    <3>2. PICK r \in Seq(Sm!Message) : r = Append(c_inds, Sm!Confirm(c_cmd, "ok")) /\ r = c_inds \o <<Sm!Confirm(c_cmd, "ok")>>
      BY <3>a, Zenon
    <3>3. r \o <<>> = r
      BY <3>2
    <3>4. Sm!Ind(Sm!Confirm(c_cmd, "ok"))
      BY <3>1, <3>2, <3>3 DEF Sm!Ind
    <3> QED BY <1>7, <1>9, <2>3, <3>4
  <2> QED BY <2>1, <2>2, <2>3 DEF Sm!ConnTypeOK, Sm!TypeOK
<1>10. ASSUME c_cmd \in Kinds, fw' = IF c_cmd = "sae" THEN "auth" ELSE "joining",
              c_inds' = c_inds \o <<Sm!Confirm(c_cmd, "ok")>>
                      \o (IF fw = "up" THEN <<Sm!DisconnectInd(TRUE)>> ELSE <<>>)
                      \o (IF c_cmd = "sae" THEN <<[m |-> "authreq"]>> ELSE <<>>)
       PROVE  ConnSound'
  <2>a. c_inds \o <<Sm!Confirm(c_cmd, "ok")>> \in Seq(Sm!Message)
    BY <1>m, OneMoreSeq DEF Sm!ConnTypeOK
  <2>b. /\ <<Sm!DisconnectInd(TRUE)>> \in Seq(Sm!Message) /\ <<[m |-> "authreq"]>> \in Seq(Sm!Message)
        /\ <<>> \in Seq(Sm!Message)
    <3>1. \A S : \A x \in S : <<x>> \in Seq(S) /\ <<>> \in Seq(S)
      OBVIOUS
    <3> QED BY <1>i, <3>1, Zenon
  <2>1. PICK r \in Seq(Sm!Message) : r = c_inds \o <<Sm!Confirm(c_cmd, "ok")>>
    BY <2>a, Zenon
  <2>2. PICK d \in Seq(Sm!Message) : d = IF fw = "up" THEN <<Sm!DisconnectInd(TRUE)>> ELSE <<>>
    BY <2>b, Zenon
  <2>3. PICK a \in Seq(Sm!Message) : a = IF c_cmd = "sae" THEN <<[m |-> "authreq"]>> ELSE <<>>
    BY <2>b, Zenon
  <2>4. c_inds' = (r \o d) \o a
    BY <1>10, <2>1, <2>2, <2>3
  <2>c. d \o a \in Seq(Sm!Message)
    OBVIOUS
  <2>5. PICK t \in Seq(Sm!Message) : t = d \o a
    BY <2>c, Zenon
  <2>6. c_inds' = r \o t
    BY <2>4, <2>5, RegroupedSeq
  <2>7. c_inds' = c_inds \o <<Sm!Confirm(c_cmd, "ok")>> \o t
    BY <2>1, <2>6
  <2>8. /\ fw = "up" => d = <<Sm!DisconnectInd(TRUE)>> /\ Len(d) = 1 /\ d[1] = Sm!DisconnectInd(TRUE)
        /\ fw # "up" => d = <<>> /\ Len(d) = 0
        /\ a = <<>> \/ (Len(a) = 1 /\ a[1] = [m |-> "authreq"])
    BY <2>2, <2>3
  <2>9. /\ Len(t) = Len(d) + Len(a) /\ DOMAIN t = 1..Len(t)
        /\ \A k \in DOMAIN d : k \in DOMAIN t /\ t[k] = d[k]
        /\ \A k \in DOMAIN t : k > Len(d) => k - Len(d) \in DOMAIN a /\ t[k] = a[k - Len(d)]
    BY <2>5, JoinedSeq
  <2>10. fw = "up" => Len(t) > 0 /\ t[1].m = "disconnect" /\ t[1].reassoc
    BY <2>8, <2>9 DEF Sm!DisconnectInd
  <2>11. ASSUME NEW k \in DOMAIN t
         PROVE  \/ t[k].m = "authreq"
                \/ t[k].m = "disconnect" /\ t[k].reassoc /\ k = 1 /\ fw = "up"
    <3>1. CASE k > Len(d)
      <4>1. k - Len(d) \in DOMAIN a /\ t[k] = a[k - Len(d)]
        BY <2>9, <3>1
      <4>2. Len(a) = 1 /\ a[1] = [m |-> "authreq"]
        BY <2>8, <4>1
      <4>3. k - Len(d) = 1
        BY <4>1, <4>2
      <4> QED BY <4>1, <4>2, <4>3
    <3>2. CASE ~(k > Len(d))
      <4>a. k \in Nat /\ k >= 1 /\ k <= Len(d)
        BY <2>9, <3>2
      <4>1. fw = "up" /\ k = 1
        <5>1. Len(d) # 0
          BY <4>a
        <5>2. fw = "up" /\ Len(d) = 1
          BY <2>8, <5>1, Zenon
        <5> QED BY <4>a, <5>2
      <4> QED BY <2>8, <2>9, <4>1 DEF Sm!DisconnectInd
    <3> QED BY <3>1, <3>2
  <2>12. fw' \in {"joining", "auth"}
    BY <1>10
  <2> QED BY <1>8, <1>10, <2>7, <2>10, <2>11, <2>12
<1> QED BY <1>1, <1>2, <1>3, <1>4, <1>9, <1>10 DEF Sm!FwCommand

(* Every step keeps the types, in a crashed manager too.                   *)
LEMMA ConnType ==
    ASSUME Sm!ConnAssumption, Sm!ConnTypeOK, Sm!Next
    PROVE  Sm!ConnTypeOK'
<1> USE DEF Sm!ConnTypeOK, Sm!TypeOK, Sm!Busy, Sm!drvVars, Sm!krnVars, Sm!cmdVars,
Sm!fwVars
<1>o. Sm!Begin => c_ops' \in 0..ConnOps
  BY DEF Sm!Begin, Sm!ConnAssumption
<1>1. CASE Sm!Call
  <2> USE DEF Sm!Send, Sm!Goto, Sm!Commands
  <2>1. CASE Sm!OpenBegin \/ Sm!ConnectIgnored \/ Sm!CloseBegin
    BY <1>o, <2>1 DEF Sm!OpenBegin, Sm!ConnectIgnored, Sm!CloseBegin
  <2>2. CASE Sm!Disconnect \/ Sm!ExternalAuth
    BY <1>o, <2>2 DEF Sm!Disconnect, Sm!ExternalAuth
  <2>3. ASSUME NEW k \in Kinds, Sm!ConnectBegin(k) PROVE Sm!ConnTypeOK'
    <3>1. /\ c_ops' \in 0..ConnOps /\ isRoam' \in BOOLEAN
          /\ conn' \in {"ROAMING", "CONNECTING"}
          /\ UNCHANGED <<c_up, inTable, c_ap, extAuth, carrier, kconn, Sm!fwVars, rxWait, c_crashed>>
      BY <1>o, <2>3 DEF Sm!ConnectBegin
    <3>2. c_cmd' \in Sm!Commands \cup {"none"} /\ c_reply' \in {"none", "ok", "BUSY", "error"}
          /\ c_pc' \in {"idle", "open", "connect", "disconnect", "close.settle",
                      "close.leave", "close.removed"}
          /\ owed' \in {"none", "asked", "ignored"} /\ wants' \in BOOLEAN
      BY <2>3 DEF Sm!ConnectBegin
    <3> QED BY <3>1, <3>2
  <2> QED BY <1>1, <2>1, <2>2, <2>3 DEF Sm!Call
<1>2. CASE Sm!UserStep
  BY <1>2 DEF Sm!UserStep, Sm!OpenAdded, Sm!ConnectEnd, Sm!DisconnectEnd,
    Sm!CloseDisconnect, Sm!CloseLeft, Sm!CloseRemoved,
     Sm!At, Sm!Send, Sm!Goto, Sm!KeepsEntry, Sm!Commands
<1>3. CASE Sm!Rx
  <2>1. MsgTaken
    BY <1>3 DEF Sm!Rx, Sm!RxConfirm, Sm!RxConnectInd, Sm!RxDisconnectInd,
      Sm!RxExternalAuth, Sm!Receive, MsgTaken
  <2>2. c_inds' \in Seq(Sm!Message) /\ Head(c_inds) \in Sm!Message
    BY <2>1, MsgTakenFacts DEF MsgTaken
  <2>3. CASE Sm!RxConfirm
    <3>1. Head(c_inds).m = "cfm" => Head(c_inds).r \in {"ok", "BUSY"}
      BY <2>2 DEF Sm!Message
    <3> QED BY <2>2, <2>3, <3>1 DEF Sm!RxConfirm, Sm!Receive
  <2>4. CASE Sm!RxConnectInd
    <3>1. Head(c_inds).m = "connect" => Head(c_inds).ok \in BOOLEAN
      BY <2>2 DEF Sm!Message
    <3>2. /\ c_ap' \in BOOLEAN /\ carrier' \in BOOLEAN /\ extAuth' \in BOOLEAN /\ isRoam' \in BOOLEAN
      BY <2>4, <3>1 DEF Sm!RxConnectInd, Sm!Receive
    <3> QED BY <2>2, <2>4, <3>2 DEF Sm!RxConnectInd, Sm!Receive
  <2>5. CASE Sm!RxDisconnectInd
    <3>1. /\ carrier' \in BOOLEAN /\ c_ap' \in BOOLEAN /\ extAuth' \in BOOLEAN
          /\ kconn' \in {"idle", "connected"}
          /\ conn' \in Sm!Busy \cup {"DISCONNECTED", "CONNECTED", "ROAMING"}
      BY <2>5 DEF Sm!RxDisconnectInd, Sm!AfterLoss
    <3>2. UNCHANGED <<c_up, inTable, isRoam, owed, wants, Sm!cmdVars, c_ops, fw, fwRoam>>
      BY <2>5 DEF Sm!RxDisconnectInd, Sm!Receive
    <3> QED BY <2>2, <3>1, <3>2
  <2>6. CASE Sm!RxExternalAuth
    <3>1. rxWait' \in BOOLEAN /\ extAuth' \in BOOLEAN
      BY <2>6 DEF Sm!RxExternalAuth
    <3>2. UNCHANGED <<conn, c_up, inTable, c_ap, isRoam, carrier, Sm!krnVars, c_pc, c_cmd, c_reply, c_crashed, c_ops, fw, fwRoam>>
      BY <2>6 DEF Sm!RxExternalAuth, Sm!Receive
    <3> QED BY <2>2, <3>1, <3>2
  <2> QED BY <1>3, <2>3, <2>4, <2>5, <2>6 DEF Sm!Rx
<1>i. /\ Sm!DisconnectInd(TRUE) \in Sm!Message /\ Sm!DisconnectInd(FALSE) \in Sm!Message
      /\ Sm!ConnectInd(FALSE) \in Sm!Message /\ Sm!ConnectInd(TRUE) \in Sm!Message /\ [m |-> "authreq"] \in Sm!Message
  BY DEF Sm!ConnectInd, Sm!DisconnectInd, Sm!Message
<1>a. \A e \in Sm!Message : Sm!Ind(e) => c_inds' \in Seq(Sm!Message)
  BY DEF Sm!Ind
<1>4. CASE Sm!RxTimeout
  <2>1. c_inds' \in Seq(Sm!Message)
    BY <1>4, <1>i, <1>a DEF Sm!RxTimeout
  <2>2. rxWait' \in BOOLEAN /\ c_crashed' \in BOOLEAN /\ fw' \in {"none", "idle", "joining", "auth", "up"}
    BY <1>4 DEF Sm!RxTimeout
  <2>3. UNCHANGED <<Sm!drvVars, Sm!krnVars, c_pc, c_cmd, c_reply, fwRoam, c_ops>>
    BY <1>4 DEF Sm!RxTimeout
  <2> QED BY <2>1, <2>2, <2>3
<1>5. CASE Sm!Timeout
  BY <1>5 DEF Sm!Timeout
<1>6. CASE Sm!FwCommand
  <2>1. Sm!Confirm(c_cmd, "ok") \in Sm!Message /\ Sm!Confirm(c_cmd, "BUSY") \in Sm!Message
    <3>1. c_cmd \in Sm!Commands
      BY <1>6 DEF Sm!FwCommand
    <3> QED BY <3>1 DEF Sm!Confirm, Sm!Message
  <2>2. c_inds' \in Seq(Sm!Message)
    <3>1. \A S : \A x \in S : <<x>> \in Seq(S) /\ <<>> \in Seq(S)
      OBVIOUS
    <3>2. \A S : \A x, y \in Seq(S) : x \o y \in Seq(S)
      OBVIOUS
    <3>3. c_inds \o <<Sm!Confirm(c_cmd, "ok")>> \in Seq(Sm!Message)
      BY <2>1, <3>1, <3>2, Zenon
    <3>4. /\ <<Sm!DisconnectInd(FALSE)>> \in Seq(Sm!Message) /\ <<Sm!ConnectInd(FALSE)>> \in Seq(Sm!Message)
          /\ <<Sm!DisconnectInd(TRUE)>> \in Seq(Sm!Message) /\ <<[m |-> "authreq"]>> \in Seq(Sm!Message)
          /\ <<>> \in Seq(Sm!Message)
      BY <1>i, <3>1, Zenon
    <3>5. CASE \E e \in Sm!Message : Sm!Ind(e)
      BY <1>a, <3>5
    <3>6. CASE c_inds' = c_inds \o <<Sm!Confirm(c_cmd, "ok")>>
                \o (CASE fw = "up" -> <<Sm!DisconnectInd(FALSE)>>
                      [] fw \in {"joining", "auth"} -> <<Sm!ConnectInd(FALSE)>>
                      [] OTHER -> <<>>)
      <4>1. (CASE fw = "up" -> <<Sm!DisconnectInd(FALSE)>>
                [] fw \in {"joining", "auth"} -> <<Sm!ConnectInd(FALSE)>>
                [] OTHER -> <<>>) \in Seq(Sm!Message)
        BY <3>4
      <4> QED BY <3>2, <3>3, <3>6, <4>1, Zenon
    <3>7. CASE c_inds' = c_inds \o <<Sm!Confirm(c_cmd, "ok")>>
                      \o (IF fw = "up" THEN <<Sm!DisconnectInd(TRUE)>> ELSE <<>>)
                      \o (IF c_cmd = "sae" THEN <<[m |-> "authreq"]>> ELSE <<>>)
      <4>1. /\ (IF fw = "up" THEN <<Sm!DisconnectInd(TRUE)>> ELSE <<>>) \in Seq(Sm!Message)
            /\ (IF c_cmd = "sae" THEN <<[m |-> "authreq"]>> ELSE <<>>) \in Seq(Sm!Message)
        BY <3>4, Zenon
      <4> QED BY <3>2, <3>3, <3>7, <4>1, Zenon
    <3> QED BY <1>6, <2>1, <3>5, <3>6, <3>7, Zenon DEF Sm!FwCommand
  <2>3. fw' \in {"none", "idle", "joining", "auth", "up"} /\ fwRoam' \in BOOLEAN
    BY <1>6 DEF Sm!FwCommand
  <2> QED BY <1>6, <2>2, <2>3 DEF Sm!FwCommand
<1>7. CASE Sm!FwJoined \/ Sm!FwLost
  <2>1. c_inds' \in Seq(Sm!Message)
    BY <1>7, <1>i, <1>a DEF Sm!FwJoined, Sm!FwLost
  <2> QED BY <1>7, <2>1 DEF Sm!FwJoined, Sm!FwLost
<1> QED BY <1>1, <1>2, <1>3, <1>4, <1>5, <1>6, <1>7 DEF Sm!Next, Sm!Firmware

(* The invariant is kept by every step of the connection.                  *)
LEMMA ConnStep ==
    ASSUME Sm!ConnAssumption, Sm!ConnInv, [Sm!Next]_Sm!vars
    PROVE  Sm!ConnInv'
<1>1. CASE UNCHANGED Sm!vars
  <2> USE <1>1 DEF Sm!vars, Sm!drvVars, Sm!krnVars, Sm!cmdVars, Sm!fwVars
  <2>1. Sm!ConnTypeOK'
    BY DEF Sm!ConnInv, Sm!ConnTypeOK, Sm!TypeOK
  <2>2. c_crashed' = c_crashed /\ c_inds' = c_inds /\ fw' = fw
    OBVIOUS
  <2> USE <2>2 DEF Sm!Cfmd, Sm!CfmdJoin, Sm!LinkUp, Sm!LinkDown, Sm!Result, Sm!Left,
  Sm!Unlinked, Sm!Ended, Sm!Joins, Sm!Linked
  <2>3. Sm!OneCommand => Sm!OneCommand'
    BY DEF Sm!OneCommand
  <2>4. Sm!Presence => Sm!Presence'
    BY DEF Sm!Presence
  <2>5. Sm!Alternate => Sm!Alternate'
    BY DEF Sm!Alternate
  <2>6. Sm!JoinEnds => Sm!JoinEnds'
    BY DEF Sm!JoinEnds
  <2>7. Sm!Known => Sm!Known'
    BY DEF Sm!Known
  <2>8. Sm!Wanted => Sm!Wanted'
    BY DEF Sm!Wanted
  <2> QED BY <2>1, <2>3, <2>4, <2>5, <2>6, <2>7, <2>8 DEF Sm!ConnInv
<1>2. CASE Sm!Next
  <2>1. Sm!ConnTypeOK'
    BY <1>2, ConnType DEF Sm!ConnInv
  <2>2. ASSUME ~c_crashed' PROVE ConnSound'
    <3>1. ~c_crashed /\ ~Sm!RxTimeout /\ ~Sm!Timeout
      <4>1. Sm!RxTimeout \/ Sm!Timeout => c_crashed'
        BY DEF Sm!RxTimeout, Sm!Timeout
      <4>2. Sm!Call \/ Sm!UserStep => c_crashed' = c_crashed
        BY DEF Sm!Call, Sm!UserStep, Sm!OpenBegin, Sm!ConnectIgnored, Sm!Disconnect,
          Sm!ExternalAuth, Sm!CloseBegin,
    Sm!ConnectBegin, Sm!OpenAdded, Sm!ConnectEnd, Sm!DisconnectEnd,
    Sm!CloseDisconnect, Sm!CloseLeft,
    Sm!CloseRemoved, Sm!cmdVars, Sm!Send, Sm!Goto
      <4>3. Sm!Rx => c_crashed' = c_crashed
        BY DEF Sm!Rx, Sm!RxConfirm, Sm!RxConnectInd, Sm!RxDisconnectInd,
          Sm!RxExternalAuth, Sm!cmdVars
      <4>4. Sm!Firmware \/ Sm!FwLost => c_crashed' = c_crashed
        BY DEF Sm!Firmware, Sm!FwCommand, Sm!FwJoined, Sm!FwLost, Sm!cmdVars
      <4> QED BY <1>2, <2>2, <4>1, <4>2, <4>3, <4>4 DEF Sm!Next
    <3>2. Sm!ConnTypeOK /\ ConnSound
      BY <3>1 DEF Sm!ConnInv, ConnSound
    <3> QED BY <1>2, <3>1, <3>2, ConnUser, ConnRx, ConnJoin, ConnCommand DEF Sm!Next,
              Sm!Firmware
  <2> QED BY <2>1, <2>2 DEF Sm!ConnInv, ConnSound
<1> QED BY <1>1, <1>2

(* The invariant holds of an interface that was never opened.              *)
LEMMA ConnInit ==
    ASSUME Sm!ConnAssumption, Sm!Init
    PROVE  Sm!ConnInv
<1> USE DEF Sm!Init
<1>1. Sm!ConnTypeOK
  <2>1. c_inds \in Seq(Sm!Message)
    OBVIOUS
  <2>2. c_ops \in 0..ConnOps
    BY DEF Sm!ConnAssumption
  <2> QED BY <2>1, <2>2 DEF Sm!ConnTypeOK, Sm!TypeOK, Sm!Busy
<1>2. DOMAIN c_inds = {}
  OBVIOUS
<1>3. Sm!OneCommand /\ Sm!Presence
  BY <1>2 DEF Sm!OneCommand, Sm!Presence, Sm!Sends
<1>4. Sm!Alternate /\ Sm!JoinEnds
  BY <1>2 DEF Sm!Alternate, Sm!JoinEnds
<1>5. ~Sm!Linked
  BY <1>2 DEF Sm!Linked
<1>6. Sm!Known /\ Sm!Wanted
  BY <1>2, <1>5 DEF Sm!Known, Sm!Wanted, Sm!Joins
<1> QED BY <1>1, <1>3, <1>4, <1>6 DEF Sm!ConnInv

(* What the handlers rely on, and the agreement of the views, follow.      *)
LEMMA ConnShows ==
    ASSUME Sm!ConnAssumption, Sm!ConnInv
    PROVE  Sm!HandlerSafe /\ Sm!ViewsAgree
<1>1. Sm!HandlerSafe
  <2> SUFFICES ASSUME c_inds # <<>>, ~c_crashed
               PROVE  /\ Head(c_inds).m \in {"disconnect", "authreq"} => inTable
                      /\ Head(c_inds).m = "disconnect" /\ conn # "DISCONNECTED" => c_ap
    BY DEF Sm!HandlerSafe
  <2>1. 1 \in DOMAIN c_inds /\ Head(c_inds) = c_inds[1] /\ \A j \in DOMAIN c_inds : ~(j < 1)
    BY DEF Sm!ConnInv, Sm!ConnTypeOK
  <2>2. Head(c_inds).m \in {"disconnect", "authreq"} => inTable
    BY <2>1 DEF Sm!ConnInv, Sm!Presence, Sm!Cfmd
  <2>3. Head(c_inds).m = "disconnect" => Sm!Linked
    BY <2>1 DEF Sm!Linked, Sm!LinkDown
  <2> QED BY <2>2, <2>3 DEF Sm!ConnInv, Sm!Known
<1>2. Sm!ViewsAgree
  <2> SUFFICES ASSUME c_inds = <<>>, c_pc = "idle", fw \in {"none", "idle", "up"}, ~c_crashed
               PROVE  /\ (kconn = "connected") = (fw = "up")
                      /\ carrier = (fw = "up")
                      /\ c_up /\ conn = "CONNECTED" => fw = "up"
                      /\ fw = "up" => conn # "DISCONNECTED"
    BY DEF Sm!ViewsAgree
  <2>1. DOMAIN c_inds = {}
    OBVIOUS
  <2>2. Sm!Linked <=> fw = "up"
    BY <2>1 DEF Sm!Linked
  <2>3. conn = "DISCONNECTING" => fw # "up"
    BY DEF Sm!ConnInv, Sm!Wanted, Sm!OneCommand
  <2>4. ~Sm!Joins
    BY DEF Sm!Joins
  <2>5. /\ kconn = "connected" => fw = "up" 
        /\ carrier => fw = "up"
        /\ c_up /\ conn = "CONNECTED" => fw = "up"
        /\ fw = "up" => conn # "DISCONNECTED"
    BY <2>1, <2>2, <2>4 DEF Sm!ConnInv, Sm!Known
  <2>6. fw = "up" => kconn # "idle" /\ carrier
    BY <2>2, <2>3 DEF Sm!ConnInv, Sm!Known
  <2> QED BY <2>5, <2>6 DEF Sm!ConnInv, Sm!ConnTypeOK, Sm!TypeOK
<1> QED BY <1>1, <1>2

(* A success that is reported is one that user space still wants.          *)
LEMMA ConnReported ==
    ASSUME Sm!ConnAssumption, Sm!ConnInv, [Sm!Next]_Sm!vars
    PROVE  Sm!Reported => wants \/ c_crashed
<1> SUFFICES ASSUME Sm!Reported, ~c_crashed, ~wants PROVE FALSE
  BY DEF Sm!ConnInv, Sm!ConnTypeOK
<1>1. Sm!RxConnectInd /\ inTable /\ Head(c_inds).ok
  BY DEF Sm!Reported, Sm!vars, Sm!krnVars, Sm!Next, Sm!Call, Sm!UserStep, Sm!Rx,
    Sm!Firmware, Sm!RxTimeout, Sm!Timeout,
    Sm!OpenBegin, Sm!ConnectIgnored, Sm!Disconnect, Sm!ExternalAuth, Sm!CloseBegin,
    Sm!ConnectBegin, Sm!OpenAdded, Sm!ConnectEnd, Sm!DisconnectEnd,
    Sm!CloseDisconnect, Sm!CloseLeft,
    Sm!CloseRemoved, Sm!RxConfirm, Sm!RxConnectInd, Sm!RxDisconnectInd,
    Sm!RxExternalAuth, Sm!FwCommand, Sm!FwJoined, Sm!FwLost
<1>2. conn # "DISCONNECTING" /\ kconn = "idle"
  BY <1>1 DEF Sm!Reported, Sm!RxConnectInd, Sm!Overtaken, Sm!krnVars
<1>3. 1 \in DOMAIN c_inds /\ Sm!LinkUp(1)
  BY <1>1 DEF Sm!RxConnectInd, Sm!Receive, Sm!LinkUp, Sm!ConnInv, Sm!ConnTypeOK
<1> QED BY <1>2, <1>3 DEF Sm!ConnInv, Sm!Wanted

(* A handler of the firmware's connection messages finds the interface in  *)
(* the table and its AP (rwnx_rx_sm_disconnect_ind and                     *)
(* rwnx_rx_sm_external_auth_required_ind use both untested), and once      *)
(* every message is handled the kernel, the carrier and drv_conn_state     *)
(* say what the firmware says, in every behaviour of the connection.       *)
THEOREM ConnViews ==
    ASSUME Sm!ConnAssumption
    PROVE  Sm!Spec => [](Sm!HandlerSafe /\ Sm!ViewsAgree)
<1>1. Sm!Init => Sm!ConnInv
  BY ConnInit
<1>2. Sm!ConnInv /\ [Sm!Next]_Sm!vars => Sm!ConnInv'
  BY ConnStep
<1>3. Sm!ConnInv => Sm!HandlerSafe /\ Sm!ViewsAgree
  BY ConnShows
<1> QED BY <1>1, <1>2, <1>3, PTL DEF Sm!Spec

(* The steps of the host run are steps of the connection, or leave it      *)
(* alone.                                                                  *)
LEMMA HostConnStep == [MCNext]_allVars => [Sm!Next]_Sm!vars
  BY DEF MCNext, InSm, InApm, InDfs, allVars, smVars, Sm!vars, Sm!drvVars,
         Sm!krnVars, Sm!cmdVars, Sm!fwVars

(* The same for the behaviours of the host run: whatever user space, the   *)
(* firmware and the receive thread do in turn, the handlers are safe and   *)
(* the views of the connection agree when the queue is empty.              *)
THEOREM HostConnectionAgrees == MCSpec => []ConnectionAgrees
<1>1. MCInit => Sm!Init
  BY DEF MCInit
<1>3. Sm!HandlerSafe /\ Sm!ViewsAgree => ConnectionAgrees
  BY DEF ConnectionAgrees
<1>4. Sm!ConnAssumption
  BY HostAssumption
<1> QED
  BY <1>1, <1>3, <1>4, HostConnStep, ConnViews, PTL DEF MCSpec, Sm!Spec

(* rwnx_rx_sm_connect_ind never reports a success to cfg80211 that user    *)
(* space has taken back: a disconnection that overtakes it keeps it from   *)
(* the kernel, unless a crashed command manager lost the disconnection.    *)
THEOREM HostConnectionWanted == MCSpec => ConnectionWanted
<1>1. MCInit => Sm!ConnInv
  BY ConnInit, HostAssumption DEF MCInit
<1>2. Sm!ConnInv /\ [MCNext]_allVars => Sm!ConnInv'
  BY ConnStep, HostConnStep, HostAssumption
<1>3. Sm!ConnInv /\ [MCNext]_allVars =>
        [InSm(Sm!Reported) => wants \/ c_crashed]_smVars
  BY ConnReported, HostConnStep, HostAssumption DEF InSm
<1> QED BY <1>1, <1>2, <1>3, PTL DEF MCSpec, ConnectionWanted
=============================================================================
