-------------------------------- MODULE Conn --------------------------------
(***************************************************************************)
(* The connection of a station interface: rwnx_cfg80211_connect,           *)
(* disconnect and external_auth, the parts of rwnx_open and rwnx_close     *)
(* that concern it (rwnx_main.c), and the handlers of the firmware's       *)
(* connection messages (rwnx_msg_rx.c), around drv_conn_state.             *)
(*                                                                         *)
(* The operations of user space on the interface are serialised by the     *)
(* kernel; the receive thread runs between any two of their steps.  A step *)
(* is the code between two commands; the receive thread handles a message  *)
(* in one step, except where a handler sends a command itself.             *)
(***************************************************************************)
EXTENDS Integers, Sequences

CONSTANTS
    MaxOps,     \* bound on the operations of user space
    Cfm,        \* what the firmware may answer to SM_CONNECT_REQ
    Kinds       \* connections asked for: "open", "sae", "sae_noext"

ConnAssumption ==
    /\ MaxOps \in Nat
    /\ Cfm \subseteq {"OK", "BUSY"} /\ "OK" \in Cfm
    /\ Kinds \subseteq {"open", "sae", "sae_noext"}

VARIABLES
    conn,       \* vif->drv_conn_state
    up,         \* vif->up
    inTable,    \* vif_table[vif->vif_index] = vif
    ap,         \* vif->sta.ap # NULL
    isRoam,     \* vif->sta.is_roam
    extAuth,    \* vif->sta.external_auth
    carrier,    \* netif_carrier_ok
    kconn,      \* kernel: what cfg80211 was told, "idle" or "connected"
    owed,       \* a connect that returned 0 and has no result: "none",
                \*   "asked" of the firmware, "ignored"
    wants,      \* the last that user space asked for was to connect
    pc,         \* where the operation of user space is
    cmd,        \* its command, until it is confirmed
    reply,      \* "none", "ok", "BUSY" or "error"
    rxWait,     \* the receive thread waits for a confirmation
    crashed,    \* the command manager is CRASHED
    inds,       \* messages from the firmware, in order
    fw,         \* firmware: "none", "idle", "joining", "auth", "up"
    fwRoam,     \* firmware: the join is a reassociation
    ops         \* operations so far

drvVars == <<conn, up, inTable, ap, isRoam, extAuth, carrier>>
krnVars == <<kconn, owed, wants>>
cmdVars == <<pc, cmd, reply, rxWait, crashed>>
fwVars == <<inds, fw, fwRoam>>
vars == <<drvVars, krnVars, cmdVars, fwVars, ops>>

Busy == {"CONNECTING", "DISCONNECTING"}

Init ==
    /\ conn = "DISCONNECTED" /\ up = FALSE /\ inTable = FALSE
    /\ ap = FALSE /\ isRoam = FALSE /\ extAuth = FALSE /\ carrier = FALSE
    /\ kconn = "idle" /\ owed = "none" /\ wants = FALSE
    /\ pc = "idle" /\ cmd = "none" /\ reply = "none"
    /\ rxWait = FALSE /\ crashed = FALSE
    /\ inds = <<>> /\ fw = "none" /\ fwRoam = FALSE
    /\ ops = 0

-----------------------------------------------------------------------------
(* A command of user space's thread; a crashed manager refuses it.         *)
Send(c, where) ==
    /\ pc' = where
    /\ cmd' = IF crashed THEN "none" ELSE c
    /\ reply' = IF crashed THEN "error" ELSE "none"
    /\ UNCHANGED <<rxWait, crashed>>

Goto(where) ==
    /\ pc' = where /\ cmd' = "none" /\ reply' = "none"
    /\ UNCHANGED <<rxWait, crashed>>

Begin == pc = "idle" /\ ops < MaxOps /\ ops' = ops + 1
At(where) == pc = where /\ reply # "none"

-----------------------------------------------------------------------------
(* rwnx_open, as far as the connection goes.                               *)
OpenBegin ==
    /\ ~up
    /\ Begin
    /\ conn' = "DISCONNECTED"
    /\ Send("add", "open")
    /\ UNCHANGED <<up, inTable, ap, isRoam, extAuth, carrier, krnVars, fwVars>>

OpenAdded ==
    /\ At("open")
    /\ up' = (reply = "ok") /\ inTable' = (reply = "ok")
    /\ carrier' = FALSE
    /\ Goto("idle")
    /\ UNCHANGED <<conn, ap, isRoam, extAuth, krnVars, fwVars, ops>>

(* The early return of rwnx_cfg80211_connect, with the value 0.            *)
BusyReturn == conn \in Busy

(* rwnx_cfg80211_connect.                                                  *)
ConnectIgnored ==
    /\ up
    /\ Begin
    /\ BusyReturn
    /\ isRoam' = FALSE
    /\ owed' = IF owed = "asked" THEN owed ELSE "ignored"
    /\ UNCHANGED <<conn, up, inTable, ap, extAuth, carrier, kconn, wants,
                   cmdVars, fwVars>>

(* (User space asks again only when it has the result of its last.)        *)
ConnectBegin(k) ==
    /\ up /\ owed # "asked"
    /\ Begin
    /\ ~BusyReturn
    /\ isRoam' = (conn = "CONNECTED")
    /\ conn' = IF conn = "CONNECTED" THEN "ROAMING" ELSE "CONNECTING"
    /\ \/ k = "sae_noext" /\ UNCHANGED <<cmdVars, owed, wants>>
       \/ /\ k # "sae_noext"
          /\ Send(k, "connect")
          /\ owed' = "asked" /\ wants' = TRUE
    /\ UNCHANGED <<up, inTable, ap, extAuth, carrier, kconn, fwVars>>

(* Any answer but CO_OK is an error; the state is left as it was set.      *)
ConnectEnd ==
    /\ At("connect")
    /\ owed' = IF reply = "ok" THEN owed ELSE "none"
    /\ Goto("idle")
    /\ UNCHANGED <<drvVars, kconn, wants, fwVars, ops>>

(* rwnx_cfg80211_disconnect; without a connection it returns -EBUSY.       *)
Disconnect ==
    /\ up
    /\ Begin
    /\ conn \in {"CONNECTED", "CONNECTING", "ROAMING"}
    /\ conn' = "DISCONNECTING"
    /\ owed' = "none" /\ wants' = FALSE
    /\ Send("disconnect", "disconnect")
    /\ UNCHANGED <<up, inTable, ap, isRoam, extAuth, carrier, kconn, fwVars>>

DisconnectEnd ==
    /\ At("disconnect")
    /\ Goto("idle")
    /\ UNCHANGED <<drvVars, krnVars, fwVars, ops>>

(* rwnx_cfg80211_external_auth, once user space has run SAE.               *)
ExternalAuth ==
    /\ up /\ extAuth
    /\ Begin
    /\ extAuth' = FALSE
    /\ Send("authrsp", "disconnect")
    /\ UNCHANGED <<conn, up, inTable, ap, isRoam, carrier, krnVars, fwVars>>

-----------------------------------------------------------------------------
(* rwnx_close waits a bounded time for a connection on its way ...         *)
CloseBegin ==
    /\ up
    /\ Begin
    /\ Goto("close.settle")
    /\ UNCHANGED <<drvVars, krnVars, fwVars>>

(* ... disconnects, and waits a bounded time again ...                     *)
CloseDisconnect ==
    /\ pc = "close.settle"
    /\ \/ /\ conn = "CONNECTED"
          /\ conn' = "DISCONNECTING"
          /\ Send("disconnect", "close.leave")
       \/ /\ conn # "CONNECTED"
          /\ Send("remove", "close.removed")
          /\ UNCHANGED conn
    /\ UNCHANGED <<up, inTable, ap, isRoam, extAuth, carrier, krnVars, fwVars,
                   ops>>

(* Mutant: the table is cleared before the firmware has let go.            *)
ForgetsEarly == inTable' = FALSE

(* The entry of vif_table stays until the removal is confirmed.            *)
KeepsEntry == UNCHANGED inTable

CloseLeft ==
    /\ At("close.leave")
    /\ Send("remove", "close.removed")
    /\ KeepsEntry
    /\ UNCHANGED <<conn, up, ap, isRoam, extAuth, carrier, krnVars, fwVars,
                   ops>>

(* ... and tells the kernel if the carrier is still there.  (For user      *)
(* space an interface that is down is not connected, told or not.)         *)
CloseRemoved ==
    /\ At("close.removed")
    /\ up' = FALSE /\ inTable' = FALSE
    /\ carrier' = FALSE
    /\ kconn' = "idle"
    /\ owed' = "none" /\ wants' = FALSE
    /\ Goto("idle")
    /\ UNCHANGED <<conn, ap, isRoam, extAuth, fwVars, ops>>

-----------------------------------------------------------------------------
(* The firmware, as the driver uses it (external).  A disconnection of a   *)
(* join under way ends the join; a reassociation leaves the old AP first;  *)
(* nothing is sent for an interface after its removal is confirmed.        *)

Ind(s) == inds' = Append(inds, s)
Confirm(c, r) == [m |-> "cfm", of |-> c, r |-> r]
ConnectInd(ok) == [m |-> "connect", ok |-> ok, roamed |-> fwRoam]
DisconnectInd(re) == [m |-> "disconnect", reassoc |-> re]

FwCommand ==
    /\ cmd # "none"
    /\ \A i \in DOMAIN inds : inds[i].m # "cfm"
    /\ \/ cmd = "add" /\ fw' = "idle" /\ fwRoam' = FALSE
          /\ Ind(Confirm(cmd, "ok"))
       \/ cmd = "remove" /\ fw' = "none" /\ Ind(Confirm(cmd, "ok"))
          /\ UNCHANGED fwRoam
       \/ /\ cmd \in Kinds
          /\ \/ /\ "BUSY" \in Cfm
                /\ Ind(Confirm(cmd, "BUSY"))
                /\ UNCHANGED <<fw, fwRoam>>
             \/ /\ fwRoam' = (fw = "up")
                /\ fw' = IF cmd = "sae" THEN "auth" ELSE "joining"
                /\ inds' = inds \o <<Confirm(cmd, "ok")>>
                      \o (IF fw = "up" THEN <<DisconnectInd(TRUE)>> ELSE <<>>)
                      \o (IF cmd = "sae" THEN <<[m |-> "authreq"]>> ELSE <<>>)
       \/ /\ cmd = "disconnect"
          /\ fw' = IF fw = "none" THEN fw ELSE "idle"
          /\ inds' = inds \o <<Confirm(cmd, "ok")>>
                \o (CASE fw = "up" -> <<DisconnectInd(FALSE)>>
                      [] fw \in {"joining", "auth"} -> <<ConnectInd(FALSE)>>
                      [] OTHER -> <<>>)
          /\ UNCHANGED fwRoam
       \/ /\ cmd = "authrsp"
          /\ fw' = IF fw = "auth" THEN "joining" ELSE fw
          /\ Ind(Confirm(cmd, "ok"))
          /\ UNCHANGED fwRoam
    /\ UNCHANGED <<drvVars, krnVars, cmdVars, ops>>

(* A join ends.                                                            *)
FwJoined ==
    /\ fw \in {"joining", "auth"}
    /\ \/ /\ fw' = "idle" /\ Ind(ConnectInd(FALSE))
       \/ /\ fw = "joining"
          /\ fw' = "up" /\ Ind(ConnectInd(TRUE))
    /\ fwRoam' = FALSE
    /\ UNCHANGED <<drvVars, krnVars, cmdVars, ops>>

(* The AP goes away.                                                       *)
FwLost ==
    /\ fw = "up"
    /\ fw' = "idle" /\ Ind(DisconnectInd(FALSE))
    /\ UNCHANGED <<drvVars, krnVars, cmdVars, fwRoam, ops>>

-----------------------------------------------------------------------------
(* The receive thread.                                                     *)

Receive(m) ==
    /\ ~rxWait
    /\ inds # <<>> /\ Head(inds).m = m
    /\ inds' = Tail(inds)
    /\ UNCHANGED <<fw, fwRoam>>

(* The confirmation of a command that is no longer waited for is dropped.  *)
RxConfirm ==
    /\ Receive("cfm")
    /\ \/ /\ cmd = Head(inds).of
          /\ reply' = Head(inds).r /\ cmd' = "none"
       \/ cmd # Head(inds).of /\ UNCHANGED <<reply, cmd>>
    /\ UNCHANGED <<drvVars, krnVars, pc, rxWait, crashed, ops>>

(* Mutant: a success is reported although the driver disconnects.          *)
NotOvertaken(ok) == FALSE

(* Mutant: an answer is taken only while the driver connects.              *)
OnlyConnecting(ok) == conn # "CONNECTING"

(* A success that a disconnection has overtaken is not reported.           *)
Overtaken(ok) == ok /\ conn = "DISCONNECTING"

(* rwnx_rx_sm_connect_ind.                                                 *)
RxConnectInd ==
    LET ok == Head(inds).ok IN
    /\ Receive("connect")
    /\ \/ ~inTable /\ UNCHANGED <<drvVars, krnVars>>
       \/ /\ inTable
          /\ extAuth' = FALSE
          /\ isRoam' = FALSE
          /\ ap' = (ap \/ ok)
          /\ \/ /\ Overtaken(ok)
                /\ UNCHANGED <<conn, carrier, krnVars>>
             \/ /\ ~Overtaken(ok)
                /\ conn' = IF ok THEN "CONNECTED" ELSE "DISCONNECTED"
                /\ carrier' = (carrier \/ ok)
                /\ kconn' = IF ok THEN "connected" ELSE "idle"
                /\ owed' = "none" /\ UNCHANGED wants
          /\ UNCHANGED <<up, inTable>>
    /\ UNCHANGED <<cmdVars, ops>>

(* A disconnection for a reassociation is not reported.                    *)
Reports(reassoc) == ~reassoc

(* Mutant: the state stays.                                                *)
AfterLossKept == conn

(* The state after a disconnection: a roaming interface is still roaming.  *)
AfterLoss == IF isRoam THEN conn ELSE "DISCONNECTED"

(* rwnx_rx_sm_disconnect_ind.                                              *)
RxDisconnectInd ==
    /\ Receive("disconnect")
    /\ \/ conn = "DISCONNECTED" /\ UNCHANGED <<drvVars, krnVars>>
       \/ /\ conn # "DISCONNECTED"
          /\ carrier' = (carrier /\ ~up)
          /\ \/ /\ up /\ Reports(Head(inds).reassoc)
                /\ kconn' = "idle" /\ UNCHANGED <<owed, wants>>
             \/ /\ ~(up /\ Reports(Head(inds).reassoc))
                /\ UNCHANGED krnVars
          /\ ap' = FALSE
          /\ extAuth' = FALSE
          /\ conn' = AfterLoss
          /\ UNCHANGED <<up, inTable, isRoam>>
    /\ UNCHANGED <<cmdVars, ops>>

(* rwnx_rx_sm_external_auth_required_ind: user space is asked; if that     *)
(* fails, the refusal is sent from the receive thread, which then waits    *)
(* for a confirmation that only it could handle.                           *)
RxExternalAuth ==
    /\ Receive("authreq")
    /\ \/ extAuth' = TRUE /\ UNCHANGED rxWait
       \/ rxWait' = ~crashed /\ UNCHANGED extAuth
    /\ UNCHANGED <<conn, up, inTable, ap, isRoam, carrier, krnVars, pc, cmd,
                   reply, crashed, ops>>

(* Its command times out; the firmware has the refusal and ends the join.  *)
RxTimeout ==
    /\ rxWait
    /\ rxWait' = FALSE /\ crashed' = TRUE
    /\ \/ fw = "auth" /\ fw' = "idle" /\ Ind(ConnectInd(FALSE))
       \/ fw # "auth" /\ UNCHANGED <<fw, inds>>
    /\ UNCHANGED <<drvVars, krnVars, pc, cmd, reply, fwRoam, ops>>

(* A command of user space times out only while nobody handles messages.   *)
Timeout ==
    /\ cmd # "none" /\ rxWait
    /\ cmd' = "none" /\ reply' = "error" /\ crashed' = TRUE
    /\ UNCHANGED <<drvVars, krnVars, pc, rxWait, fwVars, ops>>

-----------------------------------------------------------------------------
UserStep == \/ OpenAdded \/ ConnectEnd \/ DisconnectEnd
            \/ CloseDisconnect \/ CloseLeft \/ CloseRemoved
Call == \/ OpenBegin \/ ConnectIgnored \/ Disconnect \/ ExternalAuth
        \/ CloseBegin \/ \E k \in Kinds : ConnectBegin(k)
Rx == RxConfirm \/ RxConnectInd \/ RxDisconnectInd \/ RxExternalAuth
Firmware == FwCommand \/ FwJoined

Next == Call \/ UserStep \/ Rx \/ RxTimeout \/ Timeout \/ Firmware \/ FwLost

Spec == Init /\ [][Next]_vars

(* The threads run, a wait for a confirmation ends by its timeout, and the *)
(* firmware answers commands and ends the joins it began.                  *)
FairSpec ==
    /\ Spec
    /\ WF_vars(UserStep) /\ WF_vars(Rx) /\ WF_vars(RxTimeout)
    /\ WF_vars(FwCommand) /\ WF_vars(FwJoined)

-----------------------------------------------------------------------------
TypeOK ==
    /\ conn \in Busy \cup {"DISCONNECTED", "CONNECTED", "ROAMING"}
    /\ {up, inTable, ap, isRoam, extAuth, carrier, rxWait, crashed,
        fwRoam} \subseteq BOOLEAN
    /\ kconn \in {"idle", "connected"}
    /\ owed \in {"none", "asked", "ignored"}
    /\ fw \in {"none", "idle", "joining", "auth", "up"}
    /\ ops \in 0 .. MaxOps

(* rwnx_rx_sm_disconnect_ind uses vif_table[vif_idx] and sta.ap without a  *)
(* test: when it runs the interface is in the table and, unless the driver *)
(* is already disconnected, it has an AP.  The external authentication     *)
(* handler uses the interface untested as well.                            *)
HandlerSafe ==
    inds # <<>> /\ ~crashed =>
        /\ Head(inds).m \in {"disconnect", "authreq"} => inTable
        /\ Head(inds).m = "disconnect" /\ conn # "DISCONNECTED" => ap

(* Once every message has been handled, cfg80211, the carrier and the      *)
(* driver's state say whether the station is connected: just when the      *)
(* firmware is.  (With a crashed command manager it cannot be told.)       *)
ViewsAgree ==
    inds = <<>> /\ pc = "idle" /\ fw \in {"none", "idle", "up"} /\ ~crashed =>
        /\ (kconn = "connected") = (fw = "up")
        /\ carrier = (fw = "up")
        /\ up /\ conn = "CONNECTED" => fw = "up"
        /\ fw = "up" => conn # "DISCONNECTED"

(* A connect that the firmware accepted gets its result, or is ended by    *)
(* user space.                                                             *)
AcceptedAnswered == owed = "asked" ~> owed # "asked"

(* User space is told of a connection only if that is the last it asked    *)
(* for: after it has asked to disconnect, whatever the firmware still      *)
(* sends is kept from it (unless a crashed manager lost the disconnection). *)
Reported == kconn = "idle" /\ kconn' = "connected"
ReportedWanted == [][Reported => wants \/ crashed]_vars

(* "When connected, call cfg80211_connect_result() ... If the connection   *)
(* fails for some reason, call cfg80211_connect_result()": a connect that  *)
(* returned 0 gets its result, or is ended by user space.                  *)
ConnectAnswered == owed # "none" ~> owed = "none"

-----------------------------------------------------------------------------
(* What holds of the messages on their way, of which the above follows.    *)
Commands == Kinds \cup {"add", "remove", "disconnect", "authrsp"}
Message ==
    [m : {"cfm"}, of : Commands, r : {"ok", "BUSY"}]
    \cup [m : {"connect"}, ok : BOOLEAN, roamed : BOOLEAN]
    \cup [m : {"disconnect"}, reassoc : BOOLEAN] \cup [m : {"authreq"}]

ConnTypeOK ==
    /\ TypeOK /\ inds \in Seq(Message) /\ wants \in BOOLEAN
    /\ cmd \in Commands \cup {"none"}
    /\ reply \in {"none", "ok", "BUSY", "error"}
    /\ pc \in {"idle", "open", "connect", "disconnect", "close.settle",
               "close.leave", "close.removed"}

Cfmd(i) == inds[i].m = "cfm"
CfmdJoin(i) == Cfmd(i) /\ inds[i].of \in Kinds
LinkUp(i) == inds[i].m = "connect" /\ inds[i].ok
LinkDown(i) == inds[i].m = "disconnect"
Result(i) == inds[i].m = "connect"
Left(i) == LinkDown(i) /\ inds[i].reassoc          \* the old AP, to roam
Unlinked(i) == LinkDown(i) \/ (Result(i) /\ ~inds[i].ok)
Ended(i) == Result(i) \/ (LinkDown(i) /\ ~inds[i].reassoc)
Joins == fw \in {"joining", "auth"}

(* The commands of an operation, and what may be on its way for them.      *)
Sends(where) ==
    CASE where = "open" -> {"add"}
      [] where = "connect" -> Kinds
      [] where = "disconnect" -> {"disconnect", "authrsp"}
      [] where = "close.leave" -> {"disconnect"}
      [] where = "close.removed" -> {"remove"}
      [] OTHER -> {}

OneCommand ==
    /\ pc \in {"idle", "close.settle"} => cmd = "none"
    /\ pc = "close.settle" => reply = "none"
    /\ pc \notin {"idle", "close.settle"} =>
         \/ cmd \in Sends(pc) /\ reply = "none"
         \/ cmd = "none" /\ reply \in {"ok", "BUSY"} /\ (pc # "connect" => reply = "ok")
    /\ \A i \in DOMAIN inds : Cfmd(i) =>
         /\ cmd # "none" /\ inds[i].of = cmd
         /\ cmd \notin Kinds => inds[i].r = "ok"
    /\ \A i, j \in DOMAIN inds : Cfmd(i) /\ Cfmd(j) => i = j

(* The interface in the firmware.                                          *)
Presence ==
    /\ up = inTable
    /\ ~up => /\ pc \in {"idle", "open"} /\ kconn = "idle" /\ ~carrier
              /\ pc = "idle" => fw = "none" /\ inds = <<>>
    /\ pc = "open" => /\ ~up /\ fw \in {"none", "idle"} /\ conn = "DISCONNECTED"
                      /\ fw = "none" => inds = <<>> /\ reply = "none"
                      /\ \A i \in DOMAIN inds : Cfmd(i)
    /\ up /\ pc # "close.removed" => fw # "none"
    /\ pc = "close.removed" /\ reply = "ok" => fw = "none" /\ inds = <<>>
    /\ \A i \in DOMAIN inds : Cfmd(i) /\ cmd = "remove" => fw = "none" /\ i = Len(inds)

(* A link goes up and down in turn; a join that failed ends unlinked.      *)
Alternate ==
    /\ \A i, j \in DOMAIN inds : LinkUp(i) /\ LinkUp(j) /\ i < j =>
         \E k \in DOMAIN inds : i < k /\ k < j /\ LinkDown(k)
    /\ \A i, j \in DOMAIN inds : Unlinked(i) /\ LinkDown(j) /\ i < j =>
         \E k \in DOMAIN inds : i < k /\ k < j /\ LinkUp(k)
    /\ \A i \in DOMAIN inds : Unlinked(i) /\ fw = "up" =>
         \E k \in DOMAIN inds : i < k /\ LinkUp(k)
    /\ \A i \in DOMAIN inds : LinkUp(i) /\ fw \notin {"up", "none"} =>
         \E k \in DOMAIN inds : i < k /\ LinkDown(k)

(* A join ends once, and the next one has been confirmed.                  *)
JoinEnds ==
    /\ \A i, j \in DOMAIN inds : Ended(i) /\ LinkUp(j) /\ i < j =>
         \E k \in DOMAIN inds : i < k /\ k < j /\ CfmdJoin(k)
    /\ \A i \in DOMAIN inds : Ended(i) /\ Joins =>
         \E k \in DOMAIN inds : i < k /\ CfmdJoin(k)
    /\ \A i \in DOMAIN inds : Left(i) =>
         /\ i > 1 => CfmdJoin(i - 1)
         /\ \/ Joins \/ fw = "none"
            \/ \E k \in DOMAIN inds : i < k /\ Result(k)

(* As far as its messages have been handled, the link is up.               *)
Linked ==
    \/ \E i \in DOMAIN inds : LinkDown(i) /\ \A j \in DOMAIN inds : j < i => ~LinkUp(j)
    \/ fw = "up" /\ \A i \in DOMAIN inds : ~LinkUp(i)

(* What the driver and the kernel know of it.  A success that a            *)
(* disconnection has overtaken is known to neither.                        *)
Known ==
    /\ Linked => ap /\ conn # "DISCONNECTED"
    /\ Linked /\ (kconn = "idle" \/ ~carrier) =>
         /\ conn = "DISCONNECTING"
         /\ \A i \in DOMAIN inds : Left(i) => \E j \in DOMAIN inds : j < i /\ LinkUp(j)
    /\ carrier => Linked \/ pc = "close.removed"
    /\ kconn = "connected" =>
         \/ Linked \/ Joins \/ pc = "close.removed"
         \/ \E i \in DOMAIN inds : Result(i)
    /\ up /\ conn = "CONNECTED" => Linked \/ pc = "close.removed"
    /\ isRoam => conn # "CONNECTED"

(* A disconnection under way ends the link, and a connection that user     *)
(* space no longer wants has no success on its way.                        *)
Wanted ==
    /\ pc = "connect" => conn # "DISCONNECTING" /\ wants
    /\ conn = "DISCONNECTING" =>
         \/ cmd = "disconnect" /\ \A i \in DOMAIN inds : ~Cfmd(i)
         \/ /\ fw \in {"idle", "none"}
            /\ \A i \in DOMAIN inds : LinkUp(i) =>
                 \E k \in DOMAIN inds : i < k /\ Cfmd(k)
    /\ ~wants /\ kconn = "idle" /\ conn # "DISCONNECTING" =>
         ~Joins /\ \A i \in DOMAIN inds : ~LinkUp(i)

ConnInv ==
    /\ ConnTypeOK
    /\ ~crashed => OneCommand /\ Presence /\ Alternate /\ JoinEnds /\ Known /\ Wanted
=============================================================================
