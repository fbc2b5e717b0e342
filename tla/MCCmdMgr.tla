------------------------------ MODULE MCCmdMgr ------------------------------
(* The command manager for TLC, with three sets of requests: one of each   *)
(* kind that is confirmed; one that is confirmed and one that is not; and  *)
(* requests deferred by force, on a bus that stays up and with callers     *)
(* nobody kills, with calls enough to use up the array.                    *)
EXTENDS CmdMgr, TLC

CONSTANTS
    a, b, buf, q1, defer, force, direct,
    Few, Many           \* bounds on the calls: a few, or to use up the array

VARIABLE setup          \* "kinds", "direct" or "pool"

MCReqId == [r \in Requests |-> CASE r = q1 -> "idQ" [] r = buf -> "idB"
                                 [] r = defer -> "idD" [] OTHER -> "idF"]

(* The callers are interchangeable.                                        *)
CallerSymmetry == Permutations(Callers)

MCInit == setup \in {"kinds", "direct", "pool"} /\ Init

MCSend(c) ==
    \/ /\ setup = "kinds" /\ sends < Few
       /\ \E r \in {buf, q1, defer} : SendMsg(c, r)
    \/ /\ setup = "direct" /\ sends < Few
       /\ \E r \in {q1, direct} : SendMsg(c, r)
    \/ /\ setup = "pool" /\ sends < Many
       /\ SendMsg(c, force)

MCNext ==
    /\ fault = "none"
    /\ (\E c \in Callers : MCSend(c)) \/ Served
    /\ setup = "pool" => usb' = "UP" /\ loose' = {}
    /\ UNCHANGED setup

MCSpec == MCInit /\ [][MCNext]_<<setup, vars>>
=============================================================================
