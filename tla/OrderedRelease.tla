--------------------------- MODULE OrderedRelease ---------------------------
(***************************************************************************)
(* What a reordering buffer promises, whatever its window, its timer and   *)
(* its threads are: frames join it, and leave it in the order in which     *)
(* they were sent.  One step takes in at most one frame and lets any       *)
(* number of frames go, lowest first; a frame below one that has left is   *)
(* not taken in any more.  RxReorder.tla is shown to implement this.       *)
(***************************************************************************)
EXTENDS Integers, Sequences

CONSTANTS Lowest, Highest   \* frames are numbered Lowest .. Highest

VARIABLES
    held,       \* frames in the buffer
    out         \* frames that have left it, in order

vars == <<held, out>>

Elements(s) == {s[i] : i \in DOMAIN s}

(* Mutual order of two sets, and of the elements of a sequence.            *)
Below(S, T) == \A a \in S, b \in T : a < b
Increasing(s) == \A i, j \in DOMAIN s : i < j => s[i] < s[j]

Init == held = {} /\ out = <<>>

(* Some of the frames of pool leave, lowest first; the others stay.        *)
Release(pool) ==
    LET new == SubSeq(out', Len(out) + 1, Len(out')) IN
    /\ new \in Seq(pool) /\ Increasing(new)
    /\ out' = out \o new
    /\ held' = pool \ Elements(new)
    /\ Below(Elements(new), held')

Accept(n) ==
    /\ n \notin held /\ Below(Elements(out), {n})
    /\ Release(held \cup {n})

(* The session ends and another begins; what was held is given up.         *)
Restart == held' = {} /\ out' = <<>>

Next == (\E n \in Lowest .. Highest : Accept(n)) \/ Release(held) \/ Restart

Spec == Init /\ [][Next]_vars

-----------------------------------------------------------------------------
(* The frames that have left did so in the order in which they were sent.  *)
InOrder == Increasing(out)

(* A frame that is held can still leave in order.                          *)
HeldAhead == Below(Elements(out), held)
=============================================================================
