---------------------------- MODULE MCRxReorder ----------------------------
(* Reordering for TLC in two setups: one with a frame that arrives twice,  *)
(* the other with a wider window, in which there is room for a second gap  *)
(* behind the first.                                                       *)
EXTENDS RxReorder

Twice == [win |-> 3, gap |-> 5, dups |-> 1]
Gaps == [win |-> 4, gap |-> 4, dups |-> 0]
MCSetups == {Twice, Gaps}

MCSpec ==
    /\ Spec
    /\ WF_vars(setup = Gaps /\ fault = "none" /\ WorkStep /\ UNCHANGED setup)

(* The list is sorted and in the window, and no frame is lost on the way.  *)
ListSound == TypeOK /\ ListInWindow /\ NothingLost

(* No frame is held for ever, whatever gaps there are before it.           *)
GapsGivenUp == setup = Gaps /\ Held ~> Freed

(* The buffer releases frames in order: it implements OrderedRelease, with *)
(* the list as the frames held.  While reord_deinit_sta takes the control  *)
(* block down the abstract buffer has been restarted already.              *)
Ordered == INSTANCE OrderedRelease WITH
             Lowest <- First, Highest <- First + MaxFrames - 1,
             held <- IF dpc = "idle" THEN ToSet(list) ELSE {},
             out <- IF dpc = "idle" THEN out ELSE <<>>

ReleasesInOrder == Ordered!Spec
=============================================================================
