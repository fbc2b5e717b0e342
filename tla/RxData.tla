------------------------------- MODULE RxData -------------------------------
(***************************************************************************)
(* The receive path of a frame from the USB thread to the network stack:   *)
(* rwnx_rxdataind_aicwf of rwnx_rx.c with what it calls, the monitor and   *)
(* management branches, A-MSDUs, the forwarding decision of an access      *)
(* point and the reassembly of fragments with its timer.  What happens to  *)
(* a frame handed to the reordering is in RxReorder.tla.                   *)
(*                                                                         *)
(* One thread handles one frame at a time, so a frame is one step; timers  *)
(* and the opening and closing of interfaces come in between.  The socket  *)
(* buffer of the frame is number 0, those made on the way are 1, 2, ...;   *)
(* Uses counts how often each is freed or handed on.                       *)
(*                                                                         *)
(* Fragments carry their origin.  The sequence numbers of different        *)
(* senders are assumed distinct while both have a fragment pending: the    *)
(* code looks a fragment up by sequence number, TID and destination        *)
(* (2591-2601), not by its sender.                                         *)
(***************************************************************************)
EXTENDS Integers, Sequences, SequencesExt, FiniteSets

CONSTANTS
  Senders,    \* transmitters of fragmented frames
  MaxFrag,    \* fragments of a frame
  MaxMsdu     \* bound: fragmented frames of a sender

RxDataAssumption == MaxFrag \in Nat \ {0} /\ MaxMsdu \in Nat

VARIABLES
  type,       \* wdev.iftype: "STA" or "AP"
  vifUp,      \* rwnx_rx_get_vif finds the interface
  monUp,      \* ... and the monitor interface
  list,       \* rwnx_hw->defrag_list
  tx,         \* environment: the frame each sender is sending
  last        \* ghost: what became of the last frame

vars == <<type, vifUp, monUp, list, tx, last>>

(* The outcome of a frame: uses of each buffer, the fragments put together *)
(* for the stack, and the reason if a buffer is known to be lost.          *)
Outcome(uses, out, leak) == [uses |-> uses, out |-> out, leak |-> leak]
Once == Outcome(<<1>>, <<>>, "")

-----------------------------------------------------------------------------
(***************************** Whole data frames ***************************)

(* Whether a frame to dst is sent on to a station of the access point and  *)
(* whether it goes to the stack (504-529, 2846-2876).                      *)
Resend(dst) == type = "AP" /\ dst \in {"mcast", "sta"}
Forward(dst) == ~(type = "AP" /\ dst = "sta")

(* rwnx_rxdata_process_amsdu: the frame is freed, a buffer is made for     *)
(* each part until an allocation fails.                                    *)
Parts(f, made) == SubSeq(f.dst, 1, made)

(* rwnx_rx_data_skb: uses of the buffers it is given, and what it returns. *)
Delivered(dst) == [i \in DOMAIN dst |-> IF Forward(dst[1]) THEN 1 ELSE 0]

(* A station (2785-2805).  Frames of a block ack session go to the         *)
(* reordering, which needs a free recv_msdu.                               *)
StationFrame(f, room, made) ==
  IF f.qos /\ f.reord THEN Once
  ELSE IF f.amsdu THEN Outcome(<<1>> \o Delivered(Parts(f, made)), <<>>, "")
  ELSE Outcome([i \in {1} |-> IF Forward(f.dst[1]) THEN Delivered(f.dst)[1] ELSE 1], <<>>, "")

(* An access point (2806-2955): what happens to one part.  pframe says     *)
(* whether the frame has a recv_msdu already.                              *)
ApPartKept(f, dst) ==
  (IF Forward(dst) THEN 1 ELSE 0) +
  (IF ~Forward(dst) /\ f.qos THEN 1 ELSE 0)

ApPart(f, dst) ==
  (IF Forward(dst) THEN 1 ELSE 0) +                   \* stack or reordering
  (IF ~Forward(dst) /\ Resend(dst) THEN 1 ELSE 0)     \* freed or reordering

(* Without room for a recv_msdu the part at hand is freed and the function *)
(* returns: the parts behind it are lost.                                  *)
ApFrame(f, room, made) ==
  LET parts == IF f.amsdu THEN Parts(f, made) ELSE f.dst
      full == f.qos /\ f.reord /\ ~room /\ parts # <<>>
      uses == [i \in DOMAIN parts |-> IF ~full THEN ApPart(f, parts[i])
                                      ELSE IF i = 1 THEN 1 ELSE 0]
  IN Outcome(IF f.amsdu THEN <<1>> \o uses ELSE uses, <<>>,
             IF full /\ Len(parts) > 1 THEN "no recv_msdu" ELSE "")

Whole(f, room, made) ==
  IF ~vifUp THEN Once
  ELSE IF type = "STA" THEN StationFrame(f, room, made) ELSE ApFrame(f, room, made)

-----------------------------------------------------------------------------
(***************************** Other frames ********************************)

(* Lines 2277-2385: a monitored frame goes to the monitor interface only;  *)
(* a copy is made when there is no room for the radiotap header.           *)
Monitored(f, copied) ==
  IF ~monUp THEN Outcome(<<0>>, <<>>, "no monitor interface")
  ELSE IF f.roomy THEN Once
  ELSE IF copied THEN Outcome(<<1, 1>>, <<>>, "") ELSE Once

(* What is neither for a monitor nor for the host is not freed (2423).     *)
NotUploaded == Outcome(<<0>>, <<>>, "not uploaded")

(* Four-address frames are dropped (2429-2443); management frames are      *)
(* given to cfg80211 and freed (963-986).                                  *)
OtherFrame(f, copied) ==
  CASE f.kind = "monitor" -> Monitored(f, copied)
    [] f.kind = "silent" -> NotUploaded
    [] f.kind \in {"fouraddr", "mgmt"} -> Once

-----------------------------------------------------------------------------
(******************************** Fragments ********************************)

(* A fragment: sender, number of the frame, place in it, more to come.     *)
Key(g) == <<g.src, g.n>>            \* sequence number, TID, destination
Pending(g) == {i \in 1..Len(list) : list[i].key = Key(g)}
EntryOf(g) == CHOOSE i \in Pending(g) : TRUE

(* MOREFRAG set (2596-2671): the first fragment seen opens an entry and    *)
(* starts its timer, the next ones are copied to the buffer in order.      *)
NewEntryUntimed(g) == [key |-> Key(g), frags |-> <<g>>, next_fn |-> 1, timer |-> FALSE]
NewEntry(g) == [key |-> Key(g), frags |-> <<g>>, next_fn |-> 1, timer |-> TRUE]

AppendedAnyway(e, g) ==
  [e EXCEPT !.frags = Append(@, g), !.next_fn = @ + 1]

Appended(e, g) ==
  IF e.next_fn # g.fn THEN e
  ELSE [e EXCEPT !.frags = Append(@, g), !.next_fn = @ + 1]

MoreFrag(g, memory) ==
  /\ list' = IF Pending(g) # {} THEN [list EXCEPT ![EntryOf(g)] = Appended(@, g)]
             ELSE IF memory THEN Append(list, NewEntry(g)) ELSE list
  /\ last' = Once

(* The last fragment (2672-2728): in order, it completes the frame, which  *)
(* goes to rwnx_rx_data_skb whatever the reordering; while the interface   *)
(* is away its data is appended, but the entry waits on.  With no entry it *)
(* is handled like a whole frame.                                          *)
LastFrag(g, f, room) ==
  IF Pending(g) = {}
  THEN UNCHANGED list /\ last' = Whole(f, room, 0)
  ELSE LET i == EntryOf(g)
           e == Appended(list[i], g)
       IN IF e = list[i] THEN UNCHANGED list /\ last' = Once
          ELSE IF ~vifUp
          THEN /\ list' = [list EXCEPT ![i] = [e EXCEPT !.next_fn = @ - 1]]
               /\ last' = Once
          ELSE /\ list' = RemoveAt(list, i)
               /\ last' = Outcome(<<1>> \o (IF Forward(f.dst[1]) THEN Delivered(f.dst) ELSE <<1>>),
                                  e.frags, "")

(* defrag_timeout_cb of the entry with key k. *)
DefragTimeout(k) ==
  /\ \E i \in 1..Len(list) :
       /\ list[i].key = k /\ list[i].timer
       /\ list' = RemoveAt(list, i)
  /\ last' = Once
  /\ UNCHANGED <<type, vifUp, monUp, tx>>

-----------------------------------------------------------------------------
(******************************** Actions **********************************)

Dsts == {"self", "sta", "mcast"}
DataFrame(qos, reord, dst) ==
  [kind |-> "data", qos |-> qos, reord |-> reord, amsdu |-> Len(dst) > 1, dst |-> dst]

(* A whole data frame, one part or an A-MSDU of two.                       *)
RxData ==
  /\ \E qos, reord, room \in BOOLEAN, dst \in SeqOf(Dsts, 2) \ {<<>>} :
       \E made \in 0..Len(dst) : last' = Whole(DataFrame(qos, reord, dst), room, made)
  /\ UNCHANGED <<type, vifUp, monUp, list, tx>>

RxOther ==
  /\ \E k \in {"monitor", "silent", "fouraddr", "mgmt"}, roomy, copied \in BOOLEAN :
       last' = OtherFrame([kind |-> k, roomy |-> roomy], copied)
  /\ UNCHANGED <<type, vifUp, monUp, list, tx>>

(* Sender s begins a frame of some fragments; each next one arrives or is  *)
(* lost on the air.                                                        *)
Begin(s) ==
  /\ tx[s].fn = tx[s].len /\ tx[s].n < MaxMsdu
  /\ \E len \in 2..MaxFrag : tx' = [tx EXCEPT ![s] = [n |-> @.n + 1, fn |-> 0, len |-> len]]
  /\ UNCHANGED <<type, vifUp, monUp, list, last>>

Next1(s) == tx' = [tx EXCEPT ![s].fn = @ + 1]

RxFragment(s) ==
  LET t == tx[s]
      g == [src |-> s, n |-> t.n, fn |-> t.fn, more |-> t.fn < t.len - 1]
  IN /\ t.fn < t.len /\ Next1(s)
     /\ \/ g.more /\ \E memory \in BOOLEAN : MoreFrag(g, memory)
        \/ ~g.more /\ \E qos, room \in BOOLEAN, d \in Dsts :
             LastFrag(g, DataFrame(qos, FALSE, <<d>>), room)
     /\ UNCHANGED <<type, vifUp, monUp>>

Lose(s) ==
  /\ tx[s].fn < tx[s].len /\ Next1(s)
  /\ UNCHANGED <<type, vifUp, monUp, list, last>>

(* Interfaces come and go (rwnx_open, rwnx_close).                         *)
Toggle ==
  /\ \/ vifUp' = ~vifUp /\ UNCHANGED monUp
     \/ monUp' = ~monUp /\ UNCHANGED vifUp
  /\ UNCHANGED <<type, list, tx, last>>

Init ==
  /\ type \in {"STA", "AP"} /\ vifUp = TRUE /\ monUp = FALSE
  /\ list = <<>> /\ last = Once
  /\ tx = [s \in Senders |-> [n |-> 0, fn |-> 0, len |-> 0]]

Keys == Senders \X (1..MaxMsdu)
Next ==
  \/ RxData \/ RxOther \/ Toggle
  \/ \E s \in Senders : Begin(s) \/ RxFragment(s) \/ Lose(s)
  \/ \E k \in Keys : DefragTimeout(k)

(* A timer that was started fires.                                         *)
Spec == Init /\ [][Next]_vars
FairSpec == Spec /\ \A k \in Keys : WF_vars(DefragTimeout(k))

-----------------------------------------------------------------------------
(******************************* Properties ********************************)

(* Every buffer of a frame, the received one and those made on the way, is *)
(* freed or handed on exactly once; on the three paths known to lose a     *)
(* buffer (no monitor interface, not uploaded, no recv_msdu for an A-MSDU) *)
(* none is used twice.                                                     *)
UsedOnce(o) ==
  \A i \in DOMAIN o.uses : IF o.leak = "" THEN o.uses[i] = 1 ELSE o.uses[i] <= 1
SkbOnce == UsedOnce(last)

(* What the reassembly hands to the stack is the fragments of one frame of *)
(* one sender, all of them and in order, whatever was lost, timed out or   *)
(* not stored in between.                                                  *)
WholeFrame(p) ==
  \A i \in DOMAIN p :
    /\ Key(p[i]) = Key(p[1]) /\ p[i].fn = i - 1
    /\ p[i].more <=> i < Len(p)
OnlyWhole == WholeFrame(last.out)

(* The data handler uses a buffer once and hands up only whole frames.     *)
FramesSound == SkbOnce /\ OnlyWhole

(* A frame under reassembly does not stay: it is completed or its timer    *)
(* frees it, also when its sender has gone or the interface was closed.    *)
DefragEnds ==
  \A k \in Keys : (\E i \in 1..Len(list) : list[i].key = k)
                 ~> ~(\E i \in 1..Len(list) : list[i].key = k)

-----------------------------------------------------------------------------
(**************************** Why they hold ********************************)

Fragments == [src : Senders, n : Nat, fn : Nat, more : BOOLEAN]
Entries == [key : Senders \X Nat, frags : Seq(Fragments), next_fn : Nat, timer : BOOLEAN]

RxTypeOK ==
  /\ type \in {"STA", "AP"} /\ vifUp \in BOOLEAN /\ monUp \in BOOLEAN
  /\ list \in Seq(Entries)
  /\ tx \in [Senders -> [n : Nat, fn : Nat, len : Nat]]

(* The sender is past the fragment that entry e waits for ...              *)
Past(e) == \/ tx[e.key[1]].n > e.key[2]
           \/ tx[e.key[1]].fn > e.next_fn

(* ... or e holds the fragments before that one, all of them and in order. *)
InOrder(e) ==
  /\ e.next_fn = Len(e.frags)
  /\ \A i \in 1..Len(e.frags) :
       Key(e.frags[i]) = e.key /\ e.frags[i].fn = i - 1 /\ e.frags[i].more

EntrySound(e) == e.key[2] <= tx[e.key[1]].n /\ (Past(e) \/ InOrder(e))

FramesInv ==
  RxTypeOK /\ FramesSound /\ \A i \in 1..Len(list) : EntrySound(list[i])
=============================================================================
