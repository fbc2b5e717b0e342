-------------------------------- MODULE MCRx --------------------------------
(* The receive side of the driver for TLC: in some behaviours data goes    *)
(* through the USB receive path, in others messages and confirmations      *)
(* through the message pipe, in the rest frames through the data handler.  *)
EXTENDS UsbRx, Sequences

CONSTANTS
    MsgQMax, Cnt, Wrap, MaxPushed, MaxMsgs,     \* of MsgRx
    Senders, MaxFrag, MaxMsdu                   \* of RxData

VARIABLES
    which,      \* the part that runs
    m_usb, m_bus, m_free, m_flying, m_trgg, m_hpc, m_spc, m_tpc, m_ppc, m_trouble,
    dropped, msg_rxq, hmsg, tmsg, tx_host_id, free_idx, pushed, fw, msgs, mixed,
    type, vifUp, monUp, list, tx, last

Msg == INSTANCE MsgRx WITH
         QMax <- MsgQMax, MaxFrames <- MaxPushed, usb <- m_usb, bus <- m_bus,
         free <- m_free, flying <- m_flying, trgg <- m_trgg, hpc <- m_hpc,
         spc <- m_spc, tpc <- m_tpc, ppc <- m_ppc, trouble <- m_trouble
Data == INSTANCE RxData
ASSUME MsgAssumption == Msg!MsgRxAssumption
ASSUME DataAssumption == Data!RxDataAssumption

msgVars == <<m_usb, m_bus, m_free, m_flying, m_trgg, m_hpc, m_spc, m_tpc, m_ppc,
             m_trouble, dropped, msg_rxq, hmsg, tmsg, tx_host_id, free_idx, pushed,
             fw, msgs, mixed>>
dataVars == <<type, vifUp, monUp, list, tx, last>>
allVars == <<which, vars, msgVars, dataVars>>
Usb(act) == which = "usb" /\ act
Pipe(act) == which = "pipe" /\ act
Frames(act) == which = "frames" /\ act

MCInit ==
    /\ which \in {"usb", "pipe", "frames"} /\ Init /\ Msg!Init /\ Data!Init
    /\ (which # "frames" => type = "AP")

MCNext ==
    /\ \/ Usb(Next) /\ UNCHANGED <<msgVars, dataVars>>
       \/ Pipe(Msg!Next) /\ UNCHANGED <<vars, dataVars>>
       \/ Frames(Data!Next) /\ UNCHANGED <<vars, msgVars>>
    /\ UNCHANGED which

MCSpec ==
    /\ MCInit /\ [][MCNext]_allVars
    /\ WF_vars(Usb(fault = "none" /\ HandlerStep))
    /\ \A x \in Submitters : WF_vars(Usb(fault = "none" /\ SubmitStep(x)))
    /\ WF_vars(Usb(fault = "none" /\ WorkRun))
    /\ WF_vars(Usb(fault = "none" /\ ThreadStep))
    /\ WF_vars(Usb(fault = "none" /\ PowerStep))
    /\ WF_vars(Usb(fault = "none" /\ ppc = "unplug" /\ RxComplete("error")))
    /\ \A k \in Data!Keys : WF_dataVars(Frames(Data!DefragTimeout(k)))

(* The message pipe: a queued message has a trigger, an idle URB has a     *)
(* context that will submit it, and a confirmation from the firmware is    *)
(* given to the frame it is for.                                           *)
PipeSound == Msg!PipeSound

(* The data handler uses a buffer once and hands up only whole frames.     *)
FramesSound == Data!FramesSound

(* A frame of which fragments are missing is given up in the end.          *)
FragmentsEnd == Data!DefragEnds
=============================================================================
