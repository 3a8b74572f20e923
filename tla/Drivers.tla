------------------------------ MODULE Drivers -------------------------------
(***************************************************************************)
(* The two device drivers that the main program and the keyboard interrupt *)
(* both call: the network card's and the disk's.  They share nothing, so a *)
(* behaviour exercises one of them, its subject.                           *)
(***************************************************************************)
EXTENDS Rtl8139, Disk

VARIABLE subject

driversVars == <<subject, rtlVars, diskVars>>

DriversInit ==
    /\ subject \in {"network", "disk"}
    /\ RtlInit /\ DiskInit
    /\ subject = "disk" => ~present
    /\ subject = "network" => platter[0].text = "blank"

UsesNetwork(A) == subject = "network" /\ A /\ UNCHANGED <<subject, diskVars>>

DriversNext ==
    \/ UsesNetwork(RtlNext)
    \/ subject = "disk" /\ DiskNext /\ UNCHANGED <<subject, rtlVars>>

\* The main loop polls after every timer interrupt; a ping polls a bounded number
\* of times.
FairSpec ==
    /\ DriversInit /\ [][DriversNext]_driversVars
    /\ WF_driversVars(UsesNetwork(net_poll("main")))
    /\ WF_driversVars(UsesNetwork(net_poll("irq")))
    /\ SF_driversVars(UsesNetwork(PingEnds))
=============================================================================
