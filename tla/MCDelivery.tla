----------------------------- MODULE MCDelivery ------------------------------
(***************************************************************************)
(* Delivery with the messages of MCBridge.  No client sends anything, so a *)
(* controller is served like a viewer.                                     *)
(***************************************************************************)
EXTENDS Delivery, MCBridge

MCReaders == [s \in Sessions |-> {"Blocked", "View"}]
=============================================================================
