------------------------- MODULE MCCollectorTrigger -------------------------
(***************************************************************************)
(* Regions of at most two units, a threshold of two and one more for each  *)
(* collection, and three signals: one while the program starts, and one    *)
(* while another is on its way.                                            *)
(***************************************************************************)
EXTENDS CollectorTrigger
=============================================================================
