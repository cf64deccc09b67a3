----------------------------- MODULE MCNocDemux -----------------------------
(* The instances of noc_demux in networkadapter_ct: class 0 goes to the    *)
(* message passing endpoint, class 1 to DMA, and the others are not mapped.*)
EXTENDS NocDemux

(* Three bits.                                                             *)
ClassBits == 0 .. 7

AdapterMapping == [class \in Class |-> CASE class = 0 -> {0} [] class = 1 -> {1} [] OTHER -> {}]
=============================================================================
