----------------------------- MODULE MCNocRouter -----------------------------
(* noc_router on two small instances: two inputs and two outputs with one  *)
(* virtual channel, and two inputs whose two virtual channels share the    *)
(* link of one output.                                                     *)
EXTENDS NocRouter

VARIABLE instance

(* Each destination has its own output.                                    *)
OneToOne == [d \in Dest |-> d % OUTPUTS]

OneOutput == [d \in {0} |-> 0]

Shared == INSTANCE NocRouter WITH
  INPUTS <- 2, OUTPUTS <- 1, VCHANNELS <- 2, DESTS <- 1, ROUTES <- OneOutput,
  BUFFER_SIZE_IN <- 0, BUFFER_SIZE_OUT <- 0, Lengths <- {2}, Packets <- 1

MCInit ==
  \/ instance = "crossing" /\ Init
  \/ instance = "shared" /\ Shared!Init

MCNext ==
  \/ instance = "crossing" /\ Next /\ UNCHANGED instance
  \/ instance = "shared" /\ Shared!Next /\ UNCHANGED instance

MCSpec == MCInit /\ [][MCNext]_<<vars, instance>>

(* "Packets are preserved in the network": on every output lane the flits  *)
(* of a packet arrive together, from the first to the last, and no other   *)
(* packet's flit comes between, also where virtual channels share a link;  *)
(* "packets in one stream leave the network in the same order as they      *)
(* entered it."  (noc_router_output, noc_mux, noc_router_lookup_slice)     *)
RouterPreservesPackets ==
  IF instance = "crossing" THEN PacketsPreserved /\ StrictOrdering ELSE Shared!PacketsPreserved

(* Every flit leaves at the output that the header of its packet selects,  *)
(* on the virtual channel it came in on: inside a worm an empty input      *)
(* buffer does not end the worm, and flits that wait in the slice are for  *)
(* the output of their packet.  (noc_router_lookup, its slice)             *)
RouterFollowsHeader ==
  IF instance = "crossing" THEN RoutedByHeader /\ WormSurvivesEmptyBuffer /\ SliceHoldsItsPacket
  ELSE Shared!RoutedByHeader /\ Shared!WormSurvivesEmptyBuffer /\ Shared!SliceHoldsItsPacket

(* When the senders have finished their packets and the receivers have     *)
(* taken all flits there are, a flit that is still inside moves on.        *)
(* (noc_router_lookup_slice, noc_router_output)                            *)
RouterNeverStuck == instance = "crossing" => NeverStuck
=============================================================================
