------------------------------ MODULE MCNocMesh ------------------------------
(* noc_mesh with 3x2 tiles: one header makes its way from any tile to any  *)
(* other, or the four tiles in a corner send to each other under load.     *)
EXTENDS MeshWalk, NocMesh

VARIABLE instance

Corner == {n \in Node : n[1] < 2 /\ n[2] < 2}

Opposite(n) == <<1 - n[1], 1 - n[2]>>

(* Every tile of the corner sends to the opposite one, so that the worms   *)
(* in the square of four routers make all the turns there are; one may     *)
(* send to its neighbour instead, so that packets compete for a tile.      *)
CrossTraffic == {<<n, Opposite(n)>> : n \in Corner} \cup {<<<<1, 1>>, <<0, 1>>>>}

(* One tile sends a stream of two packets.                                 *)
OneStream == [n \in Node |-> IF n = <<1, 0>> THEN 2 ELSE 1]

(* The numbers of the nodes are distinct, so that a routing table has one  *)
(* entry for each destination.                                             *)
ASSUME NodenumsDistinct == \A m, n \in Node : nodenum(m) = nodenum(n) => m = n

MCInit ==
  /\ instance \in {"load", "walk"}
  /\ instance = "load" => src = <<0, 0>> /\ dest = <<0, 0>>
  /\ Init /\ MeshInit

(* The header has arrived: nothing is left to do.                          *)
Arrived == channel = <<dest, "LOCAL">> /\ UNCHANGED vars

MCNext ==
  \/ instance = "load" /\ MeshNext /\ UNCHANGED <<instance, vars>>
  \/ instance = "walk" /\ (Next \/ Arrived) /\ UNCHANGED <<instance, meshvars>>

(* The fairness of NocMesh, for its part.                                  *)
MCFairness ==
  WF_meshvars(instance = "load" /\ (\/ \E n \in Senders : Continue(n)
                                   \/ \E n \in Node : Receive(n)
                                   \/ \E c \in Channel : Forward(c)))

MCSpec == MCInit /\ [][MCNext]_<<instance, vars, meshvars>> /\ MCFairness
=============================================================================
