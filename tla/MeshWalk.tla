------------------------------ MODULE MeshWalk ------------------------------
(***************************************************************************)
(* The way of one packet's header through noc_mesh, hop by hop along the   *)
(* routing tables.  Worms of packets hold one channel and wait for the     *)
(* next of their way; if the channels can be numbered so that every packet *)
(* takes them in increasing order, there is no cycle of worms that wait    *)
(* for each other.                                                         *)
(***************************************************************************)
EXTENDS Integers, MeshRoutes

VARIABLES
  src, dest,  \* where the packet comes from and goes to
  at,         \* the router that reads the header
  channel,    \* the channel it came by, or LOCAL of dest when it has arrived
  hops        \* routers left behind

vars == <<src, dest, at, channel, hops>>

(* A channel is an output port of a router, or the input from a tile.      *)
Injection == <<"tile">>

Init ==
  /\ src \in Node
  /\ dest \in Node
  /\ at = src
  /\ channel = Injection
  /\ hops = 0

Hop ==
  /\ channel # <<at, "LOCAL">>
  /\ LET d == genroutes(at, dest)
     IN  /\ channel' = <<at, d>>
         /\ at' = Neighbour(at, d)
         /\ hops' = IF d = "LOCAL" THEN hops ELSE hops + 1
  /\ UNCHANGED <<src, dest>>

Next == Hop

Spec == Init /\ [][Next]_vars

-----------------------------------------------------------------------------
(* The routing tables never lead over the border of the mesh, where the    *)
(* wires are tied off.                                                     *)
TypeOK ==
  /\ src \in Node /\ dest \in Node /\ at \in Node
  /\ channel \in {Injection} \cup (Node \X Port)
  /\ hops \in Nat

Abs(i) == IF i < 0 THEN -i ELSE i

Distance(m, n) == Abs(m[1] - n[1]) + Abs(m[2] - n[2])

(* Every hop brings the packet closer: it takes a shortest way.            *)
ShortestWay == hops + Distance(at, dest) = Distance(src, dest)

(* A packet is only handed to the tile it is for.                          *)
ArrivesAtDest == \A n \in Node : channel = <<n, "LOCAL">> => n = dest

(* A numbering of the channels: those of the rows in the direction they    *)
(* lead, then those of the columns, then the ones to the tiles.            *)
Rank(c) ==
  IF c = Injection THEN 0
  ELSE CASE c[2] = "EAST"  -> c[1][1] + 1
         [] c[2] = "WEST"  -> X - c[1][1]
         [] c[2] = "NORTH" -> X + c[1][2] + 1
         [] c[2] = "SOUTH" -> X + Y - c[1][2]
         [] OTHER          -> X + Y + 1

(* "Deadlock free XY-routing": every packet takes channels in increasing   *)
(* order, so the channel dependencies have no cycle.                       *)
ChannelsInOrder == [][Rank(channel') > Rank(channel)]_vars
=============================================================================
