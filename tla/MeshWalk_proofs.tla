--------------------------- MODULE MeshWalk_proofs ---------------------------
(* XY routing is minimal and free of deadlock in meshes of every size.     *)
EXTENDS MeshWalk, TLAPS

USE MeshAssumption

(* Where a header came from constrains where it can be: in a row channel   *)
(* it has not passed the column of its destination, in a column channel it *)
(* is in that column.                                                      *)
CameBy ==
  \/ channel = Injection
  \/ channel = <<at, "LOCAL">> /\ at = dest
  \/ \E n \in Node :
       \/ channel = <<n, "EAST">> /\ at = <<n[1] + 1, n[2]>> /\ dest[1] >= at[1]
       \/ channel = <<n, "WEST">> /\ at = <<n[1] - 1, n[2]>> /\ dest[1] <= at[1]
       \/ channel = <<n, "NORTH">> /\ at = <<n[1], n[2] + 1>> /\ dest[1] = at[1] /\ dest[2] >= at[2]
       \/ channel = <<n, "SOUTH">> /\ at = <<n[1], n[2] - 1>> /\ dest[1] = at[1] /\ dest[2] <= at[2]

Inv == TypeOK /\ CameBy

(* The five ways a hop can go.                                             *)
LEMMA HopCases ==
  ASSUME Inv, Hop
  PROVE  \/ dest = at /\ channel' = <<at, "LOCAL">> /\ at' = at
         \/ dest[1] = at[1] /\ dest[2] < at[2] /\ channel' = <<at, "SOUTH">> /\ at' = <<at[1], at[2] - 1>>
         \/ dest[1] = at[1] /\ dest[2] > at[2] /\ channel' = <<at, "NORTH">> /\ at' = <<at[1], at[2] + 1>>
         \/ dest[1] < at[1] /\ channel' = <<at, "WEST">> /\ at' = <<at[1] - 1, at[2]>>
         \/ dest[1] > at[1] /\ channel' = <<at, "EAST">> /\ at' = <<at[1] + 1, at[2]>>
<1>1. /\ at = <<at[1], at[2]>> /\ at[1] \in 0 .. X - 1 /\ at[2] \in 0 .. Y - 1
      /\ dest = <<dest[1], dest[2]>> /\ dest[1] \in 0 .. X - 1 /\ dest[2] \in 0 .. Y - 1
  BY DEF Inv, TypeOK, Node
<1> QED BY <1>1 DEF Hop, genroutes, Neighbour

(* The coordinates of the nodes a header deals with.                       *)
LEMMA Coordinates ==
  ASSUME TypeOK
  PROVE  /\ at = <<at[1], at[2]>> /\ at[1] \in 0 .. X - 1 /\ at[2] \in 0 .. Y - 1
         /\ dest = <<dest[1], dest[2]>> /\ dest[1] \in 0 .. X - 1 /\ dest[2] \in 0 .. Y - 1
         /\ src = <<src[1], src[2]>> /\ src[1] \in 0 .. X - 1 /\ src[2] \in 0 .. Y - 1
BY DEF TypeOK, Node

LEMMA Invariance == Spec => []Inv
<1>1. Init => Inv
  BY DEF Init, Inv, TypeOK, CameBy
<1>2. Inv /\ [Next]_vars => Inv'
  <2> SUFFICES ASSUME Inv, [Next]_vars PROVE Inv'
    OBVIOUS
  <2>1. CASE Hop
    <3>1. /\ at = <<at[1], at[2]>> /\ at[1] \in 0 .. X - 1 /\ at[2] \in 0 .. Y - 1
          /\ dest[1] \in 0 .. X - 1 /\ dest[2] \in 0 .. Y - 1
          /\ at \in Node
      BY Coordinates DEF Inv, TypeOK
    <3>2. /\ src' = src /\ dest' = dest
          /\ hops' \in Nat
      BY <2>1 DEF Hop, Inv, TypeOK
    <3>3. CASE dest = at /\ channel' = <<at, "LOCAL">> /\ at' = at
      BY <3>1, <3>2, <3>3 DEF Inv, TypeOK, CameBy, Port
    <3>4. CASE dest[1] = at[1] /\ dest[2] < at[2] /\ channel' = <<at, "SOUTH">> /\ at' = <<at[1], at[2] - 1>>
      <4>1. at' \in Node /\ channel' \in Node \X Port
        BY <3>1, <3>4 DEF Node, Port
      <4>2. CameBy'
        BY <3>1, <3>2, <3>4 DEF CameBy
      <4> QED BY <3>2, <4>1, <4>2 DEF Inv, TypeOK
    <3>5. CASE dest[1] = at[1] /\ dest[2] > at[2] /\ channel' = <<at, "NORTH">> /\ at' = <<at[1], at[2] + 1>>
      <4>1. at' \in Node /\ channel' \in Node \X Port
        BY <3>1, <3>5 DEF Node, Port
      <4>2. CameBy'
        BY <3>1, <3>2, <3>5 DEF CameBy
      <4> QED BY <3>2, <4>1, <4>2 DEF Inv, TypeOK
    <3>6. CASE dest[1] < at[1] /\ channel' = <<at, "WEST">> /\ at' = <<at[1] - 1, at[2]>>
      <4>1. at' \in Node /\ channel' \in Node \X Port
        BY <3>1, <3>6 DEF Node, Port
      <4>2. CameBy'
        BY <3>1, <3>2, <3>6 DEF CameBy
      <4> QED BY <3>2, <4>1, <4>2 DEF Inv, TypeOK
    <3>7. CASE dest[1] > at[1] /\ channel' = <<at, "EAST">> /\ at' = <<at[1] + 1, at[2]>>
      <4>1. at' \in Node /\ channel' \in Node \X Port
        BY <3>1, <3>7 DEF Node, Port
      <4>2. CameBy'
        BY <3>1, <3>2, <3>7 DEF CameBy
      <4> QED BY <3>2, <4>1, <4>2 DEF Inv, TypeOK
    <3> QED BY <2>1, <3>3, <3>4, <3>5, <3>6, <3>7, HopCases
  <2>2. CASE UNCHANGED vars
    BY <2>2 DEF vars, Inv, TypeOK, CameBy
  <2> QED BY <2>1, <2>2 DEF Next
<1> QED BY <1>1, <1>2, PTL DEF Spec

(* The routing tables of genroutes never lead over the border of a mesh.   *)
THEOREM StaysInMesh == Spec => []TypeOK
<1>1. Inv => TypeOK
  BY DEF Inv
<1> QED BY <1>1, Invariance, PTL

(* A packet is only handed to the tile it is for.                          *)
THEOREM ArrivesOnlyAtDest == Spec => []ArrivesAtDest
<1>1. Inv => ArrivesAtDest
  <2> SUFFICES ASSUME Inv, NEW n \in Node, channel = <<n, "LOCAL">>
               PROVE  n = dest
    BY DEF ArrivesAtDest
  <2>1. channel # Injection
    BY DEF Injection
  <2> QED BY <2>1 DEF Inv, CameBy
<1> QED BY <1>1, Invariance, PTL

(* Packets take a shortest way, in meshes of every size.                   *)
THEOREM TakesShortestWay == Spec => []ShortestWay
<1>1. Init => ShortestWay
  <2> SUFFICES ASSUME Init PROVE ShortestWay
    OBVIOUS
  <2>1. Distance(src, dest) \in Int
    BY DEF Init, Distance, Abs, Node
  <2> QED BY <2>1 DEF Init, ShortestWay
<1>2. Inv /\ ShortestWay /\ [Next]_vars => ShortestWay'
  <2> SUFFICES ASSUME Inv, ShortestWay, [Next]_vars PROVE ShortestWay'
    OBVIOUS
  <2>1. CASE Hop
    <3>1. /\ at = <<at[1], at[2]>> /\ at[1] \in Int /\ at[2] \in Int
          /\ dest = <<dest[1], dest[2]>> /\ dest[1] \in Int /\ dest[2] \in Int
          /\ hops \in Nat
      BY Coordinates DEF Inv, TypeOK
    <3>2. src' = src /\ dest' = dest
      BY <2>1 DEF Hop
    <3>3. CASE dest = at
      <4>1. at' = at /\ hops' = hops
        BY <2>1, <3>3 DEF Hop, genroutes, Neighbour
      <4> QED BY <3>2, <4>1 DEF ShortestWay
    <3>4. CASE dest # at
      <4>1. hops' = hops + 1
        BY <2>1, <3>4 DEF Hop, genroutes
      <4>2. Distance(at', dest) = Distance(at, dest) - 1
        BY <2>1, <3>1, <3>4, HopCases DEF Distance, Abs
      <4>3. Distance(at, dest) \in Int /\ Distance(src, dest) \in Int
        BY Coordinates DEF Inv, Distance, Abs
      <4> QED BY <3>1, <3>2, <4>1, <4>2, <4>3 DEF ShortestWay
    <3> QED BY <3>3, <3>4
  <2>2. CASE UNCHANGED vars
    BY <2>2 DEF vars, ShortestWay
  <2> QED BY <2>1, <2>2 DEF Next
<1> QED BY <1>1, <1>2, Invariance, PTL DEF Spec

(* XY routing is free of deadlock: every packet takes the channels in the  *)
(* order of Rank, so no cycle of packets can wait for each other.          *)
THEOREM DeadlockFreeRouting == Spec => ChannelsInOrder
<1>1. Inv /\ [Next]_vars => [Rank(channel') > Rank(channel)]_vars
  <2> SUFFICES ASSUME Inv, Hop PROVE Rank(channel') > Rank(channel)
    BY DEF Next
  <2>1. /\ at = <<at[1], at[2]>> /\ at[1] \in 0 .. X - 1 /\ at[2] \in 0 .. Y - 1
        /\ dest = <<dest[1], dest[2]>> /\ dest[1] \in 0 .. X - 1 /\ dest[2] \in 0 .. Y - 1
        /\ at \in Node
    BY Coordinates DEF Inv, TypeOK
  <2>2. \A n \in Node, d \in Port : <<n, d>> # Injection
    BY DEF Injection
  <2>3. \A n \in Node : /\ n[1] \in 0 .. X - 1 /\ n[2] \in 0 .. Y - 1
                        /\ Rank(<<n, "EAST">>) = n[1] + 1
                        /\ Rank(<<n, "WEST">>) = X - n[1]
                        /\ Rank(<<n, "NORTH">>) = X + n[2] + 1
                        /\ Rank(<<n, "SOUTH">>) = X + Y - n[2]
                        /\ Rank(<<n, "LOCAL">>) = X + Y + 1
    BY <2>2 DEF Rank, Node, Port
  <2>4. Rank(Injection) = 0
    BY DEF Rank
  <2>r. \/ Rank(channel') = X + Y + 1
        \/ dest[1] = at[1] /\ dest[2] < at[2] /\ Rank(channel') = X + Y - at[2]
        \/ dest[1] = at[1] /\ dest[2] > at[2] /\ Rank(channel') = X + at[2] + 1
        \/ dest[1] < at[1] /\ Rank(channel') = X - at[1]
        \/ dest[1] > at[1] /\ Rank(channel') = at[1] + 1
    BY <2>1, <2>3, HopCases, Zenon
  <2>5. CASE channel = Injection
    <3>1. Rank(channel) = 0
      BY <2>4, <2>5
    <3> QED BY <2>1, <2>r, <3>1
  <2>6. CASE channel = <<at, "LOCAL">> /\ at = dest
    BY <2>6 DEF Hop
  <2>7. ASSUME NEW n \in Node, channel = <<n, "EAST">>, at = <<n[1] + 1, n[2]>>, dest[1] >= at[1]
        PROVE  Rank(channel') > Rank(channel)
    <3>1. at[1] = n[1] + 1 /\ at[2] = n[2] /\ Rank(channel) = n[1] + 1
      BY <2>3, <2>7
    <3>2. n[1] \in 0 .. X - 1 /\ n[2] \in 0 .. Y - 1
      BY <2>3
    <3> QED BY <2>1, <2>r, <2>7, <3>1, <3>2
  <2>8. ASSUME NEW n \in Node, channel = <<n, "WEST">>, at = <<n[1] - 1, n[2]>>, dest[1] <= at[1]
        PROVE  Rank(channel') > Rank(channel)
    <3>1. at[1] = n[1] - 1 /\ at[2] = n[2] /\ Rank(channel) = X - n[1]
      BY <2>3, <2>8
    <3>2. n[1] \in 0 .. X - 1 /\ n[2] \in 0 .. Y - 1
      BY <2>3
    <3> QED BY <2>1, <2>r, <2>8, <3>1, <3>2
  <2>9. ASSUME NEW n \in Node, channel = <<n, "NORTH">>, at = <<n[1], n[2] + 1>>,
               dest[1] = at[1], dest[2] >= at[2]
        PROVE  Rank(channel') > Rank(channel)
    <3>1. at[1] = n[1] /\ at[2] = n[2] + 1 /\ Rank(channel) = X + n[2] + 1
      BY <2>3, <2>9
    <3>2. n[1] \in 0 .. X - 1 /\ n[2] \in 0 .. Y - 1
      BY <2>3
    <3> QED BY <2>1, <2>r, <2>9, <3>1, <3>2
  <2>10. ASSUME NEW n \in Node, channel = <<n, "SOUTH">>, at = <<n[1], n[2] - 1>>,
                dest[1] = at[1], dest[2] <= at[2]
         PROVE  Rank(channel') > Rank(channel)
    <3>1. at[1] = n[1] /\ at[2] = n[2] - 1 /\ Rank(channel) = X + Y - n[2]
      BY <2>3, <2>10
    <3>2. n[1] \in 0 .. X - 1 /\ n[2] \in 0 .. Y - 1
      BY <2>3
    <3> QED BY <2>1, <2>r, <2>10, <3>1, <3>2
  <2> QED BY <2>5, <2>6, <2>7, <2>8, <2>9, <2>10 DEF Inv, CameBy
<1> QED BY <1>1, Invariance, PTL DEF Spec, ChannelsInOrder
=============================================================================
