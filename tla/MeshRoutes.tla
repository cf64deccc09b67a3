----------------------------- MODULE MeshRoutes -----------------------------
(***************************************************************************)
(* The topology of noc_mesh: X * Y routers, each with ports LOCAL, NORTH,  *)
(* EAST, SOUTH and WEST, and the routing tables that genroutes computes.   *)
(* A node is its pair of coordinates.                                      *)
(***************************************************************************)
EXTENDS Integers

CONSTANTS X, Y   \* routers per row, and rows

ASSUME MeshAssumption == X \in Nat \ {0} /\ Y \in Nat \ {0}

Node == (0 .. X - 1) \X (0 .. Y - 1)

Port == {"LOCAL", "NORTH", "EAST", "SOUTH", "WEST"}

(* The number of a node: the dest field of a header and the index into the *)
(* routing tables.                                                         *)
nodenum(n) == n[1] + n[2] * X

(* Where the output port d of node n leads, and whether there is a router: *)
(* the ports at the border are tied off.                                   *)
Neighbour(n, d) ==
  CASE d = "NORTH" -> <<n[1], n[2] + 1>>
    [] d = "EAST"  -> <<n[1] + 1, n[2]>>
    [] d = "SOUTH" -> <<n[1], n[2] - 1>>
    [] d = "WEST"  -> <<n[1] - 1, n[2]>>
    [] OTHER       -> n

Wired(n, d) ==
  CASE d = "NORTH" -> n[2] < Y - 1
    [] d = "EAST"  -> n[1] < X - 1
    [] d = "SOUTH" -> n[2] > 0
    [] d = "WEST"  -> n[1] > 0
    [] OTHER       -> TRUE

(* Mutation: rows first in odd columns, columns first in even ones.        *)
genroutes_Mixed(n, dest) ==
  CASE dest = n                               -> "LOCAL"
    [] dest[1] = n[1] /\ dest[2] < n[2]       -> "SOUTH"
    [] dest[1] = n[1] /\ dest[2] > n[2]       -> "NORTH"
    [] n[1] % 2 = 1 /\ dest[2] < n[2]         -> "SOUTH"
    [] n[1] % 2 = 0 /\ dest[2] > n[2]         -> "NORTH"
    [] OTHER -> IF dest[1] < n[1] THEN "WEST" ELSE "EAST"

(* Mutation: off by one, the last column is never entered.                 *)
genroutes_Bounce(n, dest) ==
  CASE dest = n                   -> "LOCAL"
    [] dest[1] = n[1]             -> IF dest[2] < n[2] THEN "SOUTH" ELSE "NORTH"
    [] OTHER -> IF dest[1] < n[1] \/ n[1] = X - 2 THEN "WEST" ELSE "EAST"

(* The entry for dest in the table of node n: along the row first.         *)
genroutes(n, dest) ==
  IF dest = n THEN "LOCAL"
  ELSE IF dest[1] = n[1] THEN (IF dest[2] < n[2] THEN "SOUTH" ELSE "NORTH")
  ELSE IF dest[1] < n[1] THEN "WEST"
  ELSE "EAST"
=============================================================================
