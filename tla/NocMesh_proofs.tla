---------------------------- MODULE NocMesh_proofs ----------------------------
(***************************************************************************)
(* noc_mesh preserves packets, for every size of the mesh, every capacity  *)
(* of the channels, and any traffic of packets of any lengths.             *)
(***************************************************************************)
EXTENDS NocMesh, SequenceTheorems, TLAPS

-----------------------------------------------------------------------------
(* Routes.                                                                 *)

(* The channels that the packets from node s to node t pass, in the row of *)
(* s and then in the column of t.                                          *)
OnRoute(c, s, t) ==
  \/ c[2] = "TILE" /\ c[1] = s
  \/ c[2] = "EAST" /\ c[1][2] = s[2] /\ s[1] <= c[1][1] /\ c[1][1] < t[1]
  \/ c[2] = "WEST" /\ c[1][2] = s[2] /\ c[1][1] <= s[1] /\ t[1] < c[1][1]
  \/ c[2] = "NORTH" /\ c[1][1] = t[1] /\ s[2] <= c[1][2] /\ c[1][2] < t[2]
  \/ c[2] = "SOUTH" /\ c[1][1] = t[1] /\ c[1][2] <= s[2] /\ t[2] < c[1][2]
  \/ c[2] = "LOCAL" /\ c[1] = t

Gap(a, b) == IF a <= b THEN b - a ELSE a - b

(* The hops that a flit on channel c has left to the output at tile t.     *)
HopsLeft(c, t) ==
  IF c[2] = "LOCAL" THEN 0
  ELSE Gap(Reader(c)[1], t[1]) + Gap(Reader(c)[2], t[2]) + 1

(* The output that the router at the end of a channel selects.             *)
NextChannel(c, t) == <<Reader(c), genroutes(Reader(c), t)>>

(* A channel is a node and a port.                                         *)
LEMMA ChannelParts ==
  ASSUME NEW c \in Channel
  PROVE  /\ c = <<c[1], c[2]>> /\ c[1] \in Node /\ c[1] = <<c[1][1], c[1][2]>>
         /\ c[1][1] \in 0 .. X - 1 /\ c[1][2] \in 0 .. Y - 1
         /\ c[2] \in Port \cup {"TILE"}
         /\ c[2] = "TILE" \/ Wired(c[1], c[2])
BY DEF Channel, Node

(* A hop stays on the route and leaves one hop less.                       *)
LEMMA RouteStep ==
  ASSUME NEW s \in Node, NEW t \in Node, NEW c \in Channel,
         OnRoute(c, s, t), c[2] # "LOCAL"
  PROVE  /\ NextChannel(c, t) \in Channel
         /\ NextChannel(c, t) # c
         /\ NextChannel(c, t)[2] # "TILE"
         /\ OnRoute(NextChannel(c, t), s, t)
         /\ HopsLeft(NextChannel(c, t), t) = HopsLeft(c, t) - 1
<1> USE MeshAssumption
<1> DEFINE r == Reader(c)
           d == genroutes(r, t)
           o == <<r, d>>
<1>1. /\ c = <<c[1], c[2]>> /\ c[1] = <<c[1][1], c[1][2]>>
      /\ c[1][1] \in 0 .. X - 1 /\ c[1][2] \in 0 .. Y - 1
      /\ s = <<s[1], s[2]>> /\ s[1] \in 0 .. X - 1 /\ s[2] \in 0 .. Y - 1
      /\ t = <<t[1], t[2]>> /\ t[1] \in 0 .. X - 1 /\ t[2] \in 0 .. Y - 1
  BY ChannelParts DEF Node
<1>2. /\ c[2] = "TILE" => r = c[1]
      /\ c[2] = "EAST" => r = <<c[1][1] + 1, c[1][2]>>
      /\ c[2] = "WEST" => r = <<c[1][1] - 1, c[1][2]>>
      /\ c[2] = "NORTH" => r = <<c[1][1], c[1][2] + 1>>
      /\ c[2] = "SOUTH" => r = <<c[1][1], c[1][2] - 1>>
  BY DEF Reader, Neighbour
<1>3. c[2] \in {"TILE", "EAST", "WEST", "NORTH", "SOUTH"}
  BY DEF OnRoute
<1>4. r = <<r[1], r[2]>> /\ r[1] \in 0 .. X - 1 /\ r[2] \in 0 .. Y - 1
  <2> HIDE DEF r
  <2> QED BY <1>1, <1>2, <1>3 DEF OnRoute
<1>5. /\ r = t => d = "LOCAL"
      /\ r[1] < t[1] => d = "EAST"
      /\ t[1] < r[1] => d = "WEST"
      /\ r[1] = t[1] /\ r[2] < t[2] => d = "NORTH"
      /\ r[1] = t[1] /\ t[2] < r[2] => d = "SOUTH"
  <2> HIDE DEF r
  <2> QED BY <1>1, <1>4 DEF genroutes
<1>6. r = t \/ r[1] < t[1] \/ t[1] < r[1]
      \/ (r[1] = t[1] /\ r[2] < t[2]) \/ (r[1] = t[1] /\ t[2] < r[2])
  <2> HIDE DEF r
  <2> QED BY <1>1, <1>4
<1>7. o[1] = r /\ o[2] = d /\ o \in Node \X (Port \cup {"TILE"})
  <2>1. d \in Port
    BY DEF genroutes, Port
  <2>2. r \in Node
    <3> HIDE DEF r
    <3> QED BY <1>4 DEF Node
  <2> QED BY <2>1, <2>2
<1>8. OnRoute(o, s, t) /\ d # "TILE"
  <2> HIDE DEF r, d, o
  <2>1. CASE r = t BY <1>5, <1>7, <2>1 DEF OnRoute
  <2>2. CASE r[1] < t[1]
    BY <1>1, <1>2, <1>3, <1>4, <1>5, <1>7, <2>2 DEF OnRoute
  <2>3. CASE t[1] < r[1]
    BY <1>1, <1>2, <1>3, <1>4, <1>5, <1>7, <2>3 DEF OnRoute
  <2>4. CASE r[1] = t[1] /\ r[2] < t[2]
    BY <1>1, <1>2, <1>3, <1>4, <1>5, <1>7, <2>4 DEF OnRoute
  <2>5. CASE r[1] = t[1] /\ t[2] < r[2]
    BY <1>1, <1>2, <1>3, <1>4, <1>5, <1>7, <2>5 DEF OnRoute
  <2> QED BY <1>6, <2>1, <2>2, <2>3, <2>4, <2>5
<1>9. Wired(o[1], o[2])
  <2> HIDE DEF r, d, o
  <2> QED BY <1>1, <1>4, <1>5, <1>6, <1>7 DEF Wired
<1>10. o \in Channel
  BY <1>7, <1>9 DEF Channel
<1>11. o # c
  <2> HIDE DEF r, d, o
  <2> QED BY <1>1, <1>2, <1>3, <1>7, <1>8
<1>12. HopsLeft(o, t) = HopsLeft(c, t) - 1
  <2>1. HopsLeft(c, t) = Gap(r[1], t[1]) + Gap(r[2], t[2]) + 1
    BY DEF HopsLeft
  <2>2. /\ d = "LOCAL" => HopsLeft(o, t) = 0
        /\ d = "EAST" => HopsLeft(o, t) = Gap(r[1] + 1, t[1]) + Gap(r[2], t[2]) + 1
        /\ d = "WEST" => HopsLeft(o, t) = Gap(r[1] - 1, t[1]) + Gap(r[2], t[2]) + 1
        /\ d = "NORTH" => HopsLeft(o, t) = Gap(r[1], t[1]) + Gap(r[2] + 1, t[2]) + 1
        /\ d = "SOUTH" => HopsLeft(o, t) = Gap(r[1], t[1]) + Gap(r[2] - 1, t[2]) + 1
    <3> HIDE DEF r, d, o
    <3> QED BY <1>7 DEF HopsLeft, Reader, Neighbour
  <2> HIDE DEF r, d, o
  <2> QED BY <1>1, <1>4, <1>5, <1>6, <2>1, <2>2 DEF Gap
<1> QED BY <1>7, <1>8, <1>10, <1>11, <1>12 DEF NextChannel

(* A route has one channel at each distance from its end.                  *)
LEMMA RouteUnique ==
  ASSUME NEW s \in Node, NEW t \in Node, NEW c \in Channel, NEW e \in Channel,
         OnRoute(c, s, t), OnRoute(e, s, t), HopsLeft(c, t) = HopsLeft(e, t)
  PROVE  c = e
<1> USE MeshAssumption
<1>1. /\ s = <<s[1], s[2]>> /\ s[1] \in 0 .. X - 1 /\ s[2] \in 0 .. Y - 1
      /\ t = <<t[1], t[2]>> /\ t[1] \in 0 .. X - 1 /\ t[2] \in 0 .. Y - 1
  BY DEF Node
<1>2. ASSUME NEW a \in Channel, OnRoute(a, s, t)
      PROVE  LET x == a[1][1]
                 y == a[1][2]
                 h == HopsLeft(a, t)
             IN  /\ a = <<<<x, y>>, a[2]>> /\ x \in Int /\ y \in Int
                 /\ a[2] = "LOCAL" => h = 0 /\ x = t[1] /\ y = t[2]
                 /\ a[2] = "TILE" => h = Gap(s[1], t[1]) + Gap(s[2], t[2]) + 1
                                     /\ x = s[1] /\ y = s[2]
                 /\ a[2] = "EAST" => h = t[1] - x + Gap(s[2], t[2])
                                     /\ y = s[2] /\ s[1] <= x /\ x < t[1]
                 /\ a[2] = "WEST" => h = x - t[1] + Gap(s[2], t[2])
                                     /\ y = s[2] /\ x <= s[1] /\ t[1] < x
                 /\ a[2] = "NORTH" => h = t[2] - y /\ x = t[1] /\ s[2] <= y /\ y < t[2]
                 /\ a[2] = "SOUTH" => h = y - t[2] /\ x = t[1] /\ y <= s[2] /\ t[2] < y
  <2> DEFINE x == a[1][1]
             y == a[1][2]
             h == HopsLeft(a, t)
  <2>1. a = <<a[1], a[2]>> /\ a[1] = <<x, y>> /\ x \in Int /\ y \in Int
    BY <1>2, ChannelParts
  <2>2. /\ a[2] = "LOCAL" => h = 0
        /\ a[2] = "TILE" => h = Gap(x, t[1]) + Gap(y, t[2]) + 1
        /\ a[2] = "EAST" => h = Gap(x + 1, t[1]) + Gap(y, t[2]) + 1
        /\ a[2] = "WEST" => h = Gap(x - 1, t[1]) + Gap(y, t[2]) + 1
        /\ a[2] = "NORTH" => h = Gap(x, t[1]) + Gap(y + 1, t[2]) + 1
        /\ a[2] = "SOUTH" => h = Gap(x, t[1]) + Gap(y - 1, t[2]) + 1
    BY <2>1 DEF HopsLeft, Reader, Neighbour
  <2> QED BY <1>1, <1>2, <2>1, <2>2 DEF OnRoute, Gap
<1>3. /\ c[2] \in {"TILE", "EAST", "WEST", "NORTH", "SOUTH", "LOCAL"}
      /\ e[2] \in {"TILE", "EAST", "WEST", "NORTH", "SOUTH", "LOCAL"}
  BY DEF OnRoute
<1>4. c[1][1] = e[1][1] /\ c[1][2] = e[1][2] /\ c[2] = e[2]
  BY <1>1, <1>2, <1>3 DEF Gap
<1>5. c = <<<<c[1][1], c[1][2]>>, c[2]>> /\ e = <<<<e[1][1], e[1][2]>>, e[2]>>
  BY <1>2
<1> QED BY <1>4, <1>5

-----------------------------------------------------------------------------
(* The inductive invariant.                                                *)

Flit ==
  {f \in [from : Node, pkt : Nat, dest : Node, pos : Nat \ {0}, len : Nat \ {0}] :
     f.pos <= f.len /\ <<f.from, f.dest>> \in Traffic}

MaybeFlit == Flit \cup {NoFlit}

MeshTypeOK ==
  /\ chan \in [Channel -> Seq(Flit)]
  /\ worm \in [Channel -> Channel \cup {NoChannel}]
  /\ sending \in [Senders -> [count : Nat, flit : MaybeFlit]]
  /\ open \in [Channel -> MaybeFlit]
  /\ received \in [Traffic -> SUBSET Nat]

(* Every flit is on the route of its packet.                               *)
Routed ==
  \A c \in Channel :
    /\ \A i \in 1 .. Len(chan[c]) : OnRoute(c, chan[c][i].from, chan[c][i].dest)
    /\ open[c] # NoFlit => open[c].pos < open[c].len /\ OnRoute(c, open[c].from, open[c].dest)

(* f continues the packet of g, or begins one.                             *)
Succeeds(f, g) == IF g = NoFlit THEN f.pos = 1 ELSE f = [g EXCEPT !.pos = @ + 1]

(* On each channel packets follow each other in one piece.                 *)
PacketsWhole ==
  \A c \in Channel : \A i \in 1 .. Len(chan[c]) :
    Succeeds(chan[c][i], IF i = 1 THEN open[c] ELSE Unfinished(chan[c][i - 1]))

(* The packet that is entering a channel: its last flit so far.            *)
Entering(c) == IF chan[c] = <<>> THEN open[c] ELSE Unfinished(chan[c][Len(chan[c])])

(* A worm leads to the next channel of the packet's route, and the packet  *)
(* that is entering that channel is the one that leaves this one.          *)
WormsFollow ==
  \A c \in Channel :
    IF worm[c] = NoChannel THEN c[2] # "LOCAL" => open[c] = NoFlit
    ELSE /\ c[2] # "LOCAL" /\ open[c] # NoFlit
         /\ worm[c] = NextChannel(c, open[c].dest)
         /\ Entering(worm[c]) = open[c]

(* A packet that is entering a channel comes from a worm, or from the tile.*)
OutputsOwned ==
  /\ \A n \in Senders : Entering(<<n, "TILE">>) = sending[n].flit
  /\ \A o \in Channel : o[2] # "TILE" /\ Entering(o) # NoFlit =>
       \E c \in Channel : worm[c] = o

(* f was sent before g, by the same tile.                                  *)
Earlier(f, g) == f.pkt < g.pkt \/ (f.pkt = g.pkt /\ f.len = g.len /\ f.pos < g.pos)

(* The flits of a stream are in order along their route.                   *)
InOrder ==
  \A c, e \in Channel : \A i \in 1 .. Len(chan[c]), j \in 1 .. Len(chan[e]) :
    LET f == chan[c][i]
        g == chan[e][j]
    IN  /\ f.from = g.from /\ f.dest = g.dest
        /\ HopsLeft(c, f.dest) < HopsLeft(e, f.dest) \/ (c = e /\ i < j)
        => Earlier(f, g)

(* A tile numbers its packets and sends their flits one after the other.   *)
SentSoFar ==
  /\ \A n \in Senders : sending[n].flit # NoFlit =>
       LET g == sending[n].flit
       IN  g.pos < g.len /\ g.from = n /\ g.pkt = sending[n].count
  /\ \A c \in Channel : \A i \in 1 .. Len(chan[c]) :
       LET f == chan[c][i]
           s == sending[f.from]
       IN  f.pkt <= s.count /\ (s.flit # NoFlit => f = s.flit \/ Earlier(f, s.flit))

(* What is still under way in a stream comes after what was received.      *)
ReceivedBefore ==
  \A t \in Traffic : \A p \in received[t] :
    /\ p <= sending[t[1]].count
    /\ sending[t[1]].flit # NoFlit /\ sending[t[1]].flit.dest = t[2] => p < sending[t[1]].flit.pkt
    /\ \A c \in Channel : \A i \in 1 .. Len(chan[c]) :
         chan[c][i].from = t[1] /\ chan[c][i].dest = t[2] => p < chan[c][i].pkt

MeshInv ==
  /\ MeshTypeOK /\ Routed /\ PacketsWhole /\ WormsFollow /\ OutputsOwned
  /\ InOrder /\ SentSoFar /\ ReceivedBefore

-----------------------------------------------------------------------------
(* Flits and sequences.                                                    *)

(* The fields of a flit.                                                   *)
LEMMA FlitFields ==
  ASSUME NEW f \in Flit
  PROVE  /\ f.from \in Node /\ f.dest \in Node /\ <<f.from, f.dest>> \in Traffic
         /\ f.from \in Senders
         /\ f.pkt \in Nat /\ f.pos \in Nat \ {0} /\ f.len \in Nat \ {0} /\ f.pos <= f.len
         /\ f # NoFlit
<1>1. /\ f.from \in Node /\ f.dest \in Node /\ <<f.from, f.dest>> \in Traffic
      /\ f.pkt \in Nat /\ f.pos \in Nat \ {0} /\ f.len \in Nat \ {0} /\ f.pos <= f.len
  BY DEF Flit
<1>2. <<f.from, f.dest>>[1] = f.from
  OBVIOUS
<1>3. f.from \in Senders
  BY <1>1, <1>2 DEF Senders
<1>4. NoFlit.pos = 0
  BY DEF NoFlit
<1> QED BY <1>1, <1>3, <1>4

(* The next flit of an unfinished packet.                                  *)
LEMMA NextFlit ==
  ASSUME NEW g \in Flit, g.pos < g.len
  PROVE  LET f == [g EXCEPT !.pos = @ + 1]
         IN  /\ f \in Flit /\ f.pos = g.pos + 1
             /\ f.from = g.from /\ f.dest = g.dest /\ f.pkt = g.pkt /\ f.len = g.len
BY DEF Flit

(* What is unfinished after a flit.                                        *)
LEMMA UnfinishedFlit ==
  ASSUME NEW f \in Flit
  PROVE  /\ Unfinished(f) \in MaybeFlit
         /\ Unfinished(f) = NoFlit <=> f.pos = f.len
         /\ Unfinished(f) # NoFlit => Unfinished(f) = f /\ f.pos < f.len
<1>1. f.pos \in Nat /\ f.len \in Nat /\ f.pos <= f.len /\ f # NoFlit
  BY FlitFields
<1> QED BY <1>1 DEF Unfinished, MaybeFlit

(* The order in which a tile sends is transitive.                          *)
LEMMA EarlierTransitive ==
  ASSUME NEW f \in Flit, NEW g \in Flit, NEW h \in Flit, Earlier(f, g), Earlier(g, h)
  PROVE  Earlier(f, h)
<1>1. /\ f.pkt \in Nat /\ g.pkt \in Nat /\ h.pkt \in Nat
      /\ f.pos \in Nat /\ g.pos \in Nat /\ h.pos \in Nat
  BY FlitFields
<1> QED BY <1>1 DEF Earlier

(* Taking the head of a channel moves the other flits up by one.           *)
LEMMA HeadTaken ==
  ASSUME NEW s \in Seq(Flit), s # <<>>
  PROVE  /\ Len(s) \in Nat \ {0}
         /\ Head(s) = s[1] /\ s[1] \in Flit
         /\ Tail(s) \in Seq(Flit) /\ Len(Tail(s)) = Len(s) - 1
         /\ \A j \in 1 .. Len(s) - 1 : Tail(s)[j] = s[j + 1]
         /\ Tail(s) = <<>> <=> Len(s) = 1
<1>1. Len(s) \in Nat \ {0} /\ Head(s) = s[1] /\ s[1] \in Flit
  BY EmptySeq, ElementOfSeq
<1>2. /\ Tail(s) \in Seq(Flit) /\ Len(Tail(s)) = Len(s) - 1
      /\ \A j \in 1 .. Len(Tail(s)) : Tail(s)[j] = s[j + 1]
  BY HeadTailProperties
<1>3. Tail(s) = <<>> <=> Len(Tail(s)) = 0
  BY <1>2, EmptySeq
<1> QED BY <1>1, <1>2, <1>3

(* Appending a flit keeps the places of the others.                        *)
LEMMA FlitAppended ==
  ASSUME NEW s \in Seq(Flit), NEW f \in Flit
  PROVE  /\ Append(s, f) \in Seq(Flit) /\ Len(Append(s, f)) = Len(s) + 1
         /\ \A j \in 1 .. Len(s) : Append(s, f)[j] = s[j]
         /\ Append(s, f)[Len(s) + 1] = f
         /\ Append(s, f) # <<>>
BY AppendProperties, LenProperties

(* The types of what is stored.                                            *)
LEMMA StoredFlits ==
  ASSUME MeshTypeOK, NEW c \in Channel
  PROVE  /\ chan[c] \in Seq(Flit) /\ Len(chan[c]) \in Nat
         /\ \A i \in 1 .. Len(chan[c]) : chan[c][i] \in Flit
         /\ open[c] \in MaybeFlit /\ Entering(c) \in MaybeFlit
<1>1. chan[c] \in Seq(Flit) /\ open[c] \in MaybeFlit
  BY DEF MeshTypeOK
<1>2. Len(chan[c]) \in Nat /\ \A i \in 1 .. Len(chan[c]) : chan[c][i] \in Flit
  BY <1>1, LenProperties, ElementOfSeq
<1>3. chan[c] # <<>> => Len(chan[c]) \in 1 .. Len(chan[c])
  BY <1>1, EmptySeq, LenProperties
<1>4. Entering(c) \in MaybeFlit
  BY <1>1, <1>2, <1>3, UnfinishedFlit DEF Entering
<1> QED BY <1>1, <1>2, <1>4

(* The channel of a tile.                                                  *)
LEMMA TileChannels ==
  ASSUME NEW n \in Node
  PROVE  /\ <<n, "TILE">> \in Channel /\ <<n, "LOCAL">> \in Channel
         /\ <<n, "TILE">>[2] = "TILE" /\ <<n, "LOCAL">>[2] = "LOCAL"
         /\ <<n, "TILE">>[1] = n /\ <<n, "LOCAL">>[1] = n
BY DEF Channel, Port, Wired

(* Nothing on a route is farther from the end than the sending tile, and   *)
(* a flit at the output of a router is for that tile.                      *)
LEMMA RouteEnds ==
  ASSUME NEW s \in Node, NEW t \in Node, NEW c \in Channel, OnRoute(c, s, t)
  PROVE  /\ HopsLeft(c, t) \in Nat
         /\ HopsLeft(c, t) <= HopsLeft(<<s, "TILE">>, t)
         /\ c[2] = "LOCAL" => c[1] = t /\ HopsLeft(c, t) = 0
         /\ c[2] # "LOCAL" => HopsLeft(c, t) > 0
<1> USE MeshAssumption
<1>1. /\ s = <<s[1], s[2]>> /\ s[1] \in 0 .. X - 1 /\ s[2] \in 0 .. Y - 1
      /\ t = <<t[1], t[2]>> /\ t[1] \in 0 .. X - 1 /\ t[2] \in 0 .. Y - 1
  BY DEF Node
<1> DEFINE x == c[1][1]
           y == c[1][2]
           h == HopsLeft(c, t)
<1>2. c = <<c[1], c[2]>> /\ c[1] = <<x, y>> /\ x \in Int /\ y \in Int
  BY ChannelParts
<1>3. /\ c[2] = "LOCAL" => h = 0
      /\ c[2] = "TILE" => h = Gap(x, t[1]) + Gap(y, t[2]) + 1
      /\ c[2] = "EAST" => h = Gap(x + 1, t[1]) + Gap(y, t[2]) + 1
      /\ c[2] = "WEST" => h = Gap(x - 1, t[1]) + Gap(y, t[2]) + 1
      /\ c[2] = "NORTH" => h = Gap(x, t[1]) + Gap(y + 1, t[2]) + 1
      /\ c[2] = "SOUTH" => h = Gap(x, t[1]) + Gap(y - 1, t[2]) + 1
  BY <1>2 DEF HopsLeft, Reader, Neighbour
<1>4. HopsLeft(<<s, "TILE">>, t) = Gap(s[1], t[1]) + Gap(s[2], t[2]) + 1
  BY DEF HopsLeft, Reader, Neighbour
<1>5. c[2] = "TILE" => x = s[1] /\ y = s[2]
  BY <1>1, <1>2 DEF OnRoute
<1>6. c[2] = "LOCAL" => c[1] = t
  BY DEF OnRoute
<1> QED BY <1>1, <1>2, <1>3, <1>4, <1>5, <1>6 DEF OnRoute, Gap

-----------------------------------------------------------------------------
(* A flit that a router moves on.                                          *)

(* The output of the head of a channel is the next channel of its route,   *)
(* and the packet that is entering the output is the one that the flit     *)
(* continues, or none: a router never mixes two packets.                   *)
LEMMA ForwardOutput ==
  ASSUME MeshInv, NEW c \in Channel, Forward(c)
  PROVE  LET f == Head(chan[c])
             o == OutputOf(c)
         IN  /\ f = chan[c][1] /\ f \in Flit /\ 1 \in 1 .. Len(chan[c])
             /\ OnRoute(c, f.from, f.dest)
             /\ o = NextChannel(c, f.dest)
             /\ Succeeds(f, Entering(o))
             /\ worm[c] # NoChannel => o = worm[c]
<1> DEFINE f == Head(chan[c])
           o == OutputOf(c)
<1>1. MeshTypeOK /\ Routed /\ PacketsWhole /\ WormsFollow /\ OutputsOwned
  BY DEF MeshInv
<1>2. chan[c] # <<>> /\ c[2] # "LOCAL" /\ OutputFree(c, o)
  BY DEF Forward
<1>3. f = chan[c][1] /\ f \in Flit /\ 1 \in 1 .. Len(chan[c])
  BY <1>1, <1>2, StoredFlits, HeadTaken
<1>4. OnRoute(c, f.from, f.dest)
  BY <1>1, <1>3 DEF Routed
<1>5. Succeeds(f, open[c])
  BY <1>1, <1>3 DEF PacketsWhole
<1>6. CASE worm[c] # NoChannel
  <2>1. /\ open[c] # NoFlit /\ worm[c] = NextChannel(c, open[c].dest)
        /\ Entering(worm[c]) = open[c]
    BY <1>1, <1>6 DEF WormsFollow
  <2>2. o = worm[c]
    BY <1>6 DEF OutputOf
  <2>3. open[c] \in Flit /\ open[c].pos < open[c].len
    BY <1>1, <2>1, StoredFlits DEF MaybeFlit, Routed
  <2>4. f.dest = open[c].dest
    BY <1>5, <2>1, <2>3, NextFlit DEF Succeeds
  <2> QED BY <1>3, <1>4, <1>5, <2>1, <2>2, <2>4
<1>7. CASE worm[c] = NoChannel
  <2>1. open[c] = NoFlit
    BY <1>1, <1>2, <1>7 DEF WormsFollow
  <2>2. o = NextChannel(c, f.dest)
    BY <1>7 DEF OutputOf, NextChannel
  <2>3. o \in Channel /\ o[2] # "TILE"
    BY <1>2, <1>3, <1>4, <2>2, RouteStep, FlitFields
  <2>4. o # NoChannel
    BY <2>2 DEF NextChannel, NoChannel
  <2>5. \A e \in Channel : worm[e] # o
    BY <1>2, <1>7, <2>4 DEF OutputFree
  <2>6. Entering(o) = NoFlit
    BY <1>1, <2>3, <2>5 DEF OutputsOwned
  <2> QED BY <1>3, <1>4, <1>5, <1>7, <2>1, <2>2, <2>6
<1> QED BY <1>6, <1>7

(* A router that moves a flit on preserves the invariant.                  *)
LEMMA ForwardInv ==
  ASSUME MeshInv, NEW c \in Channel, Forward(c)
  PROVE  MeshInv'
<1> DEFINE f == Head(chan[c])
           o == OutputOf(c)
           n == Len(chan[o]) + 1
<1>1. MeshTypeOK /\ Routed /\ PacketsWhole /\ WormsFollow /\ OutputsOwned
      /\ InOrder /\ SentSoFar /\ ReceivedBefore
  BY DEF MeshInv
<1>2. /\ f = chan[c][1] /\ f \in Flit /\ 1 \in 1 .. Len(chan[c])
      /\ OnRoute(c, f.from, f.dest) /\ o = NextChannel(c, f.dest)
      /\ Succeeds(f, Entering(o)) /\ (worm[c] # NoChannel => o = worm[c])
  BY ForwardOutput
<1>3. /\ chan[c] # <<>> /\ c[2] # "LOCAL" /\ OutputFree(c, o)
      /\ chan' = [chan EXCEPT ![c] = Tail(@), ![o] = Append(@, f)]
      /\ worm' = [worm EXCEPT ![c] = IF f.pos = f.len THEN NoChannel ELSE o]
      /\ open' = [open EXCEPT ![c] = Unfinished(f)]
      /\ UNCHANGED <<sending, received>>
  BY DEF Forward, Taken
<1>4. /\ o \in Channel /\ o # c /\ o[2] # "TILE" /\ OnRoute(o, f.from, f.dest)
      /\ HopsLeft(o, f.dest) = HopsLeft(c, f.dest) - 1
  BY <1>2, <1>3, RouteStep, FlitFields
<1>5. NoChannel \notin Channel
  BY ChannelParts DEF NoChannel
<1>6. /\ f.from \in Node /\ f.dest \in Node /\ f.pos \in Nat /\ f.len \in Nat
      /\ f.pkt \in Nat /\ f # NoFlit
      /\ Unfinished(f) \in MaybeFlit /\ (Unfinished(f) = NoFlit <=> f.pos = f.len)
      /\ (Unfinished(f) # NoFlit => Unfinished(f) = f /\ f.pos < f.len)
  BY <1>2, FlitFields, UnfinishedFlit
<1> HIDE DEF f, o
<1>7. /\ chan'[c] = Tail(chan[c]) /\ chan'[o] = Append(chan[o], f)
      /\ \A d \in Channel \ {c, o} : chan'[d] = chan[d]
      /\ \A d \in Channel \ {c} : worm'[d] = worm[d] /\ open'[d] = open[d]
      /\ worm'[c] = (IF f.pos = f.len THEN NoChannel ELSE o)
      /\ open'[c] = Unfinished(f)
  BY <1>1, <1>3, <1>4 DEF MeshTypeOK
<1>8. /\ Len(chan'[c]) = Len(chan[c]) - 1
      /\ \A j \in 1 .. Len(chan[c]) - 1 : chan'[c][j] = chan[c][j + 1]
      /\ chan'[c] \in Seq(Flit) /\ (chan'[c] = <<>> <=> Len(chan[c]) = 1)
      /\ Len(chan[c]) \in Nat
  <2>1. chan[c] \in Seq(Flit) /\ chan[c] # <<>>
    BY <1>1, <1>3, StoredFlits
  <2>2. /\ Len(Tail(chan[c])) = Len(chan[c]) - 1
        /\ \A j \in 1 .. Len(chan[c]) - 1 : Tail(chan[c])[j] = chan[c][j + 1]
        /\ Tail(chan[c]) \in Seq(Flit) /\ (Tail(chan[c]) = <<>> <=> Len(chan[c]) = 1)
        /\ Len(chan[c]) \in Nat
    BY <2>1, HeadTaken
  <2> QED BY <1>7, <2>2
<1>9. /\ Len(chan'[o]) = n /\ chan'[o][n] = f
      /\ \A j \in 1 .. n - 1 : chan'[o][j] = chan[o][j]
      /\ chan'[o] \in Seq(Flit) /\ chan'[o] # <<>> /\ n \in Nat \ {0}
  <2>1. chan[o] \in Seq(Flit) /\ Len(chan[o]) \in Nat
    BY <1>1, <1>4, StoredFlits
  <2>2. /\ Append(chan[o], f) \in Seq(Flit) /\ Len(Append(chan[o], f)) = Len(chan[o]) + 1
        /\ \A j \in 1 .. Len(chan[o]) : Append(chan[o], f)[j] = chan[o][j]
        /\ Append(chan[o], f)[Len(chan[o]) + 1] = f /\ Append(chan[o], f) # <<>>
    BY <1>2, <2>1, FlitAppended
  <2>3. n \in Nat \ {0} /\ n - 1 = Len(chan[o])
    BY <2>1
  <2> QED BY <1>7, <2>2, <2>3
<1> HIDE DEF n
<1>10. ASSUME NEW d \in Channel, NEW j \in 1 .. Len(chan'[d])
       PROVE  \/ d = o /\ j = n /\ chan'[d][j] = f
              \/ \E k \in 1 .. Len(chan[d]) :
                   /\ chan'[d][j] = chan[d][k]
                   /\ IF d = c THEN k = j + 1 ELSE k = j
  <2>1. CASE d = c BY <1>8, <2>1
  <2>2. CASE d = o
    <3>1. Len(chan[o]) = n - 1 BY <1>1, <1>4, <1>9, StoredFlits DEF n
    <3> QED BY <1>4, <1>9, <2>2, <3>1
  <2>3. CASE d # c /\ d # o BY <1>7, <2>3
  <2> QED BY <2>1, <2>2, <2>3
<1>11. ASSUME NEW d \in Channel, NEW j \in 1 .. Len(chan'[d])
       PROVE  \E e \in Channel : \E k \in 1 .. Len(chan[e]) : chan'[d][j] = chan[e][k]
  BY <1>2, <1>10
<1>12. ASSUME NEW d \in Channel
       PROVE  Entering(d)' = IF d = o THEN Unfinished(f) ELSE Entering(d)
  <2>1. CASE d = o BY <1>9, <2>1 DEF Entering
  <2>2. CASE d = c
    <3>1. CASE Len(chan[c]) = 1
      BY <1>2, <1>3, <1>4, <1>7, <1>8, <2>2, <3>1 DEF Entering
    <3>2. CASE Len(chan[c]) # 1
      <4>1. Len(chan[c]) - 1 \in 1 .. Len(chan[c]) - 1 /\ (Len(chan[c]) - 1) + 1 = Len(chan[c])
        BY <1>2, <1>8, <3>2
      <4>2. chan'[c][Len(chan'[c])] = chan[c][Len(chan[c])]
        BY <1>8, <4>1
      <4> QED BY <1>3, <1>4, <1>8, <2>2, <3>2, <4>2 DEF Entering
    <3> QED BY <3>1, <3>2
  <2>3. CASE d # c /\ d # o BY <1>7, <2>3 DEF Entering
  <2> QED BY <2>1, <2>2, <2>3
<1>13. MeshTypeOK'
  <2>1. chan' \in [Channel -> Seq(Flit)]
    BY <1>1, <1>3, <1>7, <1>8, <1>9 DEF MeshTypeOK
  <2> QED BY <1>1, <1>3, <1>4, <1>6, <2>1 DEF MeshTypeOK
<1>14. Routed'
  <2>1. ASSUME NEW d \in Channel, NEW j \in 1 .. Len(chan'[d])
        PROVE  OnRoute(d, chan'[d][j].from, chan'[d][j].dest)
    BY <1>1, <1>4, <1>10 DEF Routed
  <2>2. ASSUME NEW d \in Channel, open'[d] # NoFlit
        PROVE  open'[d].pos < open'[d].len /\ OnRoute(d, open'[d].from, open'[d].dest)
    <3>1. CASE d = c BY <1>2, <1>6, <1>7, <2>2, <3>1
    <3>2. CASE d # c BY <1>1, <1>7, <2>2, <3>2 DEF Routed
    <3> QED BY <3>1, <3>2
  <2> QED BY <2>1, <2>2 DEF Routed
<1>15. PacketsWhole'
  <2> SUFFICES ASSUME NEW d \in Channel, NEW j \in 1 .. Len(chan'[d])
               PROVE  Succeeds(chan'[d][j], IF j = 1 THEN open'[d] ELSE Unfinished(chan'[d][j - 1]))
    BY DEF PacketsWhole, Succeeds, Unfinished
  <2>1. CASE d = c
    <3>1. /\ j + 1 \in 1 .. Len(chan[c]) /\ j + 1 # 1 /\ (j + 1) - 1 = j
          /\ chan'[c][j] = chan[c][j + 1]
      BY <1>8, <2>1
    <3>2. Succeeds(chan[c][j + 1], Unfinished(chan[c][j]))
      BY <1>1, <3>1 DEF PacketsWhole
    <3>3. CASE j = 1
      BY <1>2, <1>7, <2>1, <3>1, <3>2, <3>3
    <3>4. CASE j # 1
      <4>1. j - 1 \in 1 .. Len(chan[c]) - 1 /\ (j - 1) + 1 = j
        BY <1>8, <2>1, <3>4
      <4>2. chan'[c][j - 1] = chan[c][j]
        BY <1>8, <4>1
      <4> QED BY <2>1, <3>1, <3>2, <3>4, <4>2
    <3> QED BY <3>3, <3>4
  <2>2. CASE d = o /\ j = n
    <3>1. CASE chan[o] = <<>>
      <4>1. j = 1 /\ Entering(o) = open[o] /\ open'[o] = open[o]
        BY <1>4, <1>7, <2>2, <3>1 DEF Entering, n
      <4> QED BY <1>2, <1>9, <2>2, <4>1
    <3>2. CASE chan[o] # <<>>
      <4>1. Len(chan[o]) \in Nat \ {0}
        BY <1>1, <1>4, <3>2, StoredFlits, EmptySeq
      <4>2. j # 1 /\ j - 1 = Len(chan[o]) /\ chan'[o][j - 1] = chan[o][Len(chan[o])]
        BY <1>9, <2>2, <4>1 DEF n
      <4> QED BY <1>2, <1>9, <2>2, <3>2, <4>2 DEF Entering
    <3> QED BY <3>1, <3>2
  <2>3. CASE d # c /\ ~(d = o /\ j = n)
    <3>1. /\ j \in 1 .. Len(chan[d]) /\ chan'[d][j] = chan[d][j]
          /\ open'[d] = open[d]
          /\ j # 1 => chan'[d][j - 1] = chan[d][j - 1]
      <4>1. CASE d = o
        <5>1. j \in 1 .. n - 1 /\ (j # 1 => j - 1 \in 1 .. n - 1) /\ Len(chan[o]) = n - 1
          BY <1>9, <2>3, <4>1, <1>1, <1>4, StoredFlits DEF n
        <5> QED BY <1>7, <1>9, <2>3, <4>1, <5>1
      <4>2. CASE d # o BY <1>7, <2>3, <4>2
      <4> QED BY <4>1, <4>2
    <3> QED BY <1>1, <3>1 DEF PacketsWhole
  <2> QED BY <2>1, <2>2, <2>3
<1>16. WormsFollow'
  <2> SUFFICES ASSUME NEW d \in Channel
               PROVE  IF worm'[d] = NoChannel THEN d[2] # "LOCAL" => open'[d] = NoFlit
                      ELSE /\ d[2] # "LOCAL" /\ open'[d] # NoFlit
                           /\ worm'[d] = NextChannel(d, open'[d].dest)
                           /\ \A w \in Channel : w = worm'[d] => Entering(w)' = open'[d]
    <3>1. worm' \in [Channel -> Channel \cup {NoChannel}]
      BY <1>13 DEF MeshTypeOK
    <3> QED BY <3>1 DEF WormsFollow, NextChannel, Reader, Entering, Unfinished, NoFlit, NoChannel
  <2>1. CASE d = c
    <3>1. CASE f.pos = f.len BY <1>6, <1>7, <2>1, <3>1
    <3>2. CASE f.pos # f.len
      <4>1. worm'[d] = o /\ open'[d] = f /\ f # NoFlit
        BY <1>6, <1>7, <2>1, <3>2
      <4>2. o # NoChannel /\ c[2] # "LOCAL" /\ o = NextChannel(c, f.dest)
        BY <1>2, <1>3, <1>4, <1>5
      <4>3. Unfinished(f) = f
        BY <1>6, <3>2
      <4>4. \A w \in Channel : w = o => Entering(w)' = f
        BY <1>12, <4>3
      <4> QED BY <2>1, <4>1, <4>2, <4>4
    <3> QED BY <3>1, <3>2
  <2>2. CASE d # c
    <3>1. worm'[d] = worm[d] /\ open'[d] = open[d] /\ worm[d] # o
      BY <1>3, <1>7, <2>2 DEF OutputFree
    <3> QED BY <1>1, <1>12, <3>1 DEF WormsFollow
  <2> QED BY <2>1, <2>2
<1>17. OutputsOwned'
  <2>1. ASSUME NEW m \in Senders PROVE Entering(<<m, "TILE">>)' = sending'[m].flit
    <3>1. m \in Node
      BY NocMeshAssumption DEF Senders
    <3>2. <<m, "TILE">> \in Channel /\ <<m, "TILE">> # o
      BY <1>4, <3>1, TileChannels
    <3> QED BY <1>1, <1>3, <1>12, <3>2 DEF OutputsOwned
  <2>2. ASSUME NEW w \in Channel, w[2] # "TILE", Entering(w)' # NoFlit
        PROVE  \E e \in Channel : worm'[e] = w
    <3>1. CASE w = o
      <4>1. worm'[c] = o
        BY <1>6, <1>7, <1>12, <2>2, <3>1
      <4> QED BY <3>1, <4>1
    <3>2. CASE w # o
      <4>1. PICK e \in Channel : worm[e] = w
        BY <1>1, <1>12, <2>2, <3>2 DEF OutputsOwned
      <4>2. e # c
        BY <1>2, <1>5, <3>2, <4>1
      <4> QED BY <1>7, <4>1, <4>2
    <3> QED BY <3>1, <3>2
  <2> QED BY <2>1, <2>2 DEF OutputsOwned, NoFlit
<1>18. InOrder'
  <2> SUFFICES ASSUME NEW d \in Channel, NEW e \in Channel,
                      NEW j \in 1 .. Len(chan'[d]), NEW l \in 1 .. Len(chan'[e]),
                      NEW p, NEW q, p = chan'[d][j], q = chan'[e][l],
                      p.from = q.from, p.dest = q.dest,
                      HopsLeft(d, p.dest) < HopsLeft(e, p.dest) \/ (d = e /\ j < l)
               PROVE  Earlier(p, q)
    BY Zenon DEF InOrder
  <2>0. /\ p \in Flit /\ q \in Flit
        /\ OnRoute(d, p.from, p.dest) /\ OnRoute(e, q.from, q.dest)
    <3>1. chan'[d] \in Seq(Flit) /\ chan'[e] \in Seq(Flit)
      BY <1>13 DEF MeshTypeOK
    <3>2. p \in Flit /\ q \in Flit
      BY <3>1, ElementOfSeq
    <3> QED BY <1>14, <3>2 DEF Routed
  <2>1. CASE \E k \in 1 .. Len(chan[d]), m \in 1 .. Len(chan[e]) :
               /\ p = chan[d][k] /\ (IF d = c THEN k = j + 1 ELSE k = j)
               /\ q = chan[e][m] /\ (IF e = c THEN m = l + 1 ELSE m = l)
    <3>1. PICK k \in 1 .. Len(chan[d]), m \in 1 .. Len(chan[e]) :
               /\ p = chan[d][k] /\ (IF d = c THEN k = j + 1 ELSE k = j)
               /\ q = chan[e][m] /\ (IF e = c THEN m = l + 1 ELSE m = l)
      BY <2>1
    <3>2. d = e /\ j < l => k < m
      BY <3>1
    <3> QED BY <1>1, <3>1, <3>2 DEF InOrder
  <2>2. ASSUME d = o, j = n, p = f, NEW m \in 1 .. Len(chan[e]), q = chan[e][m],
               IF e = c THEN m = l + 1 ELSE m = l
        PROVE  Earlier(p, q)
    <3>1. e # o \/ ~(j < l)
      BY <1>9, <2>2
    <3>2. /\ HopsLeft(o, f.dest) < HopsLeft(e, f.dest)
          /\ HopsLeft(c, f.dest) \in Nat /\ HopsLeft(e, f.dest) \in Nat
      BY <1>2, <1>6, <2>0, <2>2, <3>1, RouteEnds
    <3>3. CASE HopsLeft(c, f.dest) < HopsLeft(e, f.dest)
      BY <1>1, <1>2, <2>2, <3>3 DEF InOrder
    <3>4. CASE HopsLeft(c, f.dest) = HopsLeft(e, f.dest)
      <4>1. e = c
        BY <1>2, <1>6, <2>0, <2>2, <3>4, RouteUnique
      <4>2. 1 < m
        BY <2>2, <4>1
      <4> QED BY <1>1, <1>2, <2>2, <4>1, <4>2 DEF InOrder
    <3> QED BY <1>4, <3>2, <3>3, <3>4
  <2>3. ASSUME e = o, l = n, q = f, NEW k \in 1 .. Len(chan[d]), p = chan[d][k]
        PROVE  Earlier(p, q)
    <3>1. HopsLeft(c, f.dest) \in Nat /\ HopsLeft(d, f.dest) \in Nat
      BY <1>2, <1>6, <2>0, <2>3, RouteEnds
    <3>2. HopsLeft(d, p.dest) < HopsLeft(c, p.dest)
      BY <1>4, <2>3, <3>1
    <3> QED BY <1>1, <1>2, <2>3, <3>2 DEF InOrder
  <2>4. ~(d = o /\ j = n /\ e = o /\ l = n)
    <3>1. ASSUME d = o, j = n, e = o, l = n PROVE FALSE
      <4>1. HopsLeft(o, f.dest) \in Nat
        BY <1>4, <1>6, RouteEnds
      <4>2. p = f /\ j = l /\ d = e
        BY <1>9, <3>1
      <4> QED BY <3>1, <4>1, <4>2
    <3> QED BY <3>1
  <2>5. /\ \/ d = o /\ j = n /\ p = f
           \/ \E k \in 1 .. Len(chan[d]) : p = chan[d][k] /\ IF d = c THEN k = j + 1 ELSE k = j
        /\ \/ e = o /\ l = n /\ q = f
           \/ \E m \in 1 .. Len(chan[e]) : q = chan[e][m] /\ IF e = c THEN m = l + 1 ELSE m = l
    BY <1>10
  <2> QED BY <2>1, <2>2, <2>3, <2>4, <2>5
<1>19. SentSoFar'
  <2>1. \A m \in Senders : sending'[m].flit # NoFlit =>
          LET g == sending'[m].flit
          IN  g.pos < g.len /\ g.from = m /\ g.pkt = sending'[m].count
    BY <1>1, <1>3 DEF SentSoFar
  <2> SUFFICES ASSUME NEW d \in Channel, NEW j \in 1 .. Len(chan'[d]), NEW p, p = chan'[d][j]
               PROVE  /\ p.pkt <= sending'[p.from].count
                      /\ sending'[p.from].flit # NoFlit =>
                           p = sending'[p.from].flit \/ Earlier(p, sending'[p.from].flit)
    BY <2>1, Zenon DEF SentSoFar
  <2>2. PICK e \in Channel : \E k \in 1 .. Len(chan[e]) : p = chan[e][k]
    BY <1>11
  <2>3. sending' = sending
    BY <1>3
  <2> QED BY <1>1, <2>2, <2>3 DEF SentSoFar
<1>20. ReceivedBefore'
  <2> SUFFICES ASSUME NEW t \in Traffic, NEW r \in received[t],
                      NEW d \in Channel, NEW j \in 1 .. Len(chan'[d]), NEW p, p = chan'[d][j],
                      p.from = t[1], p.dest = t[2]
               PROVE  r < p.pkt
    BY <1>1, <1>3 DEF ReceivedBefore
  <2>1. PICK e \in Channel : \E k \in 1 .. Len(chan[e]) : p = chan[e][k]
    BY <1>11
  <2> QED BY <1>1, <2>1 DEF ReceivedBefore
<1> QED BY <1>13, <1>14, <1>15, <1>16, <1>17, <1>18, <1>19, <1>20 DEF MeshInv

-----------------------------------------------------------------------------
(* A flit that a tile sends, if it continues what the tile sent before.    *)
LEMMA PushInv ==
  ASSUME MeshInv, NEW n \in Senders, NEW f \in Flit, f.from = n, Push(n, f),
         Succeeds(f, sending[n].flit), sending[n].count <= f.pkt,
         \A c \in Channel : \A i \in 1 .. Len(chan[c]) :
           chan[c][i].from = n => Earlier(chan[c][i], f),
         \A p \in received[<<n, f.dest>>] : p < f.pkt
  PROVE  MeshInv'
<1> DEFINE o == <<n, "TILE">>
           k == Len(chan[o]) + 1
<1>1. MeshTypeOK /\ Routed /\ PacketsWhole /\ WormsFollow /\ OutputsOwned
      /\ InOrder /\ SentSoFar /\ ReceivedBefore
  BY DEF MeshInv
<1>2. n \in Node /\ o \in Channel /\ o[2] = "TILE" /\ o[1] = n
  <2>1. n \in Node BY NocMeshAssumption DEF Senders
  <2> QED BY <2>1, TileChannels
<1>3. /\ f.from \in Node /\ f.dest \in Node /\ f.pos \in Nat /\ f.len \in Nat
      /\ f.pkt \in Nat /\ f # NoFlit /\ <<n, f.dest>> \in Traffic
      /\ Unfinished(f) \in MaybeFlit /\ (Unfinished(f) = NoFlit <=> f.pos = f.len)
      /\ (Unfinished(f) # NoFlit => Unfinished(f) = f /\ f.pos < f.len)
  BY FlitFields, UnfinishedFlit
<1>4. /\ chan' = [chan EXCEPT ![o] = Append(@, f)]
      /\ sending' = [sending EXCEPT ![n] = [count |-> f.pkt, flit |-> Unfinished(f)]]
      /\ UNCHANGED <<worm, open, received>>
  BY DEF Push
<1> HIDE DEF o
<1>5. /\ chan'[o] = Append(chan[o], f) /\ \A d \in Channel \ {o} : chan'[d] = chan[d]
      /\ sending'[n].count = f.pkt /\ sending'[n].flit = Unfinished(f)
      /\ \A m \in Senders \ {n} : sending'[m] = sending[m]
  BY <1>1, <1>2, <1>4 DEF MeshTypeOK
<1>6. /\ Len(chan'[o]) = k /\ chan'[o][k] = f
      /\ \A j \in 1 .. k - 1 : chan'[o][j] = chan[o][j]
      /\ chan'[o] \in Seq(Flit) /\ chan'[o] # <<>> /\ k \in Nat \ {0}
  <2>1. chan[o] \in Seq(Flit) /\ Len(chan[o]) \in Nat
    BY <1>1, <1>2, StoredFlits
  <2> QED BY <1>5, <2>1, FlitAppended
<1>7. Len(chan[o]) = k - 1 /\ Len(chan[o]) \in Nat
  BY <1>1, <1>2, StoredFlits
<1> HIDE DEF k
<1>8. ASSUME NEW d \in Channel, NEW j \in 1 .. Len(chan'[d])
      PROVE  \/ d = o /\ j = k /\ chan'[d][j] = f
             \/ j \in 1 .. Len(chan[d]) /\ chan'[d][j] = chan[d][j]
  <2>1. CASE d = o BY <1>6, <1>7, <2>1
  <2>2. CASE d # o BY <1>5, <2>2
  <2> QED BY <2>1, <2>2
<1>9. \A d \in Channel : Entering(d)' = IF d = o THEN Unfinished(f) ELSE Entering(d)
  BY <1>4, <1>5, <1>6 DEF Entering
<1>10. Entering(o) = sending[n].flit
  BY <1>1 DEF OutputsOwned, o
<1>11. MeshTypeOK'
  <2>1. chan' \in [Channel -> Seq(Flit)]
    BY <1>1, <1>4, <1>5, <1>6 DEF MeshTypeOK
  <2>2. [count |-> f.pkt, flit |-> Unfinished(f)] \in [count : Nat, flit : MaybeFlit]
    BY <1>3
  <2> QED BY <1>1, <1>4, <2>1, <2>2 DEF MeshTypeOK
<1>12. OnRoute(o, f.from, f.dest)
  BY <1>2 DEF OnRoute
<1>13. Routed'
  <2>1. ASSUME NEW d \in Channel, NEW j \in 1 .. Len(chan'[d])
        PROVE  OnRoute(d, chan'[d][j].from, chan'[d][j].dest)
    BY <1>1, <1>8, <1>12 DEF Routed
  <2> QED BY <1>1, <1>4, <2>1 DEF Routed
<1>14. PacketsWhole'
  <2> SUFFICES ASSUME NEW d \in Channel, NEW j \in 1 .. Len(chan'[d])
               PROVE  Succeeds(chan'[d][j], IF j = 1 THEN open'[d] ELSE Unfinished(chan'[d][j - 1]))
    BY DEF PacketsWhole, Succeeds, Unfinished
  <2>0. open' = open
    BY <1>4
  <2>1. CASE d = o /\ j = k
    <3>1. CASE chan[o] = <<>>
      <4>1. j = 1 /\ Entering(o) = open[o]
        BY <1>7, <2>1, <3>1 DEF Entering
      <4> QED BY <1>6, <1>10, <2>0, <2>1, <4>1
    <3>2. CASE chan[o] # <<>>
      <4>1. Len(chan[o]) \in Nat \ {0}
        BY <1>1, <1>2, <3>2, StoredFlits, EmptySeq
      <4>2. j # 1 /\ j - 1 = Len(chan[o]) /\ chan'[o][j - 1] = chan[o][Len(chan[o])]
        BY <1>6, <1>7, <2>1, <4>1
      <4>3. Entering(o) = Unfinished(chan[o][Len(chan[o])])
        BY <3>2 DEF Entering
      <4> QED BY <1>6, <1>10, <2>1, <4>2, <4>3
    <3> QED BY <3>1, <3>2
  <2>2. CASE ~(d = o /\ j = k)
    <3>1. /\ j \in 1 .. Len(chan[d]) /\ chan'[d][j] = chan[d][j]
          /\ j # 1 => chan'[d][j - 1] = chan[d][j - 1]
      <4>1. CASE d = o
        <5>1. j \in 1 .. k - 1 /\ (j # 1 => j - 1 \in 1 .. k - 1)
          BY <1>6, <2>2, <4>1
        <5> QED BY <1>6, <1>7, <4>1, <5>1
      <4>2. CASE d # o BY <1>5, <4>2
      <4> QED BY <4>1, <4>2
    <3> QED BY <1>1, <2>0, <3>1 DEF PacketsWhole
  <2> QED BY <2>1, <2>2
<1>15. WormsFollow'
  <2>1. ASSUME NEW c \in Channel, worm[c] # NoChannel
        PROVE  worm[c] \in Channel /\ worm[c] # o
    <3>0. worm[c] \in Channel
      BY <1>1, <2>1 DEF MeshTypeOK
    <3>1. worm[c] = NextChannel(c, open[c].dest) /\ c[2] # "LOCAL" /\ open[c] # NoFlit
      BY <1>1, <2>1 DEF WormsFollow
    <3>2. open[c] \in Flit /\ OnRoute(c, open[c].from, open[c].dest)
      BY <1>1, <3>1, StoredFlits DEF MaybeFlit, Routed
    <3>3. NextChannel(c, open[c].dest)[2] # "TILE"
      BY <3>1, <3>2, RouteStep, FlitFields
    <3> QED BY <1>2, <3>0, <3>1, <3>3
  <2> SUFFICES ASSUME NEW c \in Channel
               PROVE  IF worm[c] = NoChannel THEN c[2] # "LOCAL" => open[c] = NoFlit
                      ELSE /\ c[2] # "LOCAL" /\ open[c] # NoFlit
                           /\ worm[c] = NextChannel(c, open[c].dest)
                           /\ \A w \in Channel : w = worm[c] => Entering(w)' = open[c]
    BY <1>4, <2>1 DEF WormsFollow, NextChannel, Reader, Entering, Unfinished, NoFlit, NoChannel
  <2> QED BY <1>1, <1>9, <2>1 DEF WormsFollow
<1>16. OutputsOwned'
  <2>1. ASSUME NEW m \in Senders PROVE Entering(<<m, "TILE">>)' = sending'[m].flit
    <3>1. <<m, "TILE">> \in Channel
      BY NocMeshAssumption, TileChannels DEF Senders
    <3>2. CASE m = n BY <1>2, <1>5, <1>9, <3>2 DEF o
    <3>3. CASE m # n
      <4>1. <<m, "TILE">> # o BY <3>3 DEF o
      <4> QED BY <1>1, <1>5, <1>9, <3>1, <3>3, <4>1 DEF OutputsOwned
    <3> QED BY <3>2, <3>3
  <2>2. ASSUME NEW w \in Channel, w[2] # "TILE", Entering(w)' # NoFlit
        PROVE  \E e \in Channel : worm'[e] = w
    <3>1. w # o BY <1>2, <2>2
    <3>2. Entering(w) # NoFlit BY <1>9, <2>2, <3>1
    <3> QED BY <1>1, <1>4, <2>2, <3>2 DEF OutputsOwned
  <2> QED BY <2>1, <2>2 DEF OutputsOwned, NoFlit
<1>17. InOrder'
  <2> SUFFICES ASSUME NEW d \in Channel, NEW e \in Channel,
                      NEW j \in 1 .. Len(chan'[d]), NEW l \in 1 .. Len(chan'[e]),
                      NEW p, NEW q, p = chan'[d][j], q = chan'[e][l],
                      p.from = q.from, p.dest = q.dest,
                      HopsLeft(d, p.dest) < HopsLeft(e, p.dest) \/ (d = e /\ j < l)
               PROVE  Earlier(p, q)
    BY Zenon DEF InOrder
  <2>1. CASE j \in 1 .. Len(chan[d]) /\ p = chan[d][j] /\ l \in 1 .. Len(chan[e]) /\ q = chan[e][l]
    BY <1>1, <2>1 DEF InOrder
  <2>2. CASE j \in 1 .. Len(chan[d]) /\ p = chan[d][j] /\ q = f
    BY <2>2
  <2>3. ASSUME d = o, j = k, p = f PROVE FALSE
    <3>1. chan'[e] \in Seq(Flit)
      BY <1>11 DEF MeshTypeOK
    <3>2. q \in Flit /\ OnRoute(e, q.from, q.dest)
      BY <1>13, <3>1, ElementOfSeq DEF Routed
    <3>3. /\ HopsLeft(e, f.dest) <= HopsLeft(o, f.dest)
          /\ HopsLeft(e, f.dest) \in Nat /\ HopsLeft(o, f.dest) \in Nat
      BY <1>2, <1>3, <1>12, <2>3, <3>2, RouteEnds DEF o
    <3>4. ~(d = e /\ j < l)
      BY <1>6, <2>3
    <3> QED BY <2>3, <3>3, <3>4
  <2> QED BY <1>8, <2>1, <2>2, <2>3
<1>18. SentSoFar'
  <2>1. ASSUME NEW m \in Senders, sending'[m].flit # NoFlit
        PROVE  LET g == sending'[m].flit
               IN  g.pos < g.len /\ g.from = m /\ g.pkt = sending'[m].count
    BY <1>1, <1>3, <1>5, <2>1 DEF SentSoFar
  <2> SUFFICES ASSUME NEW d \in Channel, NEW j \in 1 .. Len(chan'[d]), NEW p, p = chan'[d][j]
               PROVE  /\ p.pkt <= sending'[p.from].count
                      /\ sending'[p.from].flit # NoFlit =>
                           p = sending'[p.from].flit \/ Earlier(p, sending'[p.from].flit)
    BY <2>1, Zenon DEF SentSoFar
  <2>2. CASE p = f BY <1>3, <1>5, <2>2
  <2>3. CASE j \in 1 .. Len(chan[d]) /\ p = chan[d][j]
    <3>1. p \in Flit BY <1>1, <2>3, StoredFlits
    <3>2. p.from \in Senders /\ p.pkt \in Nat BY <3>1, FlitFields
    <3>3. CASE p.from = n
      <4>1. Earlier(p, f) BY <2>3, <3>3
      <4>2. p.pkt <= f.pkt BY <1>3, <3>2, <4>1 DEF Earlier
      <4> QED BY <1>3, <1>5, <3>3, <4>1, <4>2
    <3>4. CASE p.from # n
      <4>1. sending'[p.from] = sending[p.from]
        BY <1>5, <3>2, <3>4
      <4>2. /\ p.pkt <= sending[p.from].count
            /\ sending[p.from].flit # NoFlit =>
                 p = sending[p.from].flit \/ Earlier(p, sending[p.from].flit)
        BY <1>1, <2>3 DEF SentSoFar
      <4> QED BY <4>1, <4>2
    <3> QED BY <3>3, <3>4
  <2> QED BY <1>8, <2>2, <2>3
<1>19. ReceivedBefore'
  <2> SUFFICES ASSUME NEW t \in Traffic, NEW r \in received[t]
               PROVE  /\ r <= sending'[t[1]].count
                      /\ sending'[t[1]].flit # NoFlit /\ sending'[t[1]].flit.dest = t[2]
                           => r < sending'[t[1]].flit.pkt
                      /\ \A d \in Channel : \A j \in 1 .. Len(chan'[d]) :
                           chan'[d][j].from = t[1] /\ chan'[d][j].dest = t[2] => r < chan'[d][j].pkt
    BY <1>4, Zenon DEF ReceivedBefore
  <2>1. t = <<t[1], t[2]>> /\ t[1] \in Senders /\ r \in Nat
    BY <1>1, NocMeshAssumption DEF Senders, MeshTypeOK
  <2>2. t[1] = n /\ t[2] = f.dest => r < f.pkt
    BY <2>1
  <2>3. r <= sending'[t[1]].count
    <3>1. CASE t[1] = n
      <4>1. r <= sending[n].count /\ sending[n].count \in Nat
        BY <1>1, <3>1 DEF ReceivedBefore, MeshTypeOK
      <4> QED BY <1>3, <1>5, <2>1, <3>1, <4>1
    <3>2. CASE t[1] # n
      BY <1>1, <1>5, <2>1, <3>2 DEF ReceivedBefore
    <3> QED BY <3>1, <3>2
  <2>4. ASSUME sending'[t[1]].flit # NoFlit, sending'[t[1]].flit.dest = t[2]
        PROVE  r < sending'[t[1]].flit.pkt
    <3>1. CASE t[1] = n BY <1>3, <1>5, <2>2, <2>4, <3>1
    <3>2. CASE t[1] # n BY <1>1, <1>5, <2>1, <2>4, <3>2 DEF ReceivedBefore
    <3> QED BY <3>1, <3>2
  <2>5. ASSUME NEW d \in Channel, NEW j \in 1 .. Len(chan'[d]),
               chan'[d][j].from = t[1], chan'[d][j].dest = t[2]
        PROVE  r < chan'[d][j].pkt
    <3>1. CASE chan'[d][j] = f BY <2>2, <2>5, <3>1
    <3>2. CASE j \in 1 .. Len(chan[d]) /\ chan'[d][j] = chan[d][j]
      BY <1>1, <2>5, <3>2 DEF ReceivedBefore
    <3> QED BY <1>8, <3>1, <3>2
  <2> QED BY <2>3, <2>4, <2>5
<1> QED BY <1>11, <1>13, <1>14, <1>15, <1>16, <1>17, <1>18, <1>19 DEF MeshInv

(* A header is the first flit of a new packet.                             *)
LEMMA InjectInv ==
  ASSUME MeshInv, NEW t \in Traffic, NEW len \in Lengths, Inject(t[1], t[2], len)
  PROVE  MeshInv'
<1> DEFINE n == t[1]
           f == [from |-> n, pkt |-> sending[n].count + 1, dest |-> t[2], pos |-> 1, len |-> len]
<1>1. MeshTypeOK /\ SentSoFar /\ ReceivedBefore
  BY DEF MeshInv
<1>2. t = <<t[1], t[2]>> /\ n \in Node /\ t[2] \in Node /\ n \in Senders /\ len \in Nat \ {0}
  BY NocMeshAssumption DEF Senders
<1>3. sending[n].count \in Nat /\ sending[n].flit = NoFlit /\ Push(n, f)
  BY <1>1, <1>2 DEF MeshTypeOK, Inject
<1>4. f \in Flit
  BY <1>2, <1>3 DEF Flit
<1>5. ASSUME NEW c \in Channel, NEW i \in 1 .. Len(chan[c]), chan[c][i].from = n
      PROVE  Earlier(chan[c][i], f)
  <2>1. chan[c][i].pkt \in Nat /\ chan[c][i].pkt <= sending[n].count
    BY <1>1, <1>5, StoredFlits, FlitFields DEF SentSoFar
  <2> QED BY <1>3, <2>1 DEF Earlier
<1>6. ASSUME NEW p \in received[<<n, f.dest>>] PROVE p < f.pkt
  <2>1. p \in received[t]
    BY <1>2, <1>6
  <2>2. p \in Nat /\ p <= sending[n].count
    BY <1>1, <2>1 DEF MeshTypeOK, ReceivedBefore
  <2> QED BY <1>3, <2>2
<1>7. Succeeds(f, sending[n].flit) /\ sending[n].count <= f.pkt /\ f.from = n
  BY <1>3 DEF Succeeds
<1> HIDE DEF f, n
<1> QED BY <1>2, <1>3, <1>4, <1>5, <1>6, <1>7, PushInv

(* A tile continues the packet that it began.                              *)
LEMMA ContinueInv ==
  ASSUME MeshInv, NEW n \in Senders, Continue(n)
  PROVE  MeshInv'
<1> DEFINE g == sending[n].flit
           f == [g EXCEPT !.pos = @ + 1]
<1>1. MeshTypeOK /\ SentSoFar /\ ReceivedBefore
  BY DEF MeshInv
<1>2. g # NoFlit /\ Push(n, f)
  BY DEF Continue
<1>3. g \in Flit /\ g.pos < g.len /\ g.from = n /\ g.pkt = sending[n].count
  BY <1>1, <1>2 DEF MeshTypeOK, MaybeFlit, SentSoFar
<1> HIDE DEF g
<1>4. /\ f \in Flit /\ f.pos = g.pos + 1 /\ f.from = n /\ f.dest = g.dest
      /\ f.pkt = g.pkt /\ f.len = g.len
  BY <1>3, NextFlit
<1>5. Succeeds(f, g)
  BY <1>2 DEF Succeeds
<1> HIDE DEF f
<1>6. Earlier(g, f) /\ sending[n].count <= f.pkt
  <2>1. g.pos \in Nat /\ g.pkt \in Nat
    BY <1>3, FlitFields
  <2> QED BY <1>3, <1>4, <2>1 DEF Earlier
<1>7. ASSUME NEW c \in Channel, NEW i \in 1 .. Len(chan[c]), chan[c][i].from = n
      PROVE  Earlier(chan[c][i], f)
  <2>1. chan[c][i] \in Flit
    BY <1>1, StoredFlits
  <2>2. chan[c][i] = g \/ Earlier(chan[c][i], g)
    BY <1>1, <1>2, <1>7 DEF SentSoFar, g
  <2> QED BY <1>3, <1>4, <1>6, <2>1, <2>2, EarlierTransitive
<1>8. ASSUME NEW p \in received[<<n, f.dest>>] PROVE p < f.pkt
  <2>1. <<n, f.dest>> \in Traffic
    BY <1>4, FlitFields
  <2>2. <<n, f.dest>>[1] = n /\ <<n, f.dest>>[2] = f.dest
    OBVIOUS
  <2> QED BY <1>1, <1>2, <1>4, <1>8, <2>1, <2>2 DEF ReceivedBefore, g
<1> QED BY <1>2, <1>4, <1>5, <1>6, <1>7, <1>8, PushInv DEF g

-----------------------------------------------------------------------------
(* A flit that a tile takes from its router.                               *)
LEMMA ReceiveInv ==
  ASSUME MeshInv, NEW n \in Node, Receive(n)
  PROVE  MeshInv'
<1> DEFINE c == <<n, "LOCAL">>
           f == Head(chan[c])
<1>1. MeshTypeOK /\ Routed /\ PacketsWhole /\ WormsFollow /\ OutputsOwned
      /\ InOrder /\ SentSoFar /\ ReceivedBefore
  BY DEF MeshInv
<1>2. c \in Channel /\ c[2] = "LOCAL" /\ c[1] = n
  BY TileChannels
<1>3. /\ chan[c] # <<>>
      /\ chan' = [chan EXCEPT ![c] = Tail(@)]
      /\ open' = [open EXCEPT ![c] = Unfinished(f)]
      /\ received' = IF f.pos = f.len
                     THEN [received EXCEPT ![<<f.from, n>>] = @ \cup {f.pkt}] ELSE received
      /\ UNCHANGED <<worm, sending>>
  BY DEF Receive, Taken
<1>4. f = chan[c][1] /\ f \in Flit /\ 1 \in 1 .. Len(chan[c]) /\ Len(chan[c]) \in Nat \ {0}
  BY <1>1, <1>2, <1>3, StoredFlits, HeadTaken
<1>5. OnRoute(c, f.from, f.dest)
  BY <1>1, <1>2, <1>4 DEF Routed
<1>6. /\ f.from \in Node /\ f.dest = n /\ f.pos \in Nat /\ f.len \in Nat
      /\ f.pkt \in Nat /\ f # NoFlit /\ <<f.from, n>> \in Traffic /\ f.from \in Senders
      /\ Unfinished(f) \in MaybeFlit /\ (Unfinished(f) = NoFlit <=> f.pos = f.len)
      /\ (Unfinished(f) # NoFlit => Unfinished(f) = f /\ f.pos < f.len)
      /\ HopsLeft(c, n) = 0
  <2>1. f.dest = n /\ HopsLeft(c, f.dest) = 0
    <3>1. f.from \in Node /\ f.dest \in Node
      BY <1>4, FlitFields
    <3> HIDE DEF c, f
    <3>2. PICK s \in Node, t \in Node : s = f.from /\ t = f.dest
      BY <3>1
    <3>3. OnRoute(c, s, t)
      BY <1>5, <3>2
    <3>4. c[2] = "LOCAL" => c[1] = t /\ HopsLeft(c, t) = 0
      BY <1>2, <3>3, RouteEnds, Zenon
    <3> QED BY <1>2, <3>2, <3>4
  <2> QED BY <1>4, <2>1, FlitFields, UnfinishedFlit
<1> HIDE DEF c, f
<1>7. /\ chan'[c] = Tail(chan[c]) /\ open'[c] = Unfinished(f)
      /\ \A d \in Channel \ {c} : chan'[d] = chan[d] /\ open'[d] = open[d]
  BY <1>1, <1>2, <1>3 DEF MeshTypeOK
<1>7a. /\ Len(chan'[c]) = Len(chan[c]) - 1
       /\ \A j \in 1 .. Len(chan[c]) - 1 : chan'[c][j] = chan[c][j + 1]
       /\ chan'[c] \in Seq(Flit) /\ (chan'[c] = <<>> <=> Len(chan[c]) = 1)
       /\ Len(chan[c]) \in Nat
  <2>1. chan[c] \in Seq(Flit) /\ chan[c] # <<>>
    BY <1>1, <1>2, <1>3, StoredFlits
  <2>2. /\ Len(Tail(chan[c])) = Len(chan[c]) - 1
        /\ \A j \in 1 .. Len(chan[c]) - 1 : Tail(chan[c])[j] = chan[c][j + 1]
        /\ Tail(chan[c]) \in Seq(Flit) /\ (Tail(chan[c]) = <<>> <=> Len(chan[c]) = 1)
    BY <2>1, HeadTaken
  <2> QED BY <1>4, <1>7, <2>2
<1>8. ASSUME NEW d \in Channel, NEW j \in 1 .. Len(chan'[d])
      PROVE  \E k \in 1 .. Len(chan[d]) :
               /\ chan'[d][j] = chan[d][k]
               /\ IF d = c THEN k = j + 1 ELSE k = j
  <2>1. CASE d = c BY <1>7a, <2>1
  <2>2. CASE d # c BY <1>7, <2>2
  <2> QED BY <2>1, <2>2
<1>9. ASSUME NEW d \in Channel PROVE Entering(d)' = Entering(d)
  <2>1. CASE d = c
    <3>1. CASE Len(chan[c]) = 1
      BY <1>3, <1>4, <1>7a, <1>7, <2>1, <3>1 DEF Entering
    <3>2. CASE Len(chan[c]) # 1
      <4>1. Len(chan[c]) - 1 \in 1 .. Len(chan[c]) - 1 /\ (Len(chan[c]) - 1) + 1 = Len(chan[c])
        BY <1>4, <1>7a, <3>2
      <4>2. chan'[c][Len(chan'[c])] = chan[c][Len(chan[c])]
        BY <1>7a, <4>1
      <4> QED BY <1>3, <1>4, <1>7a, <1>7, <2>1, <3>2, <4>2 DEF Entering
    <3> QED BY <3>1, <3>2
  <2>2. CASE d # c BY <1>7, <2>2 DEF Entering
  <2> QED BY <2>1, <2>2
<1>10. MeshTypeOK'
  <2>1. chan' \in [Channel -> Seq(Flit)]
    BY <1>1, <1>3, <1>7, <1>7a DEF MeshTypeOK
  <2>2. received' \in [Traffic -> SUBSET Nat]
    BY <1>1, <1>3, <1>6 DEF MeshTypeOK
  <2> QED BY <1>1, <1>3, <1>6, <2>1, <2>2 DEF MeshTypeOK
<1>11. Routed'
  <2>1. ASSUME NEW d \in Channel, NEW j \in 1 .. Len(chan'[d])
        PROVE  OnRoute(d, chan'[d][j].from, chan'[d][j].dest)
    BY <1>1, <1>8 DEF Routed
  <2>2. ASSUME NEW d \in Channel, open'[d] # NoFlit
        PROVE  open'[d].pos < open'[d].len /\ OnRoute(d, open'[d].from, open'[d].dest)
    <3>1. CASE d = c BY <1>5, <1>6, <1>7, <2>2, <3>1
    <3>2. CASE d # c BY <1>1, <1>7, <2>2, <3>2 DEF Routed
    <3> QED BY <3>1, <3>2
  <2> QED BY <2>1, <2>2 DEF Routed
<1>12. PacketsWhole'
  <2> SUFFICES ASSUME NEW d \in Channel, NEW j \in 1 .. Len(chan'[d])
               PROVE  Succeeds(chan'[d][j], IF j = 1 THEN open'[d] ELSE Unfinished(chan'[d][j - 1]))
    BY DEF PacketsWhole, Succeeds, Unfinished
  <2>1. CASE d = c
    <3>1. /\ j + 1 \in 1 .. Len(chan[c]) /\ j + 1 # 1 /\ (j + 1) - 1 = j
          /\ chan'[c][j] = chan[c][j + 1]
      BY <1>7a, <2>1
    <3>2. Succeeds(chan[c][j + 1], Unfinished(chan[c][j]))
      BY <1>1, <1>2, <3>1 DEF PacketsWhole
    <3>3. CASE j = 1
      BY <1>4, <1>7a, <1>7, <2>1, <3>1, <3>2, <3>3
    <3>4. CASE j # 1
      <4>1. j - 1 \in 1 .. Len(chan[c]) - 1 /\ (j - 1) + 1 = j
        BY <1>7a, <2>1, <3>4
      <4>2. chan'[c][j - 1] = chan[c][j]
        BY <1>7a, <4>1
      <4> QED BY <2>1, <3>1, <3>2, <3>4, <4>2
    <3> QED BY <3>3, <3>4
  <2>2. CASE d # c
    BY <1>1, <1>7, <2>2 DEF PacketsWhole
  <2> QED BY <2>1, <2>2
<1>13. WormsFollow'
  <2> SUFFICES ASSUME NEW d \in Channel
               PROVE  IF worm[d] = NoChannel THEN d[2] # "LOCAL" => open'[d] = NoFlit
                      ELSE /\ d[2] # "LOCAL" /\ open'[d] # NoFlit
                           /\ worm[d] = NextChannel(d, open'[d].dest)
                           /\ \A w \in Channel : w = worm[d] => Entering(w)' = open'[d]
    <3>1. worm \in [Channel -> Channel \cup {NoChannel}]
      BY <1>1 DEF MeshTypeOK
    <3> QED BY <1>3, <3>1 DEF WormsFollow, NextChannel, Reader, Entering, Unfinished, NoFlit, NoChannel
  <2>1. CASE d = c
    BY <1>1, <1>2, <2>1 DEF WormsFollow
  <2>2. CASE d # c
    BY <1>1, <1>7, <1>9, <2>2 DEF WormsFollow
  <2> QED BY <2>1, <2>2
<1>14. OutputsOwned'
  <2>1. ASSUME NEW m \in Senders PROVE Entering(<<m, "TILE">>)' = sending'[m].flit
    <3>1. <<m, "TILE">> \in Channel
      BY NocMeshAssumption, TileChannels DEF Senders
    <3> QED BY <1>1, <1>3, <1>9, <3>1 DEF OutputsOwned
  <2>2. ASSUME NEW w \in Channel, w[2] # "TILE", Entering(w)' # NoFlit
        PROVE  \E e \in Channel : worm'[e] = w
    BY <1>1, <1>3, <1>9, <2>2 DEF OutputsOwned
  <2> QED BY <2>1, <2>2 DEF OutputsOwned, NoFlit
<1>15. InOrder'
  <2> SUFFICES ASSUME NEW d \in Channel, NEW e \in Channel,
                      NEW j \in 1 .. Len(chan'[d]), NEW l \in 1 .. Len(chan'[e]),
                      NEW p, NEW q, p = chan'[d][j], q = chan'[e][l],
                      p.from = q.from, p.dest = q.dest,
                      HopsLeft(d, p.dest) < HopsLeft(e, p.dest) \/ (d = e /\ j < l)
               PROVE  Earlier(p, q)
    BY Zenon DEF InOrder
  <2>1. PICK k \in 1 .. Len(chan[d]) : p = chan[d][k] /\ IF d = c THEN k = j + 1 ELSE k = j
    BY <1>8
  <2>2. PICK m \in 1 .. Len(chan[e]) : q = chan[e][m] /\ IF e = c THEN m = l + 1 ELSE m = l
    BY <1>8
  <2>3. d = e /\ j < l => k < m
    BY <2>1, <2>2
  <2> QED BY <1>1, <2>1, <2>2, <2>3 DEF InOrder
<1>16. SentSoFar'
  <2> SUFFICES ASSUME NEW d \in Channel, NEW j \in 1 .. Len(chan'[d]), NEW p, p = chan'[d][j]
               PROVE  /\ p.pkt <= sending[p.from].count
                      /\ sending[p.from].flit # NoFlit =>
                           p = sending[p.from].flit \/ Earlier(p, sending[p.from].flit)
    BY <1>1, <1>3 DEF SentSoFar
  <2>1. PICK k \in 1 .. Len(chan[d]) : p = chan[d][k]
    BY <1>8
  <2> QED BY <1>1, <2>1 DEF SentSoFar
<1>17. ASSUME f.pos = f.len
       PROVE  /\ f.pkt <= sending[f.from].count
              /\ sending[f.from].flit # NoFlit => f.pkt < sending[f.from].flit.pkt
              /\ \A d \in Channel : \A j \in 1 .. Len(chan'[d]) :
                   chan'[d][j].from = f.from /\ chan'[d][j].dest = n => f.pkt < chan'[d][j].pkt
  <2>1. /\ f.pkt <= sending[f.from].count
        /\ sending[f.from].flit # NoFlit =>
             f = sending[f.from].flit \/ Earlier(f, sending[f.from].flit)
    BY <1>1, <1>2, <1>4 DEF SentSoFar
  <2>2. ASSUME sending[f.from].flit # NoFlit PROVE f.pkt < sending[f.from].flit.pkt
    <3> DEFINE g == sending[f.from].flit
    <3>1. g \in Flit /\ g.pos < g.len
      BY <1>1, <1>6, <2>2 DEF MeshTypeOK, MaybeFlit, SentSoFar
    <3>2. g.pos \in Nat /\ g.len \in Nat /\ g.pkt \in Nat
      BY <3>1, FlitFields
    <3>3. f = g \/ Earlier(f, g)
      BY <2>1, <2>2
    <3> HIDE DEF g
    <3>4. f.pkt < g.pkt
      BY <1>6, <1>17, <3>1, <3>2, <3>3 DEF Earlier
    <3> QED BY <3>4 DEF g
  <2>3. ASSUME NEW d \in Channel, NEW j \in 1 .. Len(chan'[d]), NEW p, p = chan'[d][j],
               p.from = f.from, p.dest = n
        PROVE  f.pkt < p.pkt
    <3>1. PICK k \in 1 .. Len(chan[d]) : p = chan[d][k] /\ IF d = c THEN k = j + 1 ELSE k = j
      BY <1>8, <2>3
    <3>2. p \in Flit /\ OnRoute(d, p.from, p.dest)
      BY <1>1, <3>1, StoredFlits DEF Routed
    <3>3. p.pos \in Nat /\ p.len \in Nat /\ p.pkt \in Nat /\ p.pos <= p.len
      BY <3>2, FlitFields
    <3>4. CASE d = c
      <4>1. 1 < k BY <3>1, <3>4
      <4>2. Earlier(f, p)
        BY <1>1, <1>2, <1>4, <1>6, <2>3, <3>1, <3>4, <4>1 DEF InOrder
      <4> QED BY <1>6, <1>17, <3>3, <4>2 DEF Earlier
    <3>5. CASE d # c
      <4>1. HopsLeft(d, n) \in Nat
        BY <1>6, <2>3, <3>2, RouteEnds
      <4>2. HopsLeft(d, n) # 0
        BY <1>2, <1>4, <1>5, <1>6, <2>3, <3>2, <3>5, RouteUnique
      <4>3. Earlier(f, p)
        BY <1>1, <1>2, <1>4, <1>6, <2>3, <3>1, <4>1, <4>2 DEF InOrder
      <4> QED BY <1>6, <1>17, <3>3, <4>3 DEF Earlier
    <3> QED BY <3>4, <3>5
  <2> QED BY <2>1, <2>2, <2>3
<1>18. ReceivedBefore'
  <2>0. sending' = sending
    BY <1>3
  <2> SUFFICES ASSUME NEW t \in Traffic, NEW r \in received'[t]
               PROVE  /\ r <= sending'[t[1]].count
                      /\ sending'[t[1]].flit # NoFlit /\ sending'[t[1]].flit.dest = t[2]
                           => r < sending'[t[1]].flit.pkt
                      /\ \A d \in Channel : \A j \in 1 .. Len(chan'[d]) :
                           chan'[d][j].from = t[1] /\ chan'[d][j].dest = t[2] => r < chan'[d][j].pkt
    BY Zenon DEF ReceivedBefore
  <2>1. CASE r \in received[t]
    <3>1. ASSUME NEW d \in Channel, NEW j \in 1 .. Len(chan'[d]), NEW p, p = chan'[d][j],
                 p.from = t[1], p.dest = t[2]
          PROVE  r < p.pkt
      <4>1. PICK k \in 1 .. Len(chan[d]) : p = chan[d][k]
        BY <1>8, <3>1
      <4> QED BY <1>1, <2>1, <3>1, <4>1 DEF ReceivedBefore
    <3>2. /\ r <= sending[t[1]].count
          /\ sending[t[1]].flit # NoFlit /\ sending[t[1]].flit.dest = t[2]
               => r < sending[t[1]].flit.pkt
      BY <1>1, <2>1 DEF ReceivedBefore
    <3> QED BY <2>0, <3>1, <3>2
  <2>2. CASE r \notin received[t]
    <3>1. f.pos = f.len /\ t = <<f.from, n>> /\ r = f.pkt
      BY <1>1, <1>3, <1>6, <2>2 DEF MeshTypeOK
    <3>2. t[1] = f.from /\ t[2] = n
      BY <3>1
    <3> QED BY <1>17, <2>0, <3>1, <3>2
  <2> QED BY <2>1, <2>2
<1> QED BY <1>10, <1>11, <1>12, <1>13, <1>14, <1>15, <1>16, <1>18 DEF MeshInv

-----------------------------------------------------------------------------
(* The invariant holds for every mesh and every traffic.                   *)
LEMMA MeshInvariance == MeshSpec => []MeshInv
<1>1. MeshInit => MeshInv
  <2> SUFFICES ASSUME MeshInit PROVE MeshInv
    OBVIOUS
  <2>1. \A c \in Channel : chan[c] = <<>> /\ open[c] = NoFlit /\ worm[c] = NoChannel /\ Entering(c) = NoFlit
    BY DEF MeshInit, Entering
  <2>2. Len(<<>>) = 0 /\ <<>> \in Seq(Flit)
    BY EmptySeq
  <2>3. MeshTypeOK
    BY <2>2 DEF MeshInit, MeshTypeOK, MaybeFlit
  <2>4. Routed /\ PacketsWhole /\ WormsFollow /\ InOrder
    BY <2>1, <2>2 DEF Routed, PacketsWhole, WormsFollow, InOrder
  <2>5. OutputsOwned
    <3>1. \A n \in Senders : <<n, "TILE">> \in Channel
      BY NocMeshAssumption, TileChannels DEF Senders
    <3> QED BY <2>1, <3>1 DEF OutputsOwned, MeshInit
  <2>6. SentSoFar /\ ReceivedBefore
    BY <2>1, <2>2 DEF SentSoFar, ReceivedBefore, MeshInit
  <2> QED BY <2>3, <2>4, <2>5, <2>6 DEF MeshInv
<1>2. MeshInv /\ [MeshNext]_meshvars => MeshInv'
  <2> SUFFICES ASSUME MeshInv, [MeshNext]_meshvars PROVE MeshInv'
    OBVIOUS
  <2>1. CASE UNCHANGED meshvars
    BY <2>1 DEF meshvars, MeshInv, MeshTypeOK, Routed, PacketsWhole, WormsFollow, OutputsOwned,
                InOrder, SentSoFar, ReceivedBefore, Entering
  <2> QED BY <2>1, InjectInv, ContinueInv, ForwardInv, ReceiveInv DEF MeshNext, Done
<1> QED BY <1>1, <1>2, PTL DEF MeshSpec

(* A tile receives only packets that are for it, each in one piece, and    *)
(* those of one sender in the order in which they were sent, whatever else *)
(* is under way in the mesh.                                               *)
THEOREM MeshPreservesPackets == MeshSpec => []PacketsPreserved
<1>1. MeshInv => PacketsPreserved
  <2> SUFFICES ASSUME MeshInv, NEW n \in Node, chan[<<n, "LOCAL">>] # <<>>,
                      NEW c, c = <<n, "LOCAL">>, NEW f, f = Head(chan[c])
               PROVE  /\ f.dest = n
                      /\ IF open[c] = NoFlit THEN f.pos = 1 ELSE f = [open[c] EXCEPT !.pos = @ + 1]
                      /\ \A p \in received[<<f.from, n>>] : f.pkt > p
    BY DEF PacketsPreserved
  <2>1. MeshTypeOK /\ Routed /\ PacketsWhole /\ ReceivedBefore
    BY DEF MeshInv
  <2>2. c \in Channel /\ c[2] = "LOCAL" /\ c[1] = n
    BY TileChannels
  <2>3. f = chan[c][1] /\ f \in Flit /\ 1 \in 1 .. Len(chan[c])
    BY <2>1, <2>2, StoredFlits, HeadTaken
  <2>4. f.dest = n
    <3>1. OnRoute(c, f.from, f.dest)
      BY <2>1, <2>2, <2>3 DEF Routed
    <3> QED BY <2>2, <2>3, <3>1, RouteEnds, FlitFields
  <2>5. Succeeds(f, open[c])
    BY <2>1, <2>2, <2>3 DEF PacketsWhole
  <2>6. ASSUME NEW p \in received[<<f.from, n>>] PROVE p < f.pkt
    <3>1. <<f.from, n>> \in Traffic
      BY <2>3, <2>4, FlitFields
    <3>2. <<f.from, n>>[1] = f.from /\ <<f.from, n>>[2] = n
      OBVIOUS
    <3> QED BY <2>1, <2>2, <2>3, <2>4, <3>1, <3>2 DEF ReceivedBefore
  <2>7. ASSUME NEW p \in received[<<f.from, n>>] PROVE f.pkt > p
    <3>1. <<f.from, n>> \in Traffic /\ f.pkt \in Nat
      BY <2>3, <2>4, FlitFields
    <3>2. p \in Nat
      BY <2>1, <3>1 DEF MeshTypeOK
    <3> QED BY <2>6, <3>1, <3>2
  <2> QED BY <2>4, <2>5, <2>7 DEF Succeeds
<1> QED BY <1>1, MeshInvariance, PTL
===============================================================================
