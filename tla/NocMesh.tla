------------------------------- MODULE NocMesh -------------------------------
(***************************************************************************)
(* noc_mesh under load: many packets compete for the channels between the  *)
(* routers.  A channel is an output port of a router with everything that  *)
(* stores flits up to the lookup of the next router, one FIFO; a tile's    *)
(* input is one more channel.  A router moves flits one at a time from an  *)
(* input channel to the output that the header of the packet selects and   *)
(* keeps the output for that packet to its last flit: what NocRouter shows *)
(* of the pipeline.  The order of moves is free, which allows every timing *)
(* of the clocked network.                                                 *)
(***************************************************************************)
EXTENDS Integers, Sequences, FiniteSets, MeshRoutes

CONSTANTS
  Capacity,   \* flits that a channel stores
  Lengths,    \* environment: lengths of packets, in flits
  Traffic,    \* environment: pairs of a tile that sends and a destination
  Packets     \* bound: tile -> packets that it sends

ASSUME NocMeshAssumption ==
  /\ Capacity \in Nat \ {0}
  /\ Lengths \subseteq Nat \ {0}
  /\ Traffic \subseteq Node \X Node
  /\ Packets \in [Node -> Nat]

Senders == {t[1] : t \in Traffic}

VARIABLES
  chan,      \* channel -> flits stored
  worm,      \* channel -> output channel of the packet under way, or none
  sending,   \* tile -> packets begun and the packet that is being injected
  open,      \* history: channel -> last flit taken from it of an unfinished packet
  received   \* history: sender and destination -> packets received completely

meshvars == <<chan, worm, sending, open, received>>

NoFlit == [pos |-> 0]
NoChannel == <<>>

Channel == {c \in Node \X (Port \cup {"TILE"}) : c[2] = "TILE" \/ Wired(c[1], c[2])}

(* The router that reads the flits of a channel.                           *)
Reader(c) == Neighbour(c[1], c[2])

MeshInit ==
  /\ chan = [c \in Channel |-> <<>>]
  /\ worm = [c \in Channel |-> NoChannel]
  /\ sending = [n \in Senders |-> [count |-> 0, flit |-> NoFlit]]
  /\ open = [c \in Channel |-> NoFlit]
  /\ received = [t \in Traffic |-> {}]

Unfinished(f) == IF f.pos = f.len THEN NoFlit ELSE f

Taken(c, f) == open' = [open EXCEPT ![c] = Unfinished(f)]

(* A tile sends the header of a packet, or the next flit of the packet     *)
(* that it began.                                                          *)
Push(n, f) ==
  /\ Len(chan[<<n, "TILE">>]) < Capacity
  /\ chan' = [chan EXCEPT ![<<n, "TILE">>] = Append(@, f)]
  /\ sending' = [sending EXCEPT ![n] = [count |-> f.pkt, flit |-> Unfinished(f)]]
  /\ UNCHANGED <<worm, open, received>>

Inject(n, dest, len) ==
  /\ sending[n].flit = NoFlit
  /\ sending[n].count < Packets[n]
  /\ Push(n, [from |-> n, pkt |-> sending[n].count + 1, dest |-> dest, pos |-> 1, len |-> len])

Continue(n) ==
  /\ sending[n].flit # NoFlit
  /\ Push(n, [sending[n].flit EXCEPT !.pos = @ + 1])

(* The output channel for the flit at the head of channel c.               *)
OutputOf(c) ==
  IF worm[c] # NoChannel THEN worm[c]
  ELSE <<Reader(c), genroutes(Reader(c), Head(chan[c]).dest)>>

(* Mutation: an output is not kept for the packet that uses it.            *)
OutputFree_Always(c, o) == TRUE

(* No packet of another input uses the output.                             *)
OutputFree(c, o) == \A e \in Channel \ {c} : worm[e] # o

(* The router at the end of channel c moves one flit on.                   *)
Forward(c) ==
  /\ c[2] # "LOCAL"
  /\ chan[c] # <<>>
  /\ LET f == Head(chan[c])
         o == OutputOf(c)
     IN  /\ OutputFree(c, o)
         /\ Len(chan[o]) < Capacity
         /\ chan' = [chan EXCEPT ![c] = Tail(@), ![o] = Append(@, f)]
         /\ worm' = [worm EXCEPT ![c] = IF f.pos = f.len THEN NoChannel ELSE o]
         /\ Taken(c, f)
  /\ UNCHANGED <<sending, received>>

(* Mutation: the flit that the tile took stays at the output.              *)
Receive_Keep(n) ==
  /\ chan[<<n, "LOCAL">>] # <<>>
  /\ Taken(<<n, "LOCAL">>, Head(chan[<<n, "LOCAL">>]))
  /\ UNCHANGED <<chan, received, worm, sending>>

(* The tile takes a flit from its router.                                  *)
Receive(n) ==
  /\ chan[<<n, "LOCAL">>] # <<>>
  /\ LET f == Head(chan[<<n, "LOCAL">>])
     IN  /\ Taken(<<n, "LOCAL">>, f)
         /\ received' = IF f.pos = f.len THEN [received EXCEPT ![<<f.from, n>>] = @ \cup {f.pkt}] ELSE received
  /\ chan' = [chan EXCEPT ![<<n, "LOCAL">>] = Tail(@)]
  /\ UNCHANGED <<worm, sending>>

AllReceived ==
  /\ \A c \in Channel : chan[c] = <<>>
  /\ \A n \in Senders : sending[n] = [count |-> Packets[n], flit |-> NoFlit]

Done == AllReceived /\ UNCHANGED meshvars

MeshNext ==
  \/ \E t \in Traffic, len \in Lengths : Inject(t[1], t[2], len)
  \/ \E n \in Senders : Continue(n)
  \/ \E c \in Channel : Forward(c)
  \/ \E n \in Node : Receive(n)
  \/ Done

(* The clock runs: as long as some router, sender or receiver can move a   *)
(* flit, one of them does.  Nothing is assumed of who it is.               *)
MeshFairness ==
  WF_meshvars(\/ \E n \in Senders : Continue(n)
          \/ \E n \in Node : Receive(n)
          \/ \E c \in Channel : Forward(c))

MeshSpec == MeshInit /\ [][MeshNext]_meshvars

FairSpec == MeshSpec /\ MeshFairness

-----------------------------------------------------------------------------
(* "Packets are preserved in the network" and "packets in one stream leave *)
(* the network in the same order as they entered it": a tile receives the  *)
(* flits of a packet in one piece, only packets that are for it, and those *)
(* of one sender in the order in which they were sent.                     *)
PacketsPreserved ==
  \A n \in Node : chan[<<n, "LOCAL">>] # <<>> =>
    LET f == Head(chan[<<n, "LOCAL">>])
        g == open[<<n, "LOCAL">>]
    IN  /\ f.dest = n
        /\ IF g = NoFlit THEN f.pos = 1 ELSE f = [g EXCEPT !.pos = @ + 1]
        /\ \A p \in received[<<f.from, n>>] : f.pkt > p

(* Again and again all packets that were begun have been received: worms   *)
(* that wait for each other's channels never form a cycle ("Deadlock free  *)
(* XY-routing").                                                           *)
EveryPacketReceived ==
  []<>(\A n \in Senders : UNION {received[t] : t \in {t \in Traffic : t[1] = n}} = 1 .. sending[n].count)
=============================================================================
