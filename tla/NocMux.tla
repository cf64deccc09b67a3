------------------------------- MODULE NocMux -------------------------------
(***************************************************************************)
(* noc_mux: several packet streams are merged into one.  The environment   *)
(* offers a flit on a channel and keeps offering it until it is taken, as  *)
(* the noc_buffer or the lookup stage upstream does; a packet may pause    *)
(* between two flits.  The receiver is ready or not in each cycle.         *)
(***************************************************************************)
EXTENDS Integers, FiniteSets, NocMuxLogic

CONSTANTS
  CHANNELS,   \* number of input channels
  MaxFlits    \* environment: the longest packet, in flits

ASSUME NocMuxAssumption == CHANNELS \in Nat \ {0}

VARIABLES
  active,       \* the channel granted last
  activeroute,  \* a packet is under way
  offered,      \* per channel: the flit offered, or none
  flits,        \* per channel: flits offered of the current packet
  owner,        \* history: the channel whose packet is open at the output
  bypassed      \* history: packets that began while a channel offered a header

muxvars == <<active, activeroute, offered, flits, owner, bypassed>>

Channel == 0 .. CHANNELS - 1

None == "none"

Valid == {c \in Channel : offered[c] # None}

Last == {c \in Channel : offered[c] = "last"}

MuxInit ==
  /\ active = {0}
  /\ activeroute = FALSE
  /\ offered = [c \in Channel |-> None]
  /\ flits = [c \in Channel |-> 0]
  /\ owner = {}
  /\ bypassed = [c \in Channel |-> 0]

(* Upstream of channel c offers the next flit of its packet.               *)
Offer(c, kind) ==
  /\ offered[c] = None
  /\ kind = "body" => flits[c] + 1 < MaxFlits
  /\ offered' = [offered EXCEPT ![c] = kind]
  /\ flits' = [flits EXCEPT ![c] = @ + 1]
  /\ UNCHANGED <<active, activeroute, owner, bypassed>>

(* The flits taken from the channels in rdy, as the receiver sees them.    *)
Deliver(rdy) ==
  /\ offered' = [c \in Channel |-> IF c \in rdy THEN None ELSE offered[c]]
  /\ flits' = [c \in Channel |-> IF c \in rdy \cap Last THEN 0 ELSE flits[c]]
  /\ owner' = IF rdy = {} THEN owner ELSE rdy \ Last
  /\ bypassed' = [c \in Channel |->
       IF c \in rdy THEN 0
       ELSE IF rdy # {} /\ owner = {} /\ c \in Valid THEN bypassed[c] + 1
       ELSE bypassed[c]]

(* One clock edge.                                                         *)
MuxClock(out_ready) ==
  /\ active' = select(CHANNELS, active, activeroute, Valid, out_ready)
  /\ activeroute' = nxt_activeroute(CHANNELS, active, activeroute, Valid, Last, out_ready)
  /\ Deliver(mux_in_ready(CHANNELS, active, activeroute, Valid, out_ready) \cap Valid)

MuxNext ==
  \/ \E c \in Channel, kind \in {"body", "last"} : Offer(c, kind)
  \/ \E out_ready \in BOOLEAN : MuxClock(out_ready)

(* The clock runs, the receiver is not busy for ever, and every packet     *)
(* that was begun is continued.                                            *)
MuxFairness ==
  /\ WF_muxvars(MuxClock(TRUE))
  /\ \A c \in Channel :
       WF_muxvars(flits[c] > 0 /\ \E kind \in {"body", "last"} : Offer(c, kind))

MuxSpec == MuxInit /\ [][MuxNext]_muxvars /\ MuxFairness

-----------------------------------------------------------------------------
(* No flit is taken from a channel that offers none or from two channels   *)
(* at once, and none while the packet of another channel is open.          *)
OneFlitPerCycle ==
  LET rdy == mux_in_ready(CHANNELS, active, activeroute, Valid, TRUE)
  IN  /\ Cardinality(rdy) <= 1
      /\ rdy \subseteq Valid
      /\ owner # {} => rdy \subseteq owner

(* A packet leaves the multiplexer in one piece: while the packet of a     *)
(* channel is open at the output, the multiplexer is committed to that     *)
(* channel, and otherwise it is free.  (nxt_activeroute, in_ready)         *)
PacketsStayWhole ==
  /\ activeroute <=> owner # {}
  /\ owner # {} => active = owner
  /\ OneFlitPerCycle

(* Round robin: while a channel offers a header, at most every other       *)
(* channel gets one packet through before it.                              *)
BoundedBypass == \A c \in Channel : bypassed[c] <= CHANNELS - 1

(* Every flit offered is eventually taken.                                 *)
EveryFlitTaken == \A c \in Channel : offered[c] # None ~> offered[c] = None
=============================================================================
