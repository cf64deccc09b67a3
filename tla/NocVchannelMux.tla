--------------------------- MODULE NocVchannelMux ---------------------------
(***************************************************************************)
(* noc_vchannel_mux: the virtual channels of an output share one link.     *)
(* The flits of a packet may interleave with those of other channels.      *)
(* Both sides are noc_buffers: a channel that offers a flit keeps offering *)
(* it, and a receiver that is ready stays ready until it takes a flit.     *)
(***************************************************************************)
EXTENDS Integers, FiniteSets, ArbRR

CONSTANTS CHANNELS

VARIABLES
  vselect,    \* the channel on the link, one-hot
  in_valid,   \* channels that offer a flit
  out_ready,  \* channels whose receiver has room
  waited      \* history: flits of others sent while a channel could have
              \* been (counted up to CHANNELS, one more than is allowed)

vars == <<vselect, in_valid, out_ready, waited>>

Channel == 0 .. CHANNELS - 1

Init ==
  /\ vselect = {0}
  /\ in_valid = {}
  /\ out_ready \in SUBSET Channel
  /\ waited = [c \in Channel |-> 0]

(* Environment: a buffer gets a flit to send, or room for one more.        *)
FlitArrives(c) ==
  /\ c \notin in_valid
  /\ in_valid' = in_valid \cup {c}
  /\ UNCHANGED <<vselect, out_ready, waited>>

RoomAppears(c) ==
  /\ c \notin out_ready
  /\ out_ready' = out_ready \cup {c}
  /\ UNCHANGED <<vselect, in_valid, waited>>

nxt_select == nxt_gnt(CHANNELS, in_valid \cap out_ready, TRUE, vselect)

(* The channels whose flit crosses the link in this cycle.                 *)
Sent == in_valid \cap vselect \cap out_ready

(* One clock edge.  The channel that sent may have its next flit ready and *)
(* its receiver may have room for it.                                      *)
Clock(more, room) ==
  /\ vselect' = nxt_select
  /\ in_valid' = (in_valid \ Sent) \cup (Sent \cap more)
  /\ out_ready' = (out_ready \ Sent) \cup (Sent \cap room)
  /\ waited' = [c \in Channel |->
       IF c \in Sent \/ c \notin in_valid \cap out_ready THEN 0
       ELSE IF Sent # {} /\ waited[c] < CHANNELS THEN waited[c] + 1
       ELSE waited[c]]

Next ==
  \/ \E c \in Channel : FlitArrives(c) \/ RoomAppears(c)
  \/ \E more, room \in SUBSET Channel : Clock(more, room)

Fairness == WF_vars(\E more, room \in SUBSET Channel : Clock(more, room))

Spec == Init /\ [][Next]_vars /\ Fairness

-----------------------------------------------------------------------------
(* A channel that could send lets every other channel pass at most once.   *)
BoundedWait == \A c \in Channel : waited[c] <= CHANNELS - 1

(* A channel that has a flit and whose receiver has room is served, even   *)
(* if the receivers of the other channels are full for ever: the virtual   *)
(* channels do not block each other.                                       *)
ChannelsIndependent ==
  \A c \in Channel : c \in in_valid \cap out_ready ~> c \in Sent
=============================================================================
