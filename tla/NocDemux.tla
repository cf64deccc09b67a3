------------------------------ MODULE NocDemux ------------------------------
(***************************************************************************)
(* noc_demux: the packets of one stream are distributed to receivers by    *)
(* the class in the header.  In the network adapter it separates message   *)
(* passing from DMA.  It stands behind a noc_buffer, which offers a flit   *)
(* until it is taken; the receivers are ready or not in each cycle.        *)
(* A vector of CHANNELS bits is the set of the indices whose bit is 1.     *)
(***************************************************************************)
EXTENDS Integers, FiniteSets

CONSTANTS
  CHANNELS,  \* number of receivers
  Class,     \* values of the class bits
  MAPPING    \* class -> set of receivers

Channel == 0 .. CHANNELS - 1

VARIABLES
  active,   \* receiver of the packet under way
  offered,  \* environment: the flit offered, or none
  header    \* history: class of the header of the packet offered, or none

vars == <<active, offered, header>>

None == -1

NoFlit == [class |-> None]

(* The bits that are the class in a header are payload in later flits.     *)
Flit == [class : Class, last : BOOLEAN]

-----------------------------------------------------------------------------
Select(class) == IF MAPPING[class] = {} THEN {0} ELSE MAPPING[class]

in_valid == offered # NoFlit

(* The receivers of the flit offered.                                      *)
Route == IF active = {} THEN Select(offered.class) ELSE active

out_valid == IF in_valid THEN Route ELSE {}

(* in_ready, where it matters: the flit offered is taken.                  *)
in_ready(out_ready) == in_valid /\ Route \cap out_ready # {}

(* The route is closed when the last flit is offered, taken or not.        *)
nxt_active ==
  IF ~in_valid THEN active
  ELSE IF active = {} THEN (IF offered.last THEN {} ELSE Select(offered.class))
  ELSE IF offered.last THEN {}
  ELSE active

-----------------------------------------------------------------------------
Init ==
  /\ active = {}
  /\ offered = NoFlit
  /\ header = None

(* Environment: the buffer offers the next flit.                           *)
Offer(flit) ==
  /\ offered = NoFlit
  /\ offered' = flit
  /\ header' = IF header = None THEN flit.class ELSE header
  /\ UNCHANGED active

(* One clock edge.                                                         *)
Clock(out_ready) ==
  /\ active' = nxt_active
  /\ offered' = IF in_ready(out_ready) THEN NoFlit ELSE offered
  /\ header' = IF in_ready(out_ready) /\ offered.last THEN None ELSE header

Next ==
  \/ \E flit \in Flit : Offer(flit)
  \/ \E out_ready \in SUBSET Channel : Clock(out_ready)

(* The clock runs, and every receiver is ready again and again.            *)
Fairness ==
  \A c \in Channel : WF_vars(\E out_ready \in SUBSET Channel : c \in out_ready /\ Clock(out_ready))

Spec == Init /\ [][Next]_vars /\ Fairness

-----------------------------------------------------------------------------
(* All flits of a packet but the last follow the header, also when the     *)
(* header had to wait and whatever the payload is.                         *)
BodyFollowsHeader ==
  in_valid /\ ~offered.last => out_valid = Select(header)

(* Every flit offered is taken by some receiver.                           *)
EveryFlitTaken == offered # NoFlit ~> offered = NoFlit

(* "Packets are preserved in the network", and the network "is agnostic to *)
(* the packet content, except for [...] the header": every flit, the last  *)
(* one included, goes to the receiver that the header selects.             *)
PacketsPreserved == in_valid => out_valid = Select(header)
=============================================================================
