----------------------------- MODULE MCNocParts -----------------------------
(* The parts of routers and network adapters on small instances, each by   *)
(* itself: a behaviour picks one part and runs only that one.              *)
EXTENDS NocBuffer, NocMux

VARIABLE part

(* noc_vchannel_mux with three channels.                                   *)
VARIABLES vselect, vin_valid, vout_ready, waited
vcvars == <<vselect, vin_valid, vout_ready, waited>>
Vc == INSTANCE NocVchannelMux WITH CHANNELS <- 3, in_valid <- vin_valid, out_ready <- vout_ready

(* The instances of noc_demux in networkadapter_ct: class 0 goes to the    *)
(* message passing endpoint, class 1 to DMA, and the others are not mapped.*)
VARIABLES dactive, doffered, header
demuxvars == <<dactive, doffered, header>>
ClassBits == 0 .. 7
AdapterMapping == [class \in ClassBits |-> CASE class = 0 -> {0} [] class = 1 -> {1} [] OTHER -> {}]
Demux == INSTANCE NocDemux WITH CHANNELS <- 2, Class <- ClassBits, MAPPING <- AdapterMapping,
                                active <- dactive, offered <- doffered

(* mpbuffer_endpoint with buffers of three flits.                          *)
VARIABLES enabled, state_in, state_out, size_out, control_pending, control_flit, ingress, egress,
          noc_in, arriving, tx, rx, got, sent, left, answered
epvars == <<enabled, state_in, state_out, size_out, control_pending, control_flit, ingress, egress,
            noc_in, arriving, tx, rx, got, sent, left, answered>>
Ep == INSTANCE MpBufferEndpoint WITH SIZE <- 2, X_LAST <- FALSE, Lengths <- {1, 3}, TxPackets <- 2, RxPackets <- 2

(* The registers that are not reset matter only in their own part.         *)
AnyFlit == CHOOSE f \in Flit : TRUE

MCInit ==
  /\ part \in {"buffer", "mux", "vchannels", "demux", "endpoint"}
  /\ part # "buffer" => ram = [a \in 0 .. DEPTH - 1 |-> AnyFlit] /\ out_reg = AnyFlit
  /\ part # "vchannels" => vout_ready = {}
  /\ part # "endpoint" => size_out = 0
  /\ Init /\ MuxInit /\ Vc!Init /\ Demux!Init /\ Ep!Init

MCNext ==
  \/ part = "buffer" /\ Next /\ UNCHANGED <<part, muxvars, vcvars, demuxvars, epvars>>
  \/ part = "mux" /\ MuxNext /\ UNCHANGED <<part, vars, vcvars, demuxvars, epvars>>
  \/ part = "vchannels" /\ Vc!Next /\ UNCHANGED <<part, vars, muxvars, demuxvars, epvars>>
  \/ part = "demux" /\ Demux!Next /\ UNCHANGED <<part, vars, muxvars, vcvars, epvars>>
  \/ part = "endpoint" /\ Ep!Next /\ UNCHANGED <<part, vars, muxvars, vcvars, demuxvars>>

(* The fairness of each part.                                              *)
MCFairness ==
  /\ WF_muxvars(part = "mux" /\ MuxClock(TRUE))
  /\ \A c \in Channel :
       WF_muxvars(part = "mux" /\ flits[c] > 0 /\ \E kind \in {"body", "last"} : Offer(c, kind))
  /\ WF_vcvars(part = "vchannels" /\ \E more, room \in SUBSET Vc!Channel : Vc!Clock(more, room))
  /\ \A c \in Demux!Channel :
       WF_demuxvars(part = "demux" /\ \E r \in SUBSET Demux!Channel : c \in r /\ Demux!Clock(r))
  /\ WF_<<noc_in, control_pending, left>>(
       part = "endpoint" /\ \E op \in Ep!Op, size \in {1, 3} : Ep!Clock(op, size, TRUE))

MCSpec == MCInit /\ [][MCNext]_<<part, vars, muxvars, vcvars, demuxvars, epvars>> /\ MCFairness

-----------------------------------------------------------------------------
(* The arbiters starve nobody: a channel with a header is passed over at   *)
(* most once for each of the others in noc_mux, and a virtual channel that *)
(* could send waits for at most as many flits.  (arb_rr)                   *)
BoundedWait == BoundedBypass /\ Vc!BoundedWait

(* A packet reaches the receiver that its header names, all flits but the  *)
(* last; there the endpoint and the driver agree on where they are in the  *)
(* packet read and in the packet written, and all flits that the driver    *)
(* writes leave in order and once, replies between them or not.            *)
(* (nxt_active, nxt_state_in, nxt_state_out, nxt_size_out, egress part)    *)
AdapterInStep ==
  Demux!BodyFollowsHeader /\ Ep!ReaderInStep /\ Ep!WriterInStep /\ Ep!DriverFlitsLeaveInOrder

(* Everyone is served in the end: every flit offered to noc_mux and        *)
(* noc_demux is taken, a virtual channel is served although the receivers  *)
(* of the others are full for ever, and a probe is answered even when the  *)
(* driver never reads the full ingress buffer.                             *)
(* (noc_mux, noc_vchannel_mux, noc_demux, control_pending)                 *)
EveryoneServed ==
  /\ EveryFlitTaken
  /\ Vc!ChannelsIndependent
  /\ Demux!EveryFlitTaken
  /\ Ep!ProbeAnswered
=============================================================================
