----------------------------- MODULE NocMuxLogic -----------------------------
(***************************************************************************)
(* The combinational logic of noc_mux.  Its state is the register active,  *)
(* the channel granted last (one-hot, a set of channels 0 .. N - 1), and   *)
(* activeroute, which is set while a packet is under way.  Inputs are the  *)
(* set valid of channels that offer a flit, the set last of channels whose *)
(* flit ends a packet, and out_ready.                                      *)
(***************************************************************************)
EXTENDS Integers, ArbRR

(* Mutation: other channels compete while a packet is under way.           *)
req_masked_Always(activeroute, valid, out_ready) == IF out_ready THEN valid ELSE {}

req_masked(activeroute, valid, out_ready) ==
  IF ~activeroute /\ out_ready THEN valid ELSE {}

select(N, active, activeroute, valid, out_ready) ==
  nxt_gnt(N, req_masked(activeroute, valid, out_ready), TRUE, active)

(* Is a flit transferred to the output in this cycle?                      *)
mux_out_valid(active, activeroute, valid, out_ready) ==
  /\ out_ready
  /\ IF activeroute THEN valid \cap active # {} ELSE valid # {}

(* The channels that may advance.                                          *)
mux_in_ready(N, active, activeroute, valid, out_ready) ==
  IF ~mux_out_valid(active, activeroute, valid, out_ready) THEN {}
  ELSE IF activeroute THEN active
  ELSE select(N, active, activeroute, valid, out_ready)

mux_out_last(N, active, activeroute, valid, last, out_ready) ==
  select(N, active, activeroute, valid, out_ready) \cap last # {}

nxt_activeroute(N, active, activeroute, valid, last, out_ready) ==
  IF ~mux_out_valid(active, activeroute, valid, out_ready) THEN activeroute
  ELSE ~mux_out_last(N, active, activeroute, valid, last, out_ready)
=============================================================================
