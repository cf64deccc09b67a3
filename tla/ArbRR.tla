------------------------------- MODULE ArbRR -------------------------------
(***************************************************************************)
(* arb_rr: the round-robin arbiter of noc_mux, noc_vchannel_mux and the    *)
(* bus.  It has no state: from the requests and the current grant it       *)
(* computes the next grant.  A vector of N bits is the set of the indices  *)
(* whose bit is 1.                                                         *)
(***************************************************************************)
EXTENDS Integers

(* mask[i]: those served before i if they request, which are the           *)
(* participants to the right of i up to, and without, the grant holder.    *)
(* The bit at distance 1 is always computed, also for N = 1.               *)
mask(N, gnt, i) ==
  {(i - j) % N : j \in {d \in {1} \cup 2 .. N - 1 : \A l \in 1 .. d : (i - l) % N \notin gnt}}

(* Mutation: the grant holder keeps precedence over all others.            *)
nxt_gnt_Sticky(N, req, en, gnt) ==
  IF ~en \/ gnt \cap req # {} THEN gnt
  ELSE {k \in 0 .. N - 1 : \/ mask(N, gnt, k) \cap req = {} /\ k \in req
                           \/ req = {} /\ k \in gnt}

nxt_gnt(N, req, en, gnt) ==
  IF en THEN {k \in 0 .. N - 1 : \/ mask(N, gnt, k) \cap req = {} /\ k \in req
                                 \/ req = {} /\ k \in gnt}
  ELSE gnt
=============================================================================
