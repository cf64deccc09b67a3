--------------------------- MODULE NocMux_proofs ---------------------------
(***************************************************************************)
(* noc_mux, noc_vchannel_mux and noc_demux for every number of channels:   *)
(* what the round-robin arbiter grants, that packets stay whole, that at   *)
(* most one flit is taken in a cycle, that no channel is passed over more  *)
(* often than there are others, and that packets follow their header.      *)
(***************************************************************************)
EXTENDS NocMux, FiniteSetTheorems, WellFoundedInduction, TLAPS

(* noc_vchannel_mux, which shares the arbiter.                             *)
VARIABLES vselect, vin_valid, vout_ready, waited

Vc == INSTANCE NocVchannelMux WITH in_valid <- vin_valid, out_ready <- vout_ready

(* noc_demux, on the other side of the network adapter.                    *)
CONSTANTS Class, MAPPING
VARIABLES dactive, doffered, header

Demux == INSTANCE NocDemux WITH active <- dactive, offered <- doffered

(* How many channels come before channel k after channel g was granted.    *)
Turn(g, k) == IF k > g THEN k - g - 1 ELSE k - g - 1 + CHANNELS

-----------------------------------------------------------------------------
(* The arbiter.                                                            *)

(* Counting down from a channel wraps around at most once.                 *)
LEMMA CountDown ==
  ASSUME NEW k \in Channel, NEW j \in 1 .. CHANNELS
  PROVE  (k - j) % CHANNELS = IF j <= k THEN k - j ELSE k - j + CHANNELS
<1>1. CHANNELS \in Nat /\ CHANNELS > 0 /\ k \in 0 .. CHANNELS - 1
  BY NocMuxAssumption DEF Channel
<1>2. CASE j <= k
  <2>1. k - j \in 0 .. CHANNELS - 1
    BY <1>1, <1>2
  <2> QED BY <1>1, <1>2, <2>1
<1>3. CASE j > k
  <2>1. k - j + CHANNELS \in 0 .. CHANNELS - 1
    BY <1>1, <1>3
  <2> QED BY <1>1, <1>3, <2>1
<1> QED BY <1>1, <1>2, <1>3

(* The mask of a channel names exactly the channels whose turn is earlier. *)
LEMMA MaskIsEarlierTurns ==
  ASSUME NEW g \in Channel, NEW k \in Channel, NEW m \in Channel
  PROVE  m \in mask(CHANNELS, {g}, k) <=> Turn(g, m) < Turn(g, k)
<1> DEFINE At(d) == IF d <= k THEN k - d ELSE k - d + CHANNELS
<1>1. /\ CHANNELS \in Nat /\ CHANNELS > 0
      /\ g \in 0 .. CHANNELS - 1 /\ k \in 0 .. CHANNELS - 1 /\ m \in 0 .. CHANNELS - 1
  BY NocMuxAssumption DEF Channel
<1>2. \A d \in 1 .. CHANNELS : (k - d) % CHANNELS = At(d)
  BY CountDown
<1>3. \A d \in 1 .. CHANNELS : At(d) = g <=> d = Turn(g, k) + 1
  BY <1>1 DEF Turn
<1>4. Turn(g, k) \in 0 .. CHANNELS - 1 /\ Turn(g, m) \in 0 .. CHANNELS - 1
  BY <1>1 DEF Turn
<1>5. \A d \in 1 .. Turn(g, k) : Turn(g, m) = Turn(g, k) - d <=> m = At(d)
  BY <1>1 DEF Turn
<1> DEFINE D == {d \in {1} \cup 2 .. CHANNELS - 1 : \A l \in 1 .. d : (k - l) % CHANNELS \notin {g}}
<1>6. mask(CHANNELS, {g}, k) = {(k - j) % CHANNELS : j \in D}
  BY DEF mask
<1> HIDE DEF At
<1>7. ASSUME NEW d \in D PROVE d \in 1 .. Turn(g, k)
  <2>1. d \in 1 .. CHANNELS /\ \A l \in 1 .. d : (k - l) % CHANNELS # g
    BY <1>1
  <2>2. CASE d >= Turn(g, k) + 1
    <3>1. Turn(g, k) + 1 \in 1 .. d /\ Turn(g, k) + 1 \in 1 .. CHANNELS
      BY <1>1, <1>4, <2>1, <2>2
    <3>2. (k - (Turn(g, k) + 1)) % CHANNELS = At(Turn(g, k) + 1)
      BY <1>2, <3>1
    <3>3. At(Turn(g, k) + 1) = g
      BY <1>3, <3>1
    <3> QED BY <2>1, <3>1, <3>2, <3>3
  <2> QED BY <1>4, <2>1, <2>2
<1>8. ASSUME NEW d \in 1 .. Turn(g, k) PROVE d \in D
  <2>1. d \in {1} \cup 2 .. CHANNELS - 1
    BY <1>1, <1>4
  <2>2. ASSUME NEW l \in 1 .. d PROVE (k - l) % CHANNELS \notin {g}
    <3>1. l \in 1 .. CHANNELS /\ l # Turn(g, k) + 1
      BY <1>1, <1>4
    <3> QED BY <1>2, <1>3, <3>1
  <2> QED BY <2>1, <2>2
<1> HIDE DEF D
<1>9. ASSUME NEW d \in 1 .. Turn(g, k) PROVE (k - d) % CHANNELS = At(d)
  <2>1. d \in 1 .. CHANNELS
    BY <1>1, <1>4
  <2> QED BY <1>2, <2>1
<1>10. m \in mask(CHANNELS, {g}, k) <=> \E d \in 1 .. Turn(g, k) : m = At(d)
  BY <1>6, <1>7, <1>8, <1>9
<1>11. ASSUME Turn(g, m) < Turn(g, k) PROVE \E d \in 1 .. Turn(g, k) : m = At(d)
  <2>1. /\ Turn(g, k) - Turn(g, m) \in 1 .. Turn(g, k)
        /\ Turn(g, m) = Turn(g, k) - (Turn(g, k) - Turn(g, m))
    BY <1>4, <1>11
  <2> QED BY <1>5, <2>1
<1>12. ASSUME NEW d \in 1 .. Turn(g, k), m = At(d) PROVE Turn(g, m) < Turn(g, k)
  BY <1>4, <1>5, <1>12
<1> QED BY <1>10, <1>11, <1>12

(* No two channels have the same turn.                                     *)
LEMMA TurnsDiffer ==
  ASSUME NEW g \in Channel
  PROVE  /\ \A k \in Channel : Turn(g, k) \in 0 .. CHANNELS - 1
         /\ \A k, m \in Channel : Turn(g, k) = Turn(g, m) => k = m
BY NocMuxAssumption DEF Channel, Turn

(* Without a request the grant stays; otherwise the requesting channel     *)
(* whose turn is first is granted, and no other.                           *)
LEMMA FirstTurnIsGranted ==
  ASSUME NEW g \in Channel, NEW req \in SUBSET Channel
  PROVE  /\ req = {} => nxt_gnt(CHANNELS, req, TRUE, {g}) = {g}
         /\ req # {} => \E k \in req : /\ nxt_gnt(CHANNELS, req, TRUE, {g}) = {k}
                                       /\ \A m \in req : Turn(g, k) <= Turn(g, m)
<1>1. nxt_gnt(CHANNELS, req, TRUE, {g}) =
        {k \in Channel : \/ mask(CHANNELS, {g}, k) \cap req = {} /\ k \in req
                         \/ req = {} /\ k \in {g}}
  BY DEF nxt_gnt, Channel
<1>2. CASE req = {}
  BY <1>1, <1>2
<1>3. CASE req # {}
  <2> DEFINE T == {Turn(g, m) : m \in req}
  <2>1. T \subseteq Nat /\ T # {}
    BY <1>3, TurnsDiffer
  <2>2. PICK x \in T : \A y \in T : ~(<<y, x>> \in OpToRel(<, Nat))
    BY <2>1, NatLessThanWellFounded, WFMin
  <2>3. ASSUME NEW y \in T PROVE x <= y
    <3>1. x \in Nat /\ y \in Nat
      BY <2>1
    <3>2. ~(y < x)
      BY <2>2, <3>1 DEF OpToRel
    <3> QED BY <3>1, <3>2
  <2>4. PICK k \in req : x = Turn(g, k)
    OBVIOUS
  <2>5. \A m \in req : Turn(g, k) <= Turn(g, m)
    BY <2>3, <2>4
  <2>6. \A m \in req : Turn(g, m) \in Int
    BY TurnsDiffer
  <2> HIDE DEF T
  <2>7. mask(CHANNELS, {g}, k) \cap req = {}
    <3>1. ASSUME NEW m \in req, m \in mask(CHANNELS, {g}, k) PROVE FALSE
      <4>1. Turn(g, m) < Turn(g, k)
        BY <3>1, MaskIsEarlierTurns
      <4> QED BY <2>5, <2>6, <4>1
    <3> QED BY <3>1
  <2>8. ASSUME NEW m \in req, mask(CHANNELS, {g}, m) \cap req = {} PROVE m = k
    <3>1. ~(Turn(g, k) < Turn(g, m))
      BY <2>8, MaskIsEarlierTurns
    <3>2. Turn(g, k) = Turn(g, m)
      BY <2>5, <2>6, <3>1
    <3> QED BY <3>2, TurnsDiffer
  <2>9. nxt_gnt(CHANNELS, req, TRUE, {g}) = {k}
    BY <1>1, <1>3, <2>7, <2>8
  <2> QED BY <1>3, <2>5, <2>9
<1> QED BY <1>2, <1>3

-----------------------------------------------------------------------------
(* The multiplexer.                                                        *)

(* One channel holds the grant, and a channel without a flit is not        *)
(* waiting for anything.                                                   *)
TypeOK ==
  /\ \E g \in Channel : active = {g}
  /\ activeroute \in BOOLEAN
  /\ offered \in [Channel -> {None, "body", "last"}]
  /\ owner \in SUBSET Channel
  /\ bypassed \in [Channel -> Nat]
  /\ \A c \in Channel : offered[c] = None => bypassed[c] = 0

(* What makes the bound inductive: a channel was not bypassed more often   *)
(* than there are channels after its turn.                                 *)
BypassedInTurn ==
  \A g \in active, c \in Channel : bypassed[c] + Turn(g, c) <= CHANNELS - 1

(* The multiplexer is committed to the channel whose packet is under way.  *)
Committed ==
  /\ activeroute <=> owner # {}
  /\ owner # {} => active = owner

MuxInv == TypeOK /\ Committed /\ BypassedInTurn

(* The grant, and what it does to the turns of those who wait.             *)
LEMMA Grant ==
  ASSUME NEW g \in Channel, NEW req \in SUBSET Channel
  PROVE  \E k \in Channel :
           /\ nxt_gnt(CHANNELS, req, TRUE, {g}) = {k}
           /\ req = {} => k = g
           /\ req # {} => k \in req
           /\ \A c \in req \ {k} : Turn(k, c) + 1 <= Turn(g, c)
<1>1. CASE req = {}
  BY <1>1, FirstTurnIsGranted
<1>2. CASE req # {}
  <2>1. PICK k \in req : /\ nxt_gnt(CHANNELS, req, TRUE, {g}) = {k}
                         /\ \A m \in req : Turn(g, k) <= Turn(g, m)
    BY <1>2, FirstTurnIsGranted
  <2>2. ASSUME NEW c \in req \ {k} PROVE Turn(k, c) + 1 <= Turn(g, c)
    <3>1. Turn(g, k) <= Turn(g, c) /\ c # k /\ c \in Channel /\ k \in Channel
      BY <2>1
    <3> QED BY <3>1, NocMuxAssumption DEF Channel, Turn
  <2> QED BY <1>2, <2>1, <2>2
<1> QED BY <1>1, <1>2

(* In a state of the invariant: no flit is taken, or the one flit of the   *)
(* channel that is then granted, which is the owner if there is one.       *)
LEMMA Taken ==
  ASSUME MuxInv, NEW out_ready \in BOOLEAN,
         NEW g \in Channel, active = {g}
  PROVE  \E k \in Channel :
           /\ select(CHANNELS, active, activeroute, Valid, out_ready) = {k}
           /\ activeroute => k = g
           /\ \/ /\ ~mux_out_valid(active, activeroute, Valid, out_ready)
                 /\ mux_in_ready(CHANNELS, active, activeroute, Valid, out_ready) = {}
                 /\ k = g
              \/ /\ mux_out_valid(active, activeroute, Valid, out_ready)
                 /\ mux_in_ready(CHANNELS, active, activeroute, Valid, out_ready) = {k}
                 /\ k \in Valid
                 /\ ~activeroute => \A c \in Valid \ {k} : Turn(k, c) + 1 <= Turn(g, c)
<1> DEFINE req == req_masked(activeroute, Valid, out_ready)
<1>1. Valid \in SUBSET Channel /\ req \in SUBSET Channel
  BY DEF Valid, req_masked
<1>2. PICK k \in Channel :
         /\ nxt_gnt(CHANNELS, req, TRUE, {g}) = {k}
         /\ req = {} => k = g
         /\ req # {} => k \in req
         /\ \A c \in req \ {k} : Turn(k, c) + 1 <= Turn(g, c)
  BY <1>1, Grant
<1>3. select(CHANNELS, active, activeroute, Valid, out_ready) = {k}
  BY <1>2 DEF select
<1>4. activeroute => req = {}
  BY DEF req_masked
<1>5. CASE ~mux_out_valid(active, activeroute, Valid, out_ready)
  <2>1. mux_in_ready(CHANNELS, active, activeroute, Valid, out_ready) = {}
    BY <1>5 DEF mux_in_ready
  <2>2. req = {}
    BY <1>5 DEF mux_out_valid, req_masked
  <2> QED BY <1>2, <1>3, <1>5, <2>1, <2>2
<1>6. CASE mux_out_valid(active, activeroute, Valid, out_ready)
  <2>1. CASE activeroute
    <3>1. /\ mux_in_ready(CHANNELS, active, activeroute, Valid, out_ready) = {g}
          /\ g \in Valid /\ k = g
      BY <1>2, <1>4, <1>6, <2>1 DEF mux_in_ready, mux_out_valid
    <3> QED BY <1>3, <1>6, <2>1, <3>1
  <2>2. CASE ~activeroute
    <3>1. req = Valid /\ req # {}
      BY <1>6, <2>2 DEF mux_out_valid, req_masked
    <3>2. mux_in_ready(CHANNELS, active, activeroute, Valid, out_ready) = {k}
      BY <1>3, <1>6, <2>2 DEF mux_in_ready
    <3> QED BY <1>2, <1>3, <1>6, <2>2, <3>1, <3>2
  <2> QED BY <2>1, <2>2
<1> QED BY <1>5, <1>6

LEMMA MuxInitInv ==
  ASSUME MuxInit
  PROVE  MuxInv
<1>1. 0 \in Channel
  BY NocMuxAssumption DEF Channel
<1>2. TypeOK /\ Committed
  BY <1>1 DEF MuxInit, TypeOK, Committed, None
<1>3. BypassedInTurn
  BY <1>1, TurnsDiffer DEF MuxInit, BypassedInTurn
<1> QED BY <1>2, <1>3 DEF MuxInv

(* A new flit: its channel was not waiting before.                         *)
LEMMA OfferKeepsInv ==
  ASSUME MuxInv, NEW c \in Channel, NEW kind \in {"body", "last"}, Offer(c, kind)
  PROVE  MuxInv'
<1>1. offered[c] = None /\ offered' = [offered EXCEPT ![c] = kind]
      /\ UNCHANGED <<active, activeroute, owner, bypassed>>
  BY DEF Offer
<1>2. TypeOK'
  BY <1>1 DEF MuxInv, TypeOK, None
<1>3. Committed' /\ BypassedInTurn'
  BY <1>1 DEF MuxInv, Committed, BypassedInTurn
<1> QED BY <1>2, <1>3 DEF MuxInv

(* A clock edge: either nothing is taken, or one flit, and then those who  *)
(* are passed over have their turn earlier than before.                    *)
LEMMA ClockKeepsInv ==
  ASSUME MuxInv, NEW out_ready \in BOOLEAN, MuxClock(out_ready)
  PROVE  MuxInv'
<1> DEFINE rdy == mux_in_ready(CHANNELS, active, activeroute, Valid, out_ready) \cap Valid
<1>1. PICK g \in Channel : active = {g}
  BY DEF MuxInv, TypeOK
<1>2. PICK k \in Channel :
           /\ select(CHANNELS, active, activeroute, Valid, out_ready) = {k}
           /\ activeroute => k = g
           /\ \/ /\ ~mux_out_valid(active, activeroute, Valid, out_ready)
                 /\ mux_in_ready(CHANNELS, active, activeroute, Valid, out_ready) = {}
                 /\ k = g
              \/ /\ mux_out_valid(active, activeroute, Valid, out_ready)
                 /\ mux_in_ready(CHANNELS, active, activeroute, Valid, out_ready) = {k}
                 /\ k \in Valid
                 /\ ~activeroute => \A c \in Valid \ {k} : Turn(k, c) + 1 <= Turn(g, c)
  BY <1>1, Taken
<1>3. active' = {k} /\ Deliver(rdy)
  BY <1>2 DEF MuxClock
<1>4. /\ offered' = [c \in Channel |-> IF c \in rdy THEN None ELSE offered[c]]
      /\ owner' = IF rdy = {} THEN owner ELSE rdy \ Last
      /\ bypassed' = [c \in Channel |->
           IF c \in rdy THEN 0
           ELSE IF rdy # {} /\ owner = {} /\ c \in Valid THEN bypassed[c] + 1
           ELSE bypassed[c]]
  BY <1>3 DEF Deliver
<1>5. \A c \in Channel : c \in Valid <=> offered[c] # None
  BY DEF Valid
<1>6. /\ bypassed \in [Channel -> Nat]
      /\ \A c \in Channel : offered[c] = None => bypassed[c] = 0
      /\ \A c \in Channel : bypassed[c] + Turn(g, c) <= CHANNELS - 1
      /\ owner = {} <=> ~activeroute
      /\ owner # {} => owner = {g}
  BY <1>1 DEF MuxInv, TypeOK, BypassedInTurn, Committed
<1>7. activeroute' = IF ~mux_out_valid(active, activeroute, Valid, out_ready) THEN activeroute
                     ELSE ~({k} \cap Last # {})
  BY <1>2 DEF MuxClock, nxt_activeroute, mux_out_last
<1>8. CASE ~mux_out_valid(active, activeroute, Valid, out_ready)
  <2>1. rdy = {} /\ k = g
    BY <1>2, <1>8
  <2>2. TypeOK'
    BY <1>3, <1>4, <1>7, <1>8, <2>1 DEF MuxInv, TypeOK
  <2>3. Committed'
    BY <1>1, <1>3, <1>4, <1>7, <1>8, <2>1 DEF MuxInv, Committed
  <2>4. BypassedInTurn'
    BY <1>3, <1>4, <1>6, <2>1 DEF BypassedInTurn
  <2> QED BY <2>2, <2>3, <2>4 DEF MuxInv
<1>9. CASE mux_out_valid(active, activeroute, Valid, out_ready)
  <2>1. rdy = {k} /\ k \in Valid
    BY <1>2, <1>9
  <2>2. owner' = {k} \ Last /\ activeroute' = (k \notin Last)
    BY <1>4, <1>7, <1>9, <2>1
  <2> HIDE DEF rdy
  <2>3. \A c \in Channel : bypassed'[c] \in Nat /\ (offered'[c] = None => bypassed'[c] = 0)
    BY <1>4, <1>5, <1>6, <2>1
  <2>4. TypeOK'
    <3>1. bypassed' \in [Channel -> Nat] /\ owner' \in SUBSET Channel /\ activeroute' \in BOOLEAN
      BY <1>4, <2>2, <2>3
    <3>2. offered' \in [Channel -> {None, "body", "last"}]
      BY <1>4 DEF MuxInv, TypeOK
    <3> QED BY <1>3, <2>3, <3>1, <3>2 DEF TypeOK
  <2>5. Committed'
    BY <1>3, <2>2 DEF Committed
  <2>6. ASSUME NEW c \in Channel PROVE bypassed'[c] + Turn(k, c) <= CHANNELS - 1
    <3>1. Turn(k, c) \in 0 .. CHANNELS - 1 /\ Turn(g, c) \in 0 .. CHANNELS - 1 /\ CHANNELS \in Nat
      BY TurnsDiffer, NocMuxAssumption
    <3>2. bypassed[c] \in Nat /\ bypassed[c] + Turn(g, c) <= CHANNELS - 1
      BY <1>6
    <3>3. CASE c = k
      BY <1>4, <2>1, <3>1, <3>3
    <3>4. CASE c # k /\ c \notin Valid
      <4>1. bypassed'[c] = 0
        BY <1>4, <1>5, <1>6, <2>1, <3>4
      <4> QED BY <3>1, <4>1
    <3>5. CASE c # k /\ c \in Valid /\ activeroute
      <4>1. bypassed'[c] = bypassed[c] /\ k = g
        BY <1>2, <1>4, <1>6, <2>1, <3>5
      <4> QED BY <3>2, <4>1
    <3>6. CASE c # k /\ c \in Valid /\ ~activeroute
      <4>1. bypassed'[c] = bypassed[c] + 1
        BY <1>4, <1>6, <2>1, <3>6
      <4>2. Turn(k, c) + 1 <= Turn(g, c)
        BY <1>2, <1>9, <3>6
      <4> QED BY <3>1, <3>2, <4>1, <4>2
    <3> QED BY <3>3, <3>4, <3>5, <3>6
  <2>7. BypassedInTurn'
    BY <1>3, <2>6 DEF BypassedInTurn
  <2> QED BY <2>4, <2>5, <2>7 DEF MuxInv
<1> QED BY <1>8, <1>9

LEMMA MuxInvariant == MuxSpec => []MuxInv
<1>1. MuxInit => MuxInv
  BY MuxInitInv
<1>2. MuxInv /\ [MuxNext]_muxvars => MuxInv'
  <2> SUFFICES ASSUME MuxInv, [MuxNext]_muxvars PROVE MuxInv'
    OBVIOUS
  <2>1. CASE \E c \in Channel, kind \in {"body", "last"} : Offer(c, kind)
    BY <2>1, OfferKeepsInv
  <2>2. CASE \E out_ready \in BOOLEAN : MuxClock(out_ready)
    BY <2>2, ClockKeepsInv
  <2>3. CASE UNCHANGED muxvars
    BY <2>3 DEF muxvars, MuxInv, TypeOK, Committed, BypassedInTurn
  <2> QED BY <2>1, <2>2, <2>3 DEF MuxNext
<1> QED BY <1>1, <1>2, PTL DEF MuxSpec

(* In every state at most one channel may advance, one that offers a flit, *)
(* and only the owner of the packet under way.                             *)
LEMMA OneAtATime ==
  ASSUME MuxInv
  PROVE  OneFlitPerCycle
<1>1. PICK g \in Channel : active = {g}
  BY DEF MuxInv, TypeOK
<1> DEFINE rdy == mux_in_ready(CHANNELS, active, activeroute, Valid, TRUE)
<1>2. PICK k \in Channel :
        /\ activeroute => k = g
        /\ rdy = {} \/ (rdy = {k} /\ k \in Valid)
  BY <1>1, Taken
<1>3. Cardinality({}) = 0 /\ Cardinality({k}) = 1
  BY FS_EmptySet, FS_Singleton
<1>4. owner # {} => activeroute /\ owner = {g}
  BY <1>1 DEF MuxInv, Committed
<1> HIDE DEF rdy
<1>5. Cardinality(rdy) <= 1 /\ rdy \subseteq Valid /\ (owner # {} => rdy \subseteq owner)
  BY <1>2, <1>3, <1>4
<1> QED BY <1>5 DEF OneFlitPerCycle, rdy

(* For every number of channels and packets of any length: while the       *)
(* packet of a channel is open at the output, noc_mux is committed to that *)
(* channel, otherwise it is free, and in each cycle one flit is taken at   *)
(* most.  (nxt_activeroute, req_masked, in_ready)                          *)
THEOREM WholePackets == MuxSpec => []PacketsStayWhole
<1>1. MuxInv => PacketsStayWhole
  BY OneAtATime DEF MuxInv, Committed, PacketsStayWhole
<1> QED BY <1>1, MuxInvariant, PTL

(* For every number of channels: while a channel offers a header, at most  *)
(* every other channel gets one packet through before it.  (arb_rr)        *)
THEOREM RoundRobin == MuxSpec => []BoundedBypass
<1>1. ASSUME MuxInv PROVE BoundedBypass
  <2>1. PICK g \in Channel : active = {g}
    BY <1>1 DEF MuxInv, TypeOK
  <2>2. ASSUME NEW c \in Channel PROVE bypassed[c] <= CHANNELS - 1
    <3>1. bypassed[c] \in Nat /\ bypassed[c] + Turn(g, c) <= CHANNELS - 1
      BY <1>1, <2>1 DEF MuxInv, TypeOK, BypassedInTurn
    <3>2. Turn(g, c) \in 0 .. CHANNELS - 1 /\ CHANNELS \in Nat
      BY TurnsDiffer, NocMuxAssumption
    <3> QED BY <3>1, <3>2
  <2> QED BY <2>2 DEF BoundedBypass
<1> QED BY <1>1, MuxInvariant, PTL

-----------------------------------------------------------------------------
(* The virtual channels.                                                   *)

(* The flits of others that may still be sent before one of channel c,     *)
(* when channel g is on the link.                                          *)
Ahead(g, c) == IF c = g THEN 0 ELSE Turn(g, c) + 1

VcType ==
  /\ \E g \in Channel : vselect = {g}
  /\ vin_valid \in SUBSET Channel
  /\ vout_ready \in SUBSET Channel
  /\ waited \in [Channel -> Nat]
  /\ \A c \in Channel \ (vin_valid \cap vout_ready) : waited[c] = 0

WaitedInTurn ==
  \A g \in vselect, c \in Channel : waited[c] + Ahead(g, c) <= CHANNELS - 1

VcInv == VcType /\ WaitedInTurn

LEMMA AheadBounded ==
  ASSUME NEW g \in Channel, NEW c \in Channel
  PROVE  Ahead(g, c) \in 0 .. CHANNELS - 1
BY NocMuxAssumption DEF Channel, Turn, Ahead

(* A channel that requests and is not on the link comes closer.            *)
LEMMA GrantComesCloser ==
  ASSUME NEW g \in Channel, NEW req \in SUBSET Channel
  PROVE  \E k \in Channel :
           /\ nxt_gnt(CHANNELS, req, TRUE, {g}) = {k}
           /\ \A c \in req \ {g} : Ahead(k, c) + 1 <= Ahead(g, c)
<1>1. PICK k \in Channel :
        /\ nxt_gnt(CHANNELS, req, TRUE, {g}) = {k}
        /\ \A c \in req \ {k} : Turn(k, c) + 1 <= Turn(g, c)
  BY Grant
<1>2. ASSUME NEW c \in req \ {g} PROVE Ahead(k, c) + 1 <= Ahead(g, c)
  <2>1. Turn(k, c) \in Nat /\ Turn(g, c) \in Nat
    BY TurnsDiffer
  <2>2. Ahead(g, c) = Turn(g, c) + 1
    BY DEF Ahead
  <2>3. CASE c = k
    BY <2>1, <2>2, <2>3 DEF Ahead
  <2>4. CASE c # k
    BY <1>1, <2>1, <2>2, <2>4 DEF Ahead
  <2> QED BY <2>3, <2>4
<1> QED BY <1>1, <1>2

LEMMA VcInitInv ==
  ASSUME Vc!Init
  PROVE  VcInv
<1>1. 0 \in Channel /\ Vc!Channel = Channel
  BY NocMuxAssumption DEF Channel, Vc!Channel
<1>2. VcType
  BY <1>1 DEF Vc!Init, VcType
<1>3. WaitedInTurn
  BY <1>1, AheadBounded DEF Vc!Init, WaitedInTurn
<1> QED BY <1>2, <1>3 DEF VcInv

(* A flit or room appears where one was missing: nobody waits longer.      *)
LEMMA ArrivalKeepsInv ==
  ASSUME VcInv, NEW c \in Channel, Vc!FlitArrives(c) \/ Vc!RoomAppears(c)
  PROVE  VcInv'
<1>1. /\ vin_valid' = vin_valid \cup {c} \/ vin_valid' = vin_valid
      /\ vout_ready' = vout_ready \cup {c} \/ vout_ready' = vout_ready
      /\ UNCHANGED <<vselect, waited>>
  BY DEF Vc!FlitArrives, Vc!RoomAppears
<1>2. VcType'
  BY <1>1 DEF VcInv, VcType
<1>3. WaitedInTurn'
  BY <1>1 DEF VcInv, WaitedInTurn
<1> QED BY <1>2, <1>3 DEF VcInv

(* A clock edge: who could have sent and did not has come closer, and      *)
(* waits for one flit more at most.                                        *)
LEMMA VcClockKeepsInv ==
  ASSUME VcInv, NEW more \in SUBSET Channel, NEW room \in SUBSET Channel, Vc!Clock(more, room)
  PROVE  VcInv'
<1> DEFINE req == vin_valid \cap vout_ready
           sent == vin_valid \cap vselect \cap vout_ready
<1>1. PICK g \in Channel : vselect = {g}
  BY DEF VcInv, VcType
<1>2. PICK k \in Channel :
        /\ nxt_gnt(CHANNELS, req, TRUE, {g}) = {k}
        /\ \A c \in req \ {g} : Ahead(k, c) + 1 <= Ahead(g, c)
  <2>1. req \in SUBSET Channel
    BY DEF VcInv, VcType
  <2> QED BY <2>1, GrantComesCloser
<1>3. /\ vselect' = {k}
      /\ vin_valid' = (vin_valid \ sent) \cup (sent \cap more)
      /\ vout_ready' = (vout_ready \ sent) \cup (sent \cap room)
      /\ waited' = [c \in Channel |->
           IF c \in sent \/ c \notin req THEN 0
           ELSE IF sent # {} /\ waited[c] < CHANNELS THEN waited[c] + 1
           ELSE waited[c]]
  <2>1. Vc!Sent = sent /\ Vc!Channel = Channel /\ Vc!nxt_select = {k}
    BY <1>1, <1>2 DEF Vc!Sent, Vc!Channel, Channel, Vc!nxt_select, Vc!nxt_gnt, Vc!mask, nxt_gnt, mask
  <2> QED BY <2>1 DEF Vc!Clock
<1>4. waited \in [Channel -> Nat] /\ \A c \in Channel : waited[c] + Ahead(g, c) <= CHANNELS - 1
  BY <1>1 DEF VcInv, VcType, WaitedInTurn
<1>5. VcType'
  <2>1. vin_valid' \in SUBSET Channel /\ vout_ready' \in SUBSET Channel
    BY <1>3 DEF VcInv, VcType
  <2>2. waited' \in [Channel -> Nat]
    BY <1>3, <1>4
  <2>3. ASSUME NEW c \in Channel \ (vin_valid' \cap vout_ready') PROVE waited'[c] = 0
    <3>1. c \in sent \/ c \notin req
      BY <1>3, <2>3
    <3> QED BY <1>3, <3>1
  <2> QED BY <1>3, <2>1, <2>2, <2>3 DEF VcType
<1>6. ASSUME NEW c \in Channel PROVE waited'[c] + Ahead(k, c) <= CHANNELS - 1
  <2>1. Ahead(k, c) \in 0 .. CHANNELS - 1 /\ Ahead(g, c) \in 0 .. CHANNELS - 1 /\ CHANNELS \in Nat
    BY AheadBounded, NocMuxAssumption
  <2>2. waited[c] \in Nat /\ waited[c] + Ahead(g, c) <= CHANNELS - 1
    BY <1>4
  <2>3. CASE c \in sent \/ c \notin req
    BY <1>3, <2>1, <2>3
  <2>4. CASE c \notin sent /\ c \in req
    <3>1. waited'[c] <= waited[c] + 1 /\ waited'[c] \in Nat
      BY <1>3, <2>2, <2>4
    <3>2. Ahead(k, c) + 1 <= Ahead(g, c)
      BY <1>1, <1>2, <2>4
    <3> QED BY <2>1, <2>2, <3>1, <3>2
  <2> QED BY <2>3, <2>4
<1>7. WaitedInTurn'
  BY <1>3, <1>6 DEF WaitedInTurn
<1> QED BY <1>5, <1>7 DEF VcInv

(* For every number of virtual channels: a channel that could send lets    *)
(* every other channel send at most one flit before it.                    *)
(* (noc_vchannel_mux, arb_rr)                                              *)
THEOREM VirtualChannelsTakeTurns == Vc!Spec => []Vc!BoundedWait
<1>1. Vc!Init => VcInv
  BY VcInitInv
<1>2. VcInv /\ [Vc!Next]_Vc!vars => VcInv'
  <2> SUFFICES ASSUME VcInv, [Vc!Next]_Vc!vars PROVE VcInv'
    OBVIOUS
  <2>1. Vc!Channel = Channel
    BY DEF Vc!Channel, Channel
  <2>2. CASE \E c \in Channel : Vc!FlitArrives(c) \/ Vc!RoomAppears(c)
    BY <2>2, ArrivalKeepsInv
  <2>3. CASE \E more, room \in SUBSET Channel : Vc!Clock(more, room)
    BY <2>3, VcClockKeepsInv
  <2>4. CASE UNCHANGED Vc!vars
    BY <2>4 DEF Vc!vars, VcInv, VcType, WaitedInTurn
  <2> QED BY <2>1, <2>2, <2>3, <2>4 DEF Vc!Next
<1>3. ASSUME VcInv PROVE Vc!BoundedWait
  <2>1. PICK g \in Channel : vselect = {g}
    BY <1>3 DEF VcInv, VcType
  <2>2. ASSUME NEW c \in Channel PROVE waited[c] <= CHANNELS - 1
    <3>1. waited[c] \in Nat /\ waited[c] + Ahead(g, c) <= CHANNELS - 1
      BY <1>3, <2>1 DEF VcInv, VcType, WaitedInTurn
    <3>2. Ahead(g, c) \in 0 .. CHANNELS - 1 /\ CHANNELS \in Nat
      BY AheadBounded, NocMuxAssumption
    <3> QED BY <3>1, <3>2
  <2> QED BY <2>2 DEF Vc!BoundedWait, Vc!Channel, Channel
<1> QED BY <1>1, <1>2, <1>3, PTL DEF Vc!Spec

-----------------------------------------------------------------------------
(* The demultiplexer.                                                      *)

(* The route follows the header of the packet offered; without a route the *)
(* header itself is offered, or the last flit is still waiting.            *)
DemuxInv ==
  /\ doffered \in Demux!Flit \cup {Demux!NoFlit}
  /\ header \in Class \cup {Demux!None}
  /\ doffered # Demux!NoFlit => header # Demux!None
  /\ dactive # {} => header # Demux!None /\ dactive = Demux!Select(header)
  /\ dactive = {} /\ header # Demux!None =>
       doffered \in Demux!Flit /\ (doffered.last \/ doffered.class = header)

LEMMA DemuxOfferKeepsInv ==
  ASSUME Class \subseteq Nat, DemuxInv, NEW flit \in Demux!Flit, Demux!Offer(flit)
  PROVE  DemuxInv'
<1>1. flit.class \in Class /\ flit.class # Demux!None
  BY DEF Demux!Flit, Demux!None
<1>2. /\ doffered = Demux!NoFlit /\ doffered' = flit /\ dactive' = dactive
      /\ header' = IF header = Demux!None THEN flit.class ELSE header
  BY DEF Demux!Offer
<1>3. flit # Demux!NoFlit /\ Demux!NoFlit \notin Demux!Flit
  BY DEF Demux!Flit, Demux!NoFlit
<1>4. CASE header = Demux!None
  <2>1. header' = flit.class /\ dactive = {}
    BY <1>2, <1>4 DEF DemuxInv
  <2> QED BY <1>1, <1>2, <2>1 DEF DemuxInv
<1>5. CASE header # Demux!None
  <2>1. header' = header /\ dactive # {} /\ dactive = Demux!Select(header) /\ header \in Class
    BY <1>2, <1>3, <1>5 DEF DemuxInv
  <2> QED BY <1>2, <1>5, <2>1 DEF DemuxInv
<1> QED BY <1>4, <1>5

(* A clock edge: the route opens with the header, stays with the body and  *)
(* closes when the last flit is offered.                                   *)
LEMMA DemuxClockKeepsInv ==
  ASSUME Class \subseteq Nat, DemuxInv, NEW out_ready, Demux!Clock(out_ready)
  PROVE  DemuxInv'
<1>1. /\ dactive' = Demux!nxt_active
      /\ doffered' = IF Demux!in_ready(out_ready) THEN Demux!NoFlit ELSE doffered
      /\ header' = IF Demux!in_ready(out_ready) /\ doffered.last THEN Demux!None ELSE header
  BY DEF Demux!Clock
<1>2. CASE doffered = Demux!NoFlit
  <2>1. UNCHANGED <<dactive, doffered, header>>
    BY <1>1, <1>2 DEF Demux!nxt_active, Demux!in_ready, Demux!in_valid
  <2> QED BY <2>1 DEF DemuxInv
<1>3. CASE doffered # Demux!NoFlit
  <2>1. /\ doffered \in Demux!Flit /\ doffered.last \in BOOLEAN
        /\ header \in Class /\ header # Demux!None
    BY <1>3 DEF DemuxInv, Demux!Flit
  <2>2. CASE doffered.last
    <3>1. dactive' = {}
      BY <1>1, <1>3, <2>2 DEF Demux!nxt_active, Demux!in_valid
    <3>2. CASE Demux!in_ready(out_ready)
      BY <1>1, <2>1, <2>2, <3>1, <3>2 DEF DemuxInv
    <3>3. CASE ~Demux!in_ready(out_ready)
      BY <1>1, <1>3, <2>1, <2>2, <3>1, <3>3 DEF DemuxInv
    <3> QED BY <3>2, <3>3
  <2>3. CASE ~doffered.last
    <3>1. dactive' = Demux!Select(header) /\ Demux!Select(header) # {}
      <4>1. \A c \in Class : Demux!Select(c) # {}
        BY DEF Demux!Select
      <4>2. CASE dactive = {}
        <5>1. doffered.class = header
          BY <2>1, <2>3, <4>2 DEF DemuxInv
        <5>2. dactive' = Demux!Select(doffered.class)
          BY <1>1, <1>3, <2>3, <4>2 DEF Demux!nxt_active, Demux!in_valid
        <5> QED BY <2>1, <4>1, <5>1, <5>2
      <4>3. CASE dactive # {}
        <5>1. dactive = Demux!Select(header)
          BY <4>3 DEF DemuxInv
        <5>2. dactive' = dactive
          BY <1>1, <1>3, <2>3, <4>3 DEF Demux!nxt_active, Demux!in_valid
        <5> QED BY <2>1, <4>1, <5>1, <5>2
      <4> QED BY <4>2, <4>3
    <3>2. header' = header /\ doffered' \in {doffered, Demux!NoFlit}
      BY <1>1, <2>3
    <3> QED BY <2>1, <3>1, <3>2 DEF DemuxInv
  <2> QED BY <2>1, <2>2, <2>3
<1> QED BY <1>2, <1>3

(* For every number of receivers, set of classes and mapping: all flits of *)
(* a packet but the last go where the header says, also when the header    *)
(* had to wait and whatever the payload is.  (noc_demux)                   *)
THEOREM BodiesFollowHeaders ==
  ASSUME Class \subseteq Nat
  PROVE  Demux!Spec => []Demux!BodyFollowsHeader
<1>1. Demux!Init => DemuxInv
  BY DEF Demux!Init, DemuxInv
<1>2. DemuxInv /\ [Demux!Next]_Demux!vars => DemuxInv'
  <2> SUFFICES ASSUME DemuxInv, [Demux!Next]_Demux!vars PROVE DemuxInv'
    OBVIOUS
  <2>1. CASE \E flit \in Demux!Flit : Demux!Offer(flit)
    BY <2>1, DemuxOfferKeepsInv
  <2>2. CASE \E out_ready \in SUBSET Demux!Channel : Demux!Clock(out_ready)
    BY <2>2, DemuxClockKeepsInv
  <2>3. CASE UNCHANGED Demux!vars
    BY <2>3 DEF Demux!vars, DemuxInv
  <2> QED BY <2>1, <2>2, <2>3 DEF Demux!Next
<1>3. ASSUME DemuxInv PROVE Demux!BodyFollowsHeader
  <2> SUFFICES ASSUME doffered # Demux!NoFlit, ~doffered.last
               PROVE  Demux!Route = Demux!Select(header)
    BY DEF Demux!BodyFollowsHeader, Demux!in_valid, Demux!out_valid
  <2>1. CASE dactive = {}
    <3>1. doffered.class = header
      BY <1>3, <2>1 DEF DemuxInv
    <3> QED BY <2>1, <3>1 DEF Demux!Route
  <2>2. CASE dactive # {}
    BY <1>3, <2>2 DEF DemuxInv, Demux!Route
  <2> QED BY <2>1, <2>2
<1> QED BY <1>1, <1>2, <1>3, PTL DEF Demux!Spec
=============================================================================
