------------------------------ MODULE NocRouter ------------------------------
(***************************************************************************)
(* noc_router with its input and output stages.  A lane is a pair of a     *)
(* port and a virtual channel; every lane of an input has a buffer, the    *)
(* lookup with its worm register, and the register slice, and every lane   *)
(* of an output has a multiplexer and a buffer.  One step is one clock     *)
(* edge for the whole router.                                              *)
(*                                                                         *)
(* The buffers are the FIFO that noc_buffer is shown to implement: a       *)
(* sequence, and for an input buffer the last bit that its output register *)
(* still shows when it is empty, because the lookup reads it.              *)
(*                                                                         *)
(* A flit carries what the router reads (dest and last) and, for the       *)
(* properties only, the lane, number and output of its packet (from, pkt,  *)
(* to) and its position.  Only the dest of a header is a destination.  The *)
(* same bits of a later flit are payload: here they always name a wrong    *)
(* destination.                                                            *)
(***************************************************************************)
EXTENDS Integers, Sequences, FiniteSets, FiniteSetsExt, NocMuxLogic

CONSTANTS
  INPUTS, OUTPUTS, VCHANNELS, DESTS,
  ROUTES,         \* destination -> output port
  BUFFER_SIZE_IN, BUFFER_SIZE_OUT,
  Lengths,        \* environment: lengths of the packets sent, in flits
  Packets         \* bound: packets sent on each input lane

ASSUME RouterAssumption ==
  /\ {INPUTS, OUTPUTS, VCHANNELS, DESTS} \cup Lengths \subseteq Nat \ {0}
  /\ ROUTES \in [0 .. DESTS - 1 -> 0 .. OUTPUTS - 1]
  /\ {BUFFER_SIZE_IN, BUFFER_SIZE_OUT, Packets} \subseteq Nat

VARIABLES
  ibuf, ilast,       \* input buffers, and out_last of each
  worm,              \* lookup: outputs of the packet under way
  sout, sreg,        \* slice: out_* and reg_* registers
  pressure,          \* slice: the next flit in goes nowhere
  active, activeroute,  \* output multiplexers
  obuf,              \* output buffers
  vselect,           \* noc_vchannel_mux of each output
  source,            \* environment: packet being sent on each input lane
  open,              \* history: last flit of an unfinished packet, per output lane
  latest             \* history: per output and input lane, the last packet delivered

vars == <<ibuf, ilast, worm, sout, sreg, pressure, active, activeroute, obuf,
          vselect, source, open, latest>>

In == 0 .. INPUTS - 1
Out == 0 .. OUTPUTS - 1
VC == 0 .. VCHANNELS - 1
Dest == 0 .. DESTS - 1
InLane == In \X VC
OutLane == Out \X VC

NoFlit == [pos |-> 0]
NoReg == [valid |-> {}, flit |-> NoFlit]

-----------------------------------------------------------------------------
(* Input stage of lane l: buffer head, lookup and slice.                   *)

buffer_valid(l) == ibuf[l] # <<>>

buffer_last(l) == IF buffer_valid(l) THEN Head(ibuf[l]).last ELSE ilast[l]

slice_ready(l) == ~pressure[l]

lookup_valid(l) ==
  IF ~buffer_valid(l) THEN {}
  ELSE IF worm[l] = {} THEN {ROUTES[Head(ibuf[l]).dest]}
  ELSE worm[l]

(* Mutation: the worm is entered although the header does not advance.     *)
nxt_worm_NotReady(l) ==
  IF worm[l] = {} /\ buffer_valid(l)
  THEN (IF buffer_last(l) THEN {} ELSE lookup_valid(l))
  ELSE IF worm[l] # {} /\ buffer_last(l) THEN {}
  ELSE worm[l]

(* The end of a worm does not ask whether the flit is valid.               *)
nxt_worm(l) ==
  IF worm[l] = {} /\ buffer_valid(l) /\ slice_ready(l) /\ ~buffer_last(l)
  THEN lookup_valid(l)
  ELSE IF worm[l] # {} /\ slice_ready(l) /\ buffer_last(l) THEN {}
  ELSE worm[l]

LookupFlit(l) ==
  [valid |-> lookup_valid(l), flit |-> IF buffer_valid(l) THEN Head(ibuf[l]) ELSE NoFlit]

-----------------------------------------------------------------------------
(* Output stage of lane ol: multiplexer over the inputs and buffer.        *)

mux_valid(ol) == {i \in In : ol[1] \in sout[<<i, ol[2]>>].valid}
mux_last(ol) == {i \in mux_valid(ol) : sout[<<i, ol[2]>>].flit.last}
obuf_ready(ol) == Len(obuf[ol]) < BUFFER_SIZE_OUT + 1

mux_select(ol) == select(INPUTS, active[ol], activeroute[ol], mux_valid(ol), obuf_ready(ol))
mux_taken(ol) == mux_in_ready(INPUTS, active[ol], activeroute[ol], mux_valid(ol), obuf_ready(ol))
mux_writes(ol) == mux_out_valid(active[ol], activeroute[ol], mux_valid(ol), obuf_ready(ol))

mux_flit(ol) == sout[<<CHOOSE i \in mux_select(ol) : TRUE, ol[2]>>].flit

(* switch_in_ready: the outputs that take the flit of input lane l.        *)
switch_in_ready(l) == {o \in Out : l[1] \in mux_taken(<<o, l[2]>>)}

-----------------------------------------------------------------------------
(* Environment: a source sends packets one flit at a time, at most one     *)
(* virtual channel of an input per cycle.                                  *)

Header(l, dest, len) ==
  [from |-> l, pkt |-> source[l].pkt, to |-> ROUTES[dest], pos |-> 1,
   dest |-> dest, last |-> len = 1, len |-> len]

NextFlit(l) ==
  LET f == source[l].flit
  IN  [f EXCEPT !.pos = @ + 1, !.last = f.pos + 1 = f.len,
                !.dest = IF f.pos = 1 THEN (@ + 1) % DESTS ELSE @]

FlitsToSend(l) ==
  IF source[l].flit # NoFlit THEN {NextFlit(l)}
  ELSE IF source[l].pkt > Packets THEN {}
  ELSE {Header(l, d, n) : d \in Dest, n \in Lengths}

in_ready(l) == Len(ibuf[l]) < BUFFER_SIZE_IN + 1

(* Offers of all input lanes in one cycle: a flit or NoFlit each.          *)
Offers ==
  {offer \in [InLane -> {NoFlit} \cup UNION {FlitsToSend(l) : l \in InLane}] :
     /\ \A l \in InLane : offer[l] \in {NoFlit} \cup FlitsToSend(l)
     /\ \A i \in In : Cardinality({v \in VC : offer[<<i, v>>] # NoFlit}) <= 1}

-----------------------------------------------------------------------------
Init ==
  /\ ibuf = [l \in InLane |-> <<>>]
  /\ ilast \in [InLane -> BOOLEAN]
  /\ worm = [l \in InLane |-> {}]
  /\ sout = [l \in InLane |-> NoReg]
  /\ sreg = [l \in InLane |-> NoReg]
  /\ pressure = [l \in InLane |-> FALSE]
  /\ active = [ol \in OutLane |-> {0}]
  /\ activeroute = [ol \in OutLane |-> FALSE]
  /\ obuf = [ol \in OutLane |-> <<>>]
  /\ vselect = [o \in Out |-> {0}]
  /\ source = [l \in InLane |-> [pkt |-> 1, flit |-> NoFlit]]
  /\ open = [ol \in OutLane |-> NoFlit]
  /\ latest = [ol \in OutLane |-> [l \in InLane |-> 0]]

InputBuffers(offer) ==
  LET written(l) == offer[l] # NoFlit /\ in_ready(l)
      rest(l) == IF slice_ready(l) /\ buffer_valid(l) THEN Tail(ibuf[l]) ELSE ibuf[l]
  IN  /\ ibuf' = [l \in InLane |->
                    IF written(l) THEN Append(rest(l), offer[l]) ELSE rest(l)]
      /\ ilast' = [l \in InLane |->
                     IF ibuf'[l] = <<>> THEN buffer_last(l) ELSE Head(ibuf'[l]).last]
      /\ source' = [l \in InLane |->
           IF ~written(l) THEN source[l]
           ELSE IF offer[l].last THEN [pkt |-> source[l].pkt + 1, flit |-> NoFlit]
           ELSE [source[l] EXCEPT !.flit = offer[l]]]

Lookup == worm' = [l \in InLane |-> nxt_worm(l)]

(* Mutation: the flit waiting in the second register is forgotten.         *)
Slice_Drop ==
  LET leaves(l) == sout[l].valid \cap switch_in_ready(l) # {}
      stores(l) == ~pressure[l] /\ (sout[l].valid = {} \/ leaves(l))
      parks(l)  == ~pressure[l] /\ sout[l].valid # {} /\ switch_in_ready(l) = {}
      resumes(l) == pressure[l] /\ switch_in_ready(l) # {}
  IN  /\ sout' = [l \in InLane |->
           IF stores(l) THEN LookupFlit(l) ELSE IF resumes(l) THEN NoReg ELSE sout[l]]
      /\ sreg' = [l \in InLane |-> IF parks(l) THEN LookupFlit(l) ELSE sreg[l]]
      /\ pressure' = [l \in InLane |-> (pressure[l] \/ parks(l)) /\ ~resumes(l)]

(* After resuming, the source leaves the second register as it is; nothing *)
(* reads it until it is written again.                                     *)
Slice ==
  LET leaves(l) == sout[l].valid \cap switch_in_ready(l) # {}
      stores(l) == ~pressure[l] /\ (sout[l].valid = {} \/ leaves(l))
      parks(l)  == ~pressure[l] /\ ~stores(l) /\ sout[l].valid # {} /\ switch_in_ready(l) = {}
      resumes(l) == pressure[l] /\ switch_in_ready(l) # {}
  IN  /\ sout' = [l \in InLane |->
           IF stores(l) THEN LookupFlit(l) ELSE IF resumes(l) THEN sreg[l] ELSE sout[l]]
      /\ sreg' = [l \in InLane |->
           IF parks(l) THEN LookupFlit(l) ELSE IF resumes(l) THEN NoReg ELSE sreg[l]]
      /\ pressure' = [l \in InLane |-> (pressure[l] \/ parks(l)) /\ ~resumes(l)]

Muxes ==
  /\ active' = [ol \in OutLane |-> mux_select(ol)]
  /\ activeroute' = [ol \in OutLane |->
       nxt_activeroute(INPUTS, active[ol], activeroute[ol], mux_valid(ol), mux_last(ol),
                       obuf_ready(ol))]

(* The output buffers, the multiplexer of virtual channels (plain wires    *)
(* with one channel), and what the receivers see.                          *)
OutputBuffers(out_ready) ==
  LET offers(o) == {v \in VC : obuf[<<o, v>>] # <<>>}
      ready(o) == {v \in VC : <<o, v>> \in out_ready}
      read(ol) == ol[2] \in offers(ol[1]) \cap vselect[ol[1]] \cap ready(ol[1])
      rest(ol) == IF read(ol) THEN Tail(obuf[ol]) ELSE obuf[ol]
  IN  /\ obuf' = [ol \in OutLane |->
                    IF mux_writes(ol) THEN Append(rest(ol), mux_flit(ol)) ELSE rest(ol)]
      /\ vselect' = [o \in Out |-> nxt_gnt(VCHANNELS, offers(o) \cap ready(o), TRUE, vselect[o])]
      /\ open' = [ol \in OutLane |->
                    IF ~read(ol) THEN open[ol]
                    ELSE IF Head(obuf[ol]).last THEN NoFlit
                    ELSE Head(obuf[ol])]
      /\ latest' = [ol \in OutLane |->
                      IF read(ol) THEN [latest[ol] EXCEPT ![Head(obuf[ol]).from] = Head(obuf[ol]).pkt]
                      ELSE latest[ol]]

(* A clock edge: all stages at once, whatever is offered and taken.        *)
Clock ==
  /\ Lookup /\ Slice /\ Muxes
  /\ \E offer \in Offers : InputBuffers(offer)
  /\ \E out_ready \in SUBSET OutLane : OutputBuffers(out_ready)

Next == Clock

Spec == Init /\ [][Next]_vars

-----------------------------------------------------------------------------
(* "Packets are preserved in the network": on every output lane the flits  *)
(* of a packet arrive together, from the first to the last, and no other   *)
(* packet's flit comes between.                                            *)
PacketsPreserved ==
  \A ol \in OutLane : obuf[ol] # <<>> =>
    LET f == Head(obuf[ol]) IN
      IF open[ol] = NoFlit THEN f.pos = 1
      ELSE f = [open[ol] EXCEPT !.pos = @ + 1, !.last = f.last, !.dest = f.dest]

(* Every flit leaves at the output that the header of its packet selects,  *)
(* on the virtual channel it came in on, whatever its payload says.        *)
RoutedByHeader ==
  \A ol \in OutLane : \A k \in 1 .. Len(obuf[ol]) :
    obuf[ol][k].to = ol[1] /\ obuf[ol][k].from[2] = ol[2]

(* "Packets in one stream leave the network in the same order as they      *)
(* entered it".                                                            *)
StrictOrdering ==
  \A ol \in OutLane : obuf[ol] # <<>> =>
    LET f == Head(obuf[ol])
    IN  f.pkt > latest[ol][f.from] \/ (open[ol] # NoFlit /\ f.pkt = latest[ol][f.from])

(* The lookup ends a worm on the last bit of its input buffer without      *)
(* asking whether a flit is there.  It is right because inside a worm an   *)
(* empty buffer still shows the bit of the flit before, which is not last. *)
WormSurvivesEmptyBuffer ==
  \A l \in InLane : worm[l] # {} /\ ~buffer_valid(l) => ~buffer_last(l)

(* A worm points to where its flits went: the flits that wait in the slice *)
(* are for the outputs of their packet, and back-pressure means that both  *)
(* of its registers are in use (the second may hold a bubble).             *)
SliceHoldsItsPacket ==
  \A l \in InLane :
    /\ pressure[l] => sout[l].valid # {}
    /\ \A r \in {sout[l], sreg[l]} : r.valid # {} => r.valid = {r.flit.to}

(* Neither competing packets nor back-pressure nor bubbles can block the   *)
(* router: when the senders have finished their packets and the receivers  *)
(* have taken all flits there are, a flit that is still inside moves on.   *)
NeverStuck ==
  LET inside == \E l \in InLane : buffer_valid(l) \/ sout[l].valid # {} \/ sreg[l].valid # {}
      moves  == \/ \E ol \in OutLane : mux_writes(ol)
                \/ \E l \in InLane : buffer_valid(l) /\ slice_ready(l)
  IN  /\ \A l \in InLane : source[l].flit = NoFlit
      /\ \A ol \in OutLane : obuf[ol] = <<>>
      /\ inside
      => moves
=============================================================================
