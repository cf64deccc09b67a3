-------------------------- MODULE MpBufferEndpoint --------------------------
(***************************************************************************)
(* mpbuffer_endpoint: the message passing buffer between the bus of a tile *)
(* and the network.  The driver sends a packet by writing its size and     *)
(* then its flits, and receives one by reading its size and then its       *)
(* flits.  Probes from the network, flits with the control class and bit 0 *)
(* clear, are answered by the hardware itself.                             *)
(*                                                                         *)
(* Both packet buffers are the FIFO that noc_buffer implements; with       *)
(* FULLPACKET they offer a flit only when a whole packet is stored.  One   *)
(* Clock step is one clock edge of the whole endpoint.  The driver holds a *)
(* bus access until it is acknowledged, the network holds a flit until it  *)
(* is taken.                                                               *)
(***************************************************************************)
EXTENDS Integers, Sequences, FiniteSets, FiniteSetsExt

CONSTANTS
  SIZE,        \* depth of the packet buffers
  X_LAST,      \* the value that a build gives to the undefined out_last
  Lengths,     \* environment: lengths of the packets in both directions
  TxPackets,   \* bound: packets that the driver sends
  RxPackets    \* bound: packets that arrive from the network, with probes

VARIABLES
  enabled,
  state_in, state_out, size_out,
  control_pending,
  control_flit,    \* the reply: number of the probe, and the enabled bit
  ingress, egress, \* u_packetbuffer_in and u_packetbuffer_out
  noc_in,          \* environment: the flit offered by the network, or NoFlit
  arriving,        \* environment: packets begun by the network, flit offered last
  tx,              \* environment: the driver's packet and its flits to write
  rx,              \* environment: flits that the driver has yet to read
  got,             \* history: the flit read last by the driver
  sent,            \* history: last flit of an unfinished packet on noc_out
  left,            \* history: last flit of the egress buffer on noc_out
  answered         \* history: the probe answered last

vars == <<enabled, state_in, state_out, size_out, control_pending, control_flit,
          ingress, egress, noc_in, arriving, tx, rx, got, sent, left,
          answered>>

(* A flit of packet pkt at position pos of len.  The router and the driver *)
(* see the last bit; ctrl stands for the class bits and bit 0 of a probe.  *)
Flit(pkt, pos, len, ctrl) ==
  [pkt |-> pkt, pos |-> pos, len |-> len, last |-> pos = len, ctrl |-> ctrl]

NoFlit == [pkt |-> 0, pos |-> 0, len |-> 0, last |-> TRUE, ctrl |-> FALSE]

(* size_out has clog2_width(SIZE + 1) bits.                                *)
SIZE_RANGE == 2 ^ Min({w \in 1 .. SIZE : 2 ^ w >= SIZE + 1})

-----------------------------------------------------------------------------
(* The packet buffers.                                                     *)

Complete(buffer) == {k \in 1 .. Len(buffer) : buffer[k].last}

in_valid == Complete(ingress) # {}
size_in == IF in_valid THEN Min(Complete(ingress)) ELSE 0
ingress_ready == Len(ingress) < SIZE + 1

egress_valid == Complete(egress) # {}

out_ready == Len(egress) < SIZE + 1

-----------------------------------------------------------------------------
(* Bus side.  op is the access of this cycle: none, a read or a write of   *)
(* the FIFO, or the write that enables the endpoint.  A status read        *)
(* changes nothing.                                                        *)
Op == {"none", "read", "write", "enable"}

in_ready(op) == state_in = "IN_FLIT" /\ op = "read"

(* Mutation: the size is not looked at before the flits are read.          *)
nxt_state_in_Always(op) == IF op = "read" THEN "IN_FLIT" ELSE state_in

nxt_state_in(op) ==
  IF op # "read" THEN state_in
  ELSE IF state_in = "IN_IDLE" THEN (IF in_valid THEN "IN_FLIT" ELSE "IN_IDLE")
  ELSE IF size_in = 1 THEN "IN_IDLE"
  ELSE "IN_FLIT"

(* Is a flit offered to the egress buffer?  In OUT_PAYLOAD every write to  *)
(* the endpoint counts, whatever its address.                              *)
out_valid(op) ==
  \/ state_out = "OUT_FIRST" /\ op = "write"
  \/ state_out = "OUT_PAYLOAD" /\ op \in {"write", "enable"}

out_written(op) == out_valid(op) /\ out_ready

(* The source assigns x unless size_out is 1; simulation makes it 0.       *)
out_last == size_out = 1 \/ X_LAST

nxt_state_out(op) ==
  IF state_out = "OUT_IDLE" THEN (IF op = "write" THEN "OUT_FIRST" ELSE "OUT_IDLE")
  ELSE IF ~out_written(op) THEN state_out
  ELSE IF size_out = 1 THEN "OUT_IDLE"
  ELSE "OUT_PAYLOAD"

nxt_size_out(op, size) ==
  IF state_out = "OUT_IDLE" THEN (IF op = "write" THEN size % SIZE_RANGE ELSE size_out)
  ELSE IF out_written(op) THEN (size_out - 1) % SIZE_RANGE
  ELSE size_out

fifo_out_ack(op) == op = "write" /\ (state_out = "OUT_IDLE" \/ out_ready)

-----------------------------------------------------------------------------
(* Network side.                                                           *)

noc_in_ready == ~control_pending /\ ingress_ready

noc_in_valid == noc_in # NoFlit

(* Mutation: a probe waits until the ingress buffer has room.              *)
control_detected_Room == noc_in_valid /\ noc_in_ready /\ noc_in.ctrl

(* A probe is noticed whether or not the flit is taken in this cycle.      *)
control_detected == noc_in_valid /\ ~control_pending /\ noc_in.ctrl

(* The ingress buffer is offered a flit also while noc_in_ready is low     *)
(* because a reply is pending.                                             *)
ingress_valid == noc_in_valid /\ ~control_detected

(* The egress buffer is passed on: always inside a packet, otherwise if no *)
(* reply is pending.                                                       *)
egress_selected == egress_valid /\ (~Head(egress).last \/ ~control_pending)

control_selected == control_pending /\ ~egress_selected

(* Is a flit taken from the egress buffer?                                 *)
egress_ready(noc_out_ready) == egress_selected /\ noc_out_ready

Reply == [control_flit.flit EXCEPT !.ctrl = FALSE]

noc_out_flit ==
  IF egress_selected THEN Head(egress) ELSE IF control_selected THEN Reply ELSE NoFlit

nxt_control_pending(noc_out_ready) ==
  \/ control_detected
  \/ control_pending /\ ~(control_selected /\ noc_out_ready)

-----------------------------------------------------------------------------
Init ==
  /\ enabled = FALSE
  /\ state_in = "IN_IDLE" /\ state_out = "OUT_IDLE" /\ size_out \in 0 .. SIZE_RANGE - 1
  /\ control_pending = FALSE
  /\ control_flit = [flit |-> NoFlit, enabled |-> FALSE]
  /\ ingress = <<>> /\ egress = <<>>
  /\ noc_in = NoFlit
  /\ arriving = [count |-> 0, flit |-> NoFlit]
  /\ tx = [count |-> 0, len |-> 0, left |-> 0]
  /\ rx = 0
  /\ got = NoFlit /\ sent = NoFlit /\ left = NoFlit
  /\ answered = 0

(* Environment: the network offers the next flit of a packet, or a probe.  *)
Arrive(flit) ==
  /\ noc_in = NoFlit
  /\ noc_in' = flit
  /\ arriving' = [count |-> flit.pkt, flit |-> flit]
  /\ UNCHANGED <<enabled, state_in, state_out, size_out, control_pending, control_flit,
                 ingress, egress, tx, rx, got, sent, left, answered>>

Arriving ==
  IF ~arriving.flit.last
  THEN {Flit(arriving.count, arriving.flit.pos + 1, arriving.flit.len, FALSE)}
  ELSE IF arriving.count = RxPackets THEN {}
  ELSE {Flit(arriving.count + 1, 1, len, FALSE) : len \in Lengths}
         \cup {Flit(arriving.count + 1, 1, 1, TRUE)}

(* The driver's next write: a size, or the next flit of its packet.  It    *)
(* enables the endpoint only between packets.                              *)
DriverMay(op, size) ==
  CASE op = "write"  -> IF tx.left = 0 THEN tx.count < TxPackets ELSE size = tx.len
    [] op = "enable" -> tx.left = 0 /\ size = 1
    [] OTHER         -> size = 1

BusRead(op) ==
  /\ state_in' = nxt_state_in(op)
  /\ rx' = IF op # "read" THEN rx
           ELSE IF state_in = "IN_IDLE" THEN size_in
           ELSE rx - 1
  /\ got' = IF in_ready(op) /\ in_valid
            THEN Head(ingress) ELSE got

BusWrite(op, size) ==
  /\ enabled' = (enabled \/ op = "enable")
  /\ state_out' = nxt_state_out(op)
  /\ size_out' = nxt_size_out(op, size)
  /\ tx' = IF ~fifo_out_ack(op) THEN tx
           ELSE IF tx.left = 0 THEN [count |-> tx.count + 1, len |-> size, left |-> size]
           ELSE [tx EXCEPT !.left = @ - 1]

(* The word on the bus, as a flit with the last bit of the endpoint.       *)
out_flit == [Flit(tx.count, tx.len - tx.left + 1, tx.len, FALSE) EXCEPT !.last = out_last]

Buffers(op, noc_out_ready) ==
  LET ingress_rest == IF in_ready(op) /\ in_valid THEN Tail(ingress) ELSE ingress
      egress_rest  == IF egress_ready(noc_out_ready) THEN Tail(egress) ELSE egress
  IN  /\ ingress' = IF ingress_valid /\ ingress_ready THEN Append(ingress_rest, noc_in)
                    ELSE ingress_rest
      /\ egress' = IF out_written(op) THEN Append(egress_rest, out_flit) ELSE egress_rest
      /\ left' = IF egress_selected /\ noc_out_ready THEN Head(egress) ELSE left

Network(noc_out_ready) ==
  /\ noc_in' = IF noc_in_ready THEN NoFlit ELSE noc_in
  /\ control_pending' = nxt_control_pending(noc_out_ready)
  /\ control_flit' = IF control_detected THEN [flit |-> noc_in, enabled |-> enabled]
                     ELSE control_flit
  /\ sent' = IF noc_out_flit = NoFlit \/ ~noc_out_ready THEN sent
             ELSE IF noc_out_flit.last THEN NoFlit
             ELSE noc_out_flit
  /\ answered' = IF control_selected /\ noc_out_ready THEN control_flit.flit.pkt ELSE answered
  /\ UNCHANGED arriving

Clock(op, size, noc_out_ready) ==
  /\ DriverMay(op, size)
  /\ BusRead(op)
  /\ BusWrite(op, size)
  /\ Buffers(op, noc_out_ready)
  /\ Network(noc_out_ready)

Next ==
  \/ \E flit \in Arriving : Arrive(flit)
  \/ \E op \in Op, size \in Lengths \cup {1}, noc_out_ready \in BOOLEAN :
       Clock(op, size, noc_out_ready)

Spec == Init /\ [][Next]_vars

(* The clock runs, and the network takes a flit again and again.  Nothing  *)
(* is assumed of the driver: only steps that move a flit on the network    *)
(* side are required.                                                      *)
Fairness ==
  WF_<<noc_in, control_pending, left>>(
    \E op \in Op, size \in Lengths \cup {1} : Clock(op, size, TRUE))

FairSpec == Spec /\ Fairness

-----------------------------------------------------------------------------
(* Hardware and driver agree on where they are in a packet that is read,   *)
(* although flits go on arriving behind it: the driver has to read exactly *)
(* the rest of the packet at the head of the ingress buffer.               *)
ReaderInStep == rx = IF state_in = "IN_FLIT" THEN size_in ELSE 0

(* The same for a packet that is written, also when writes have to wait    *)
(* for room in the egress buffer.                                          *)
WriterInStep ==
  /\ state_out = "OUT_IDLE" <=> tx.left = 0
  /\ tx.left # 0 => size_out = tx.left /\ (state_out = "OUT_FIRST" <=> tx.left = tx.len)

(* All flits that the driver writes leave in order and once, replies       *)
(* between them or not.                                                    *)
DriverFlitsLeaveInOrder ==
  egress # <<>> =>
    LET f == Head(egress)
    IN  IF left.last THEN f.pkt = left.pkt + 1 /\ f.pos = 1
        ELSE f.pkt = left.pkt /\ f.pos = left.pos + 1

(* A probe is answered, even when the driver never reads the ingress       *)
(* buffer and it is full: readiness does not depend on the software.       *)
ProbeAnswered ==
  \A p \in 1 .. RxPackets : (noc_in.ctrl /\ noc_in.pkt = p) ~> answered = p

(* "Packets are preserved": the driver reads the flits of a packet as they *)
(* were sent, each once and no other between.                              *)
ReceivedPacketsPreserved ==
  ingress # <<>> =>
    LET f == Head(ingress)
    IN  IF got.last THEN f.pkt > got.pkt /\ f.pos = 1
        ELSE f.pkt = got.pkt /\ f.pos = got.pos + 1

=============================================================================
