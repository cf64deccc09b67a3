----------------------------- MODULE NocBuffer -----------------------------
(***************************************************************************)
(* noc_buffer: the flit buffer in front of and behind every router, in the *)
(* network adapter and in the message passing endpoints.  It is a ring of  *)
(* DEPTH flits in RAM plus an output register, and holds DEPTH + 1 flits.  *)
(* With FULLPACKET it offers a flit only while a complete packet is stored *)
(* and reports the size of the packet at its head.                         *)
(*                                                                         *)
(* One step is one clock edge at which at least one of the two handshakes  *)
(* transfers a flit; at every other edge no register changes.  The wires   *)
(* are operators, the registers are variables, and every register keeps    *)
(* its width: addresses wrap at DEPTH and rd_count at 2 * DEPTH.           *)
(***************************************************************************)
EXTENDS Integers, Sequences

CONSTANTS
  Data,        \* payloads of a flit
  DEPTH,       \* flits in the RAM
  FULLPACKET,  \* offer a flit only when its packet is complete
  MaxPacket    \* environment: the longest packet that is sent, in flits

ASSUME DepthAssumption ==
  /\ DEPTH \in Nat /\ DEPTH > 1
  /\ \E k \in 1 .. DEPTH : DEPTH = 2^k

ASSUME FullPacketAssumption == FULLPACKET \in BOOLEAN

(* A packet that does not fit can never become complete in the buffer.     *)
ASSUME MaxPacketAssumption ==
  /\ MaxPacket \in Nat \ {0}
  /\ FULLPACKET => MaxPacket <= DEPTH + 1

VARIABLES
  wr_addr, rd_addr, rd_count,
  ram,
  out_reg,        \* out_flit and out_last
  data_last_buf,  \* the last bits of the flits written, newest at index 0
  in_len          \* environment: flits written of the unfinished packet

vars == <<wr_addr, rd_addr, rd_count, ram, out_reg, data_last_buf, in_len>>

Flit == [data : Data, last : BOOLEAN]

-----------------------------------------------------------------------------
(* Wires.  rd and wr stand for fifo_read and fifo_write.                   *)

(* Mutation: one flit too many is accepted.                                *)
in_ready_OneMore == rd_count < DEPTH + 2

in_ready == rd_count < DEPTH + 1

(* Mutation: the last bits of flits already read are not shifted out.      *)
data_last_shifted_Stale == data_last_buf

(* data_last_buf << DEPTH + 1 - rd_count                                   *)
data_last_shifted ==
  LET shift == DEPTH + 1 - rd_count
  IN  [i \in 0 .. DEPTH |-> i >= shift /\ data_last_buf[i - shift]]

(* Mutation: only the flit written last is looked at.                      *)
out_valid_Newest == rd_count > 0 /\ (FULLPACKET => data_last_buf[0])

out_valid ==
  /\ rd_count > 0
  /\ FULLPACKET => \E i \in 0 .. DEPTH : data_last_shifted[i]

find_first_one(bits) ==
  IF \E i \in 0 .. DEPTH : bits[i]
  THEN CHOOSE i \in 0 .. DEPTH : bits[i] /\ \A j \in i + 1 .. DEPTH : ~bits[j]
  ELSE DEPTH + 1

packet_size == IF FULLPACKET THEN DEPTH + 1 - find_first_one(data_last_shifted) ELSE 0

read_ram(rd) == rd /\ rd_count > 1

(* Mutation: a write that meets the read of the only flit goes to the RAM. *)
write_through_Empty(rd) == rd_count = 0

write_through(rd) == rd_count = 0 \/ (rd_count = 1 /\ rd)

write_ram(rd, wr) == wr /\ ~write_through(rd)

(* Registers of AW and of AW + 1 bits.                                     *)
NextAddr(a) == IF a = DEPTH - 1 THEN 0 ELSE a + 1

Wrap(n) == IF n = 2 * DEPTH THEN 0 ELSE IF n = -1 THEN 2 * DEPTH - 1 ELSE n

-----------------------------------------------------------------------------
(* After reset; the RAM and the output register are not reset.             *)
Init ==
  /\ wr_addr = 0 /\ rd_addr = 0 /\ rd_count = 0
  /\ ram \in [0 .. DEPTH - 1 -> Flit]
  /\ out_reg \in Flit
  /\ data_last_buf = [i \in 0 .. DEPTH |-> FALSE]
  /\ in_len = 0

AddressLogic(rd, wr) ==
  /\ rd_count' = IF wr /\ ~rd THEN Wrap(rd_count + 1)
                 ELSE IF rd /\ ~wr THEN Wrap(rd_count - 1)
                 ELSE rd_count
  /\ wr_addr' = IF write_ram(rd, wr) THEN NextAddr(wr_addr) ELSE wr_addr
  /\ rd_addr' = IF read_ram(rd) THEN NextAddr(rd_addr) ELSE rd_addr

RamWrite(rd, wr, f) ==
  ram' = IF write_ram(rd, wr) THEN [ram EXCEPT ![wr_addr] = f] ELSE ram

OutputRegister(rd, wr, f) ==
  out_reg' = IF read_ram(rd) THEN ram[rd_addr]
             ELSE IF wr /\ write_through(rd) THEN f
             ELSE out_reg

(* Mutation: only the ends of packets are shifted in.                      *)
LastBits_EndsOnly(wr, f) ==
  data_last_buf' =
    IF wr /\ f.last
    THEN [i \in 0 .. DEPTH |-> IF i = 0 THEN TRUE ELSE data_last_buf[i - 1]]
    ELSE data_last_buf

LastBits(wr, f) ==
  data_last_buf' =
    IF wr THEN [i \in 0 .. DEPTH |-> IF i = 0 THEN f.last ELSE data_last_buf[i - 1]]
    ELSE data_last_buf

(* The sender ends every packet after at most MaxPacket flits.             *)
SenderCounts(wr, f) ==
  /\ wr /\ ~f.last => in_len + 1 < MaxPacket
  /\ in_len' = IF wr THEN (IF f.last THEN 0 ELSE in_len + 1) ELSE in_len

Clock(rd, wr, f) ==
  /\ AddressLogic(rd, wr)
  /\ RamWrite(rd, wr, f)
  /\ OutputRegister(rd, wr, f)
  /\ LastBits(wr, f)
  /\ SenderCounts(wr, f)

Write(f) == in_ready /\ Clock(FALSE, TRUE, f)

Read == out_valid /\ Clock(TRUE, FALSE, out_reg)

ReadWrite(f) == in_ready /\ out_valid /\ Clock(TRUE, TRUE, f)

Next ==
  \/ \E f \in Flit : Write(f) \/ ReadWrite(f)
  \/ Read

Spec == Init /\ [][Next]_vars

-----------------------------------------------------------------------------
TypeOK ==
  /\ wr_addr \in 0 .. DEPTH - 1
  /\ rd_addr \in 0 .. DEPTH - 1
  /\ rd_count \in 0 .. 2 * DEPTH - 1
  /\ ram \in [0 .. DEPTH - 1 -> Flit]
  /\ out_reg \in Flit
  /\ data_last_buf \in [0 .. DEPTH -> BOOLEAN]
  /\ in_len \in 0 .. MaxPacket - 1

(* The flits stored, oldest first: the output register, then the RAM from  *)
(* rd_addr on.  Slot(a, k) is the address k places after a.                *)
Slot(a, k) == IF a + k >= DEPTH THEN a + k - DEPTH ELSE a + k

Stored == [i \in 1 .. rd_count |-> IF i = 1 THEN out_reg ELSE ram[Slot(rd_addr, i - 2)]]

Fifo == INSTANCE FlitFifo WITH Capacity <- DEPTH + 1, queue <- Stored, out <- out_reg

(* The buffer is a FIFO of DEPTH + 1 flits: read and write in one cycle,   *)
(* the write-through into the output register and the wrap of the          *)
(* addresses neither lose, duplicate nor reorder a flit, and the output    *)
(* register keeps the last flit read while the buffer is empty.            *)
ImplementsFifo == Fifo!FifoSpec

(* The read and write addresses and the fill count agree: the RAM holds    *)
(* what the output register does not.                                      *)
AddressesAgree ==
  /\ rd_count <= DEPTH + 1
  /\ wr_addr = IF rd_count <= 1 THEN rd_addr ELSE Slot(rd_addr, rd_count - 1)

(* The shift register of last bits mirrors the flits stored, although it   *)
(* is shifted by writes only and never by reads.                           *)
LastBitsMirrorStored ==
  \A j \in 0 .. DEPTH : j < rd_count => (data_last_buf[j] <=> Stored[rd_count - j].last)

(* With FULLPACKET a flit is offered exactly when a whole packet is        *)
(* stored, and packet_size is the number of flits up to and including the  *)
(* first one that is marked last ("only signal a valid flit at the output  *)
(* if a full packet is stored").                                           *)
FullPacketOnly ==
  FULLPACKET =>
    LET ends == {i \in 1 .. rd_count : Stored[i].last}
    IN  /\ out_valid <=> ends # {}
        /\ out_valid => packet_size \in ends /\ \A i \in ends : packet_size <= i
        /\ ~out_valid => packet_size = 0

(* in_len counts back to the end of the previous packet, while it is       *)
(* stored.                                                                 *)
SenderPosition == rd_count > in_len /\ in_len <= DEPTH => data_last_buf[in_len]

(* A full buffer always offers a flit: with packets of at most DEPTH + 1   *)
(* flits the wait for a complete packet cannot block the buffer for good.  *)
FullBufferDrains == ~in_ready => out_valid

=============================================================================
