---------------------------- MODULE DbgnocStream ----------------------------
(***************************************************************************)
(* How the receive thread of backend_dbgnoc.c cuts packets out of the      *)
(* stream from the target.  The stream comes in whole blocks of            *)
(* NUM_SAMPLES_PER_TRANSFER words, filled up with zero words; a packet is  *)
(* its length followed by its flits and may lie across two blocks, so the  *)
(* thread keeps the last block in the lower half of its buffer.            *)
(***************************************************************************)
EXTENDS Integers, Sequences

LOCAL INSTANCE SequencesExt

CONSTANTS
  NUM_SAMPLES_PER_TRANSFER,
  NCM_MAX_LISNOC32_FLITS_PER_PKG,
  MaxPackets   \* bound on the packets sent

VARIABLES
  stream,     \* words the host has not read yet
  buffer_rx,  \* lower half: the block before; upper half: the current one
  read_pos,
  mode,       \* receive thread: "read", "parse", or "dead" after it returned
  sent, got   \* history: packets sent by the target, packets handled

vars == <<stream, buffer_rx, read_pos, mode, sent, got>>

N == NUM_SAMPLES_PER_TRANSFER

(* The header flit of a regular packet and of one encapsulated for the NCM *)
(* and the flits behind it, told apart from each other and from lengths.   *)
Regular == 2 * N
NCM == 2 * N + 1
Flit(k, j) == 100 * k + 10 * N + j

Init ==
  /\ stream = <<>>
  /\ buffer_rx = [j \in 0 .. 2 * N - 1 |-> 0]
  /\ read_pos = N
  /\ mode = "read"
  /\ sent = <<>> /\ got = <<>>

(* The target: packets of at most one block, NCM packets of whole 32 bit   *)
(* flits, and padding to the end of a block.                               *)
SendPacket(l, header) ==
  /\ Len(sent) < MaxPackets
  /\ header = NCM => l % 2 = 1 /\ (l - 1) \div 2 \in 1 .. NCM_MAX_LISNOC32_FLITS_PER_PKG
  /\ LET p == <<header>> \o [j \in 1 .. l - 1 |-> Flit(Len(sent), j)] IN
       /\ sent' = Append(sent, p)
       /\ stream' = stream \o <<l>> \o p
  /\ UNCHANGED <<buffer_rx, read_pos, mode, got>>

Pad ==
  /\ Len(stream) % N # 0
  /\ stream' = stream \o [j \in 1 .. N - (Len(stream) % N) |-> 0]
  /\ UNCHANGED <<buffer_rx, read_pos, mode, sent, got>>

(* glip_read_b: the next block goes to the upper half of the buffer.       *)
ReadBlock ==
  /\ mode = "read" /\ Len(stream) >= N
  /\ buffer_rx' = [j \in 0 .. 2 * N - 1 |-> IF j < N THEN buffer_rx[j] ELSE stream[j - N + 1]]
  /\ stream' = SubSeq(stream, N + 1, Len(stream))
  /\ mode' = "parse"
  /\ UNCHANGED <<read_pos, sent, got>>

(* The length word.  A packet that ends with its block leaves read_pos     *)
(* behind the buffer: whatever is read there counts as a length.           *)
PacketLens == IF read_pos < 2 * N THEN {buffer_rx[read_pos]} ELSE 0 .. N

(* The packet goes on in the next block.                                   *)
NeedsBlock(l) == read_pos + l > 2 * N - 1

(* The block moves to the lower half; a packet longer than a block ends    *)
(* the thread.                                                             *)
Shift(l) ==
  /\ mode = "parse" /\ NeedsBlock(l)
  /\ IF read_pos < N THEN mode' = "dead" /\ UNCHANGED <<buffer_rx, read_pos>>
     ELSE /\ mode' = "read"
          /\ buffer_rx' = [j \in 0 .. 2 * N - 1 |-> buffer_rx[IF j < N THEN j + N ELSE j]]
          /\ read_pos' = read_pos - N
  /\ UNCHANGED <<stream, sent, got>>

(* A packet is handled: padding is skipped, an NCM packet is unpacked, any *)
(* other goes to rcv_lisnoc16_pkg (see DbgnocRead).                        *)
Handle(l) ==
  /\ mode = "parse" /\ ~NeedsBlock(l)
  /\ LET p == [j \in 1 .. l |-> buffer_rx[read_pos + j]]
         tooLong == \/ l > 0 /\ p[1] = NCM /\ l % 2 = 1 /\ (l - 1) \div 2 > NCM_MAX_LISNOC32_FLITS_PER_PKG
                    \/ l > 0 /\ p[1] # NCM /\ l > N
         dropped == l = 0 \/ (p[1] = NCM /\ l % 2 = 0)
     IN  IF tooLong THEN mode' = "dead" /\ UNCHANGED <<read_pos, got>>
         ELSE /\ got' = IF dropped THEN got ELSE Append(got, p)
              /\ read_pos' = read_pos + l + 1
              /\ UNCHANGED mode
  /\ UNCHANGED <<stream, buffer_rx, sent>>

Parse == \E l \in PacketLens : Shift(l) \/ Handle(l)

Next ==
  \/ \E l \in 1 .. N, header \in {Regular, NCM} : SendPacket(l, header)
  \/ Pad \/ ReadBlock \/ Parse

Spec == Init /\ [][Next]_vars

-----------------------------------------------------------------------------
(* The receive thread never stops, handles exactly the packets the target  *)
(* sent, whole and in order wherever they lie in the blocks, and once it   *)
(* has read everything none is left.  (receive_thread)                     *)
StreamIntact ==
  /\ mode # "dead"
  /\ IsPrefix(got, sent)
  /\ mode = "read" /\ stream = <<>> => got = sent
=============================================================================
