-------------------------- MODULE NocBuffer_proofs --------------------------
(* Proofs about noc_buffer for every DEPTH, with and without FULLPACKET.   *)
EXTENDS NocBuffer, SequenceTheorems, WellFoundedInduction, TLAPS

USE DepthAssumption, FullPacketAssumption, MaxPacketAssumption

(* Every register of noc_buffer keeps its type: the addresses wrap at      *)
(* DEPTH, and the sender counter stays below the longest packet.           *)
THEOREM TypeCorrect == Spec => []TypeOK
<1>1. Init => TypeOK
  BY DEF Init, TypeOK, Flit
<1>2. TypeOK /\ [Next]_vars => TypeOK'
  <2> SUFFICES ASSUME TypeOK, [Next]_vars PROVE TypeOK'
    OBVIOUS
  <2>1. ASSUME NEW rd \in BOOLEAN, NEW wr \in BOOLEAN, NEW f \in Flit, Clock(rd, wr, f)
        PROVE  TypeOK'
    <3>1. rd_count' \in 0 .. 2 * DEPTH - 1
      BY <2>1 DEF TypeOK, Clock, AddressLogic, Wrap
    <3>2. wr_addr' \in 0 .. DEPTH - 1 /\ rd_addr' \in 0 .. DEPTH - 1
      BY <2>1 DEF TypeOK, Clock, AddressLogic, NextAddr
    <3>3. ram' \in [0 .. DEPTH - 1 -> Flit]
      BY <2>1 DEF TypeOK, Clock, RamWrite
    <3>4. out_reg' \in Flit
      BY <2>1 DEF TypeOK, Clock, OutputRegister
    <3>5. data_last_buf' \in [0 .. DEPTH -> BOOLEAN]
      BY <2>1 DEF TypeOK, Clock, LastBits, Flit
    <3>6. in_len' \in 0 .. MaxPacket - 1
      BY <2>1 DEF TypeOK, Clock, SenderCounts
    <3> QED BY <3>1, <3>2, <3>3, <3>4, <3>5, <3>6 DEF TypeOK
  <2>2. CASE \E f \in Flit : Write(f)
    BY <2>1, <2>2 DEF Write
  <2>3. CASE Read
    BY <2>1, <2>3 DEF Read, TypeOK
  <2>4. CASE \E f \in Flit : ReadWrite(f)
    BY <2>1, <2>4 DEF ReadWrite
  <2>5. CASE UNCHANGED vars
    BY <2>5 DEF vars, TypeOK
  <2> QED BY <2>2, <2>3, <2>4, <2>5 DEF Next
<1> QED BY <1>1, <1>2, PTL DEF Spec

-----------------------------------------------------------------------------
(* What a clock edge does to the fill count: the width of rd_count is      *)
(* never exceeded, so the count is that of the flits stored.               *)
LEMMA CountStep ==
  ASSUME TypeOK, rd_count <= DEPTH + 1,
         NEW rd \in BOOLEAN, NEW wr \in BOOLEAN, NEW f \in Flit,
         rd => out_valid, wr => in_ready, Clock(rd, wr, f)
  PROVE  /\ rd => rd_count > 0
         /\ wr => rd_count < DEPTH + 1
         /\ wr /\ ~rd => rd_count' = rd_count + 1
         /\ rd /\ ~wr => rd_count' = rd_count - 1
         /\ (wr <=> rd) => rd_count' = rd_count
         /\ rd_count' <= DEPTH + 1
         /\ rd_count' \in 0 .. 2 * DEPTH - 1
<1>1. /\ rd => rd_count > 0
      /\ wr => rd_count < DEPTH + 1
  BY DEF out_valid, in_ready
<1> QED BY <1>1 DEF TypeOK, Clock, AddressLogic, Wrap

(* Every step of the buffer is a clock edge whose transfers were allowed.  *)
LEMMA StepIsClock ==
  ASSUME TypeOK, Next
  PROVE  \E rd, wr \in BOOLEAN, f \in Flit :
           /\ rd \/ wr
           /\ rd => out_valid
           /\ wr => in_ready
           /\ Clock(rd, wr, f)
<1>1. CASE \E f \in Flit : Write(f)
  BY <1>1 DEF Write
<1>2. CASE Read
  BY <1>2 DEF Read, TypeOK
<1>3. CASE \E f \in Flit : ReadWrite(f)
  BY <1>3 DEF ReadWrite
<1> QED BY <1>1, <1>2, <1>3 DEF Next

(* The addresses of noc_buffer and its fill count always agree, and the    *)
(* count never exceeds DEPTH + 1.                                          *)
THEOREM AddressesCorrect == Spec => []AddressesAgree
<1>1. Init => AddressesAgree
  BY DEF Init, AddressesAgree
<1>2. TypeOK /\ AddressesAgree /\ [Next]_vars => AddressesAgree'
  <2> SUFFICES ASSUME TypeOK, AddressesAgree, [Next]_vars PROVE AddressesAgree'
    OBVIOUS
  <2>1. CASE Next
    <3>1. PICK rd \in BOOLEAN, wr \in BOOLEAN, f \in Flit :
            /\ rd => out_valid
            /\ wr => in_ready
            /\ Clock(rd, wr, f)
      BY <2>1, StepIsClock
    <3>2. /\ rd => rd_count > 0
          /\ wr => rd_count < DEPTH + 1
          /\ wr /\ ~rd => rd_count' = rd_count + 1
          /\ rd /\ ~wr => rd_count' = rd_count - 1
          /\ (wr <=> rd) => rd_count' = rd_count
          /\ rd_count' <= DEPTH + 1
      BY <3>1, CountStep DEF AddressesAgree
    <3>3. /\ wr_addr' = IF write_ram(rd, wr) THEN NextAddr(wr_addr) ELSE wr_addr
          /\ rd_addr' = IF read_ram(rd) THEN NextAddr(rd_addr) ELSE rd_addr
      BY <3>1 DEF Clock, AddressLogic
    <3>4. CASE wr /\ ~rd
      BY <3>2, <3>3, <3>4 DEF AddressesAgree, TypeOK, Slot, NextAddr, write_ram, read_ram, write_through
    <3>5. CASE rd /\ ~wr
      BY <3>2, <3>3, <3>5 DEF AddressesAgree, TypeOK, Slot, NextAddr, write_ram, read_ram, write_through
    <3>6. CASE rd /\ wr
      BY <3>2, <3>3, <3>6 DEF AddressesAgree, TypeOK, Slot, NextAddr, write_ram, read_ram, write_through
    <3>7. CASE ~rd /\ ~wr
      BY <3>2, <3>3, <3>7 DEF AddressesAgree, TypeOK, Slot, NextAddr, write_ram, read_ram, write_through
    <3> QED BY <3>4, <3>5, <3>6, <3>7
  <2>2. CASE UNCHANGED vars
    BY <2>2 DEF vars, AddressesAgree, Slot
  <2> QED BY <2>1, <2>2
<1> QED BY <1>1, <1>2, TypeCorrect, PTL DEF Spec

-----------------------------------------------------------------------------
(* A place at most DEPTH - 1 after an address is an address.               *)
LEMMA SlotInRange ==
  ASSUME NEW a \in 0 .. DEPTH - 1, NEW k \in 0 .. DEPTH - 1
  PROVE  Slot(a, k) \in 0 .. DEPTH - 1
BY DEF Slot

(* The flits stored form a sequence of rd_count flits.                     *)
LEMMA StoredIsSeq ==
  ASSUME TypeOK, AddressesAgree
  PROVE  /\ Stored \in Seq(Flit)
         /\ Len(Stored) = rd_count
         /\ Stored = <<>> <=> rd_count = 0
<1>1. \A i \in 1 .. rd_count : i # 1 => Slot(rd_addr, i - 2) \in 0 .. DEPTH - 1
  BY DEF TypeOK, AddressesAgree, Slot
<1>2. \A i \in 1 .. rd_count : (IF i = 1 THEN out_reg ELSE ram[Slot(rd_addr, i - 2)]) \in Flit
  BY <1>1 DEF TypeOK
<1>3. Stored \in [1 .. rd_count -> Flit]
  BY <1>2 DEF Stored
<1>4. rd_count \in Nat
  BY DEF TypeOK
<1> QED BY <1>3, <1>4

(* What a clock edge does to each stored flit, by its position.            *)
LEMMA StoredStep ==
  ASSUME TypeOK, AddressesAgree, TypeOK', AddressesAgree',
         NEW rd \in BOOLEAN, NEW wr \in BOOLEAN, NEW f \in Flit,
         rd => out_valid, wr => in_ready, Clock(rd, wr, f)
  PROVE  /\ ~rd => \A i \in 1 .. rd_count : Stored'[i] = Stored[i]
         /\ rd => \A i \in 1 .. rd_count - 1 : Stored'[i] = Stored[i + 1]
         /\ wr /\ ~rd => Stored'[rd_count + 1] = f
         /\ wr /\ rd => Stored'[rd_count] = f
<1> DEFINE kept == rd_count - (IF rd THEN 1 ELSE 0)
<1>1. /\ rd => rd_count > 0
      /\ wr => rd_count < DEPTH + 1
      /\ wr /\ ~rd => rd_count' = rd_count + 1
      /\ rd /\ ~wr => rd_count' = rd_count - 1
      /\ (wr <=> rd) => rd_count' = rd_count
  BY CountStep DEF AddressesAgree
<1>2. /\ wr_addr' = IF write_ram(rd, wr) THEN NextAddr(wr_addr) ELSE wr_addr
      /\ rd_addr' = IF read_ram(rd) THEN NextAddr(rd_addr) ELSE rd_addr
      /\ ram' = IF write_ram(rd, wr) THEN [ram EXCEPT ![wr_addr] = f] ELSE ram
      /\ out_reg' = IF read_ram(rd) THEN ram[rd_addr]
                    ELSE IF wr /\ write_through(rd) THEN f
                    ELSE out_reg
  BY DEF Clock, AddressLogic, RamWrite, OutputRegister
<1>3. rd_count' = kept + (IF wr THEN 1 ELSE 0)
  BY <1>1 DEF TypeOK
<1>4. ASSUME NEW i \in 1 .. kept
      PROVE  Stored'[i] = Stored[IF rd THEN i + 1 ELSE i]
  <2>1. CASE i = 1
    BY <1>1, <1>2, <1>3, <1>4, <2>1 DEF Stored, TypeOK, Slot, read_ram, write_through
  <2>2. CASE i > 1
    <3>1. Slot(rd_addr', i - 2) = Slot(rd_addr, IF rd THEN i - 1 ELSE i - 2)
      BY <1>1, <1>2, <1>4, <2>2 DEF TypeOK, AddressesAgree, Slot, NextAddr, read_ram
    <3>2. Slot(rd_addr, IF rd THEN i - 1 ELSE i - 2) \in 0 .. DEPTH - 1
      BY <1>1, <1>4, <2>2 DEF TypeOK, AddressesAgree, Slot
    <3>3. write_ram(rd, wr) => Slot(rd_addr, IF rd THEN i - 1 ELSE i - 2) # wr_addr
      BY <1>1, <1>4, <2>2 DEF TypeOK, AddressesAgree, Slot, write_ram, write_through
    <3>4. ram'[Slot(rd_addr', i - 2)] = ram[Slot(rd_addr, IF rd THEN i - 1 ELSE i - 2)]
      BY <1>2, <3>1, <3>2, <3>3 DEF TypeOK
    <3>5. i \in 1 .. rd_count' /\ (IF rd THEN i + 1 ELSE i) \in 1 .. rd_count
      BY <1>1, <1>3, <1>4 DEF TypeOK
    <3>6. Stored'[i] = ram'[Slot(rd_addr', i - 2)]
      BY <2>2, <3>5 DEF Stored
    <3>7. Stored[IF rd THEN i + 1 ELSE i] = ram[Slot(rd_addr, IF rd THEN i - 1 ELSE i - 2)]
      BY <2>2, <3>5 DEF Stored
    <3> QED BY <3>4, <3>6, <3>7
  <2> QED BY <2>1, <2>2, <1>4
<1>5. ASSUME wr PROVE Stored'[kept + 1] = f
  <2>1. CASE write_through(rd)
    <3>1. kept = 0 /\ rd_count' = 1
      BY <1>1, <1>3, <1>5, <2>1 DEF TypeOK, write_through
    <3>2. out_reg' = f
      BY <1>2, <1>5, <2>1 DEF TypeOK, read_ram, write_through
    <3> QED BY <3>1, <3>2 DEF Stored
  <2>2. CASE ~write_through(rd)
    <3>1. kept >= 1 /\ kept + 1 = rd_count' /\ kept \in Nat
      BY <1>1, <1>3, <1>5, <2>2 DEF TypeOK, write_through
    <3>2. Slot(rd_addr', kept - 1) = wr_addr
      <4>1. CASE rd
        BY <1>1, <1>2, <1>5, <2>2, <4>1
           DEF TypeOK, AddressesAgree, Slot, NextAddr, read_ram, write_through
      <4>2. CASE ~rd
        BY <1>1, <1>2, <1>5, <2>2, <4>2
           DEF TypeOK, AddressesAgree, Slot, NextAddr, read_ram, write_through
      <4> QED BY <4>1, <4>2
    <3>3. ram'[wr_addr] = f
      BY <1>2, <1>5, <2>2 DEF TypeOK, write_ram
    <3>4. Stored'[kept + 1] = ram'[Slot(rd_addr', kept - 1)]
      BY <3>1 DEF Stored
    <3> QED BY <3>2, <3>3, <3>4
  <2> QED BY <2>1, <2>2
<1>6. CASE rd
  <2>1. kept = rd_count - 1 /\ kept + 1 = rd_count
    BY <1>6 DEF TypeOK
  <2> HIDE DEF kept
  <2> QED BY <1>4, <1>5, <1>6, <2>1
<1>7. CASE ~rd
  <2>1. kept = rd_count
    BY <1>7 DEF TypeOK
  <2> HIDE DEF kept
  <2> QED BY <1>4, <1>5, <1>7, <2>1
<1> QED BY <1>6, <1>7

(* Hence a clock edge is a step of the abstract queue.                     *)
LEMMA ClockIsFifoStep ==
  ASSUME TypeOK, AddressesAgree, TypeOK', AddressesAgree',
         NEW rd \in BOOLEAN, NEW wr \in BOOLEAN, NEW f \in Flit, rd \/ wr,
         rd => out_valid, wr => in_ready, Clock(rd, wr, f)
  PROVE  Fifo!FifoNext
<1>1. /\ Stored \in Seq(Flit) /\ Len(Stored) = rd_count
      /\ Stored = <<>> <=> rd_count = 0
      /\ rd_count \in Nat
  BY StoredIsSeq DEF TypeOK
<1>2. /\ Stored' \in Seq(Flit) /\ Len(Stored') = rd_count'
      /\ Stored' = <<>> <=> rd_count' = 0
      /\ rd_count' \in Nat
  <2>0. /\ rd_count' \in 0 .. DEPTH + 1
        /\ rd_addr' \in 0 .. DEPTH - 1
        /\ ram' \in [0 .. DEPTH - 1 -> Flit]
        /\ out_reg' \in Flit
    BY DEF TypeOK, AddressesAgree
  <2>1. \A i \in 1 .. rd_count' : i # 1 => Slot(rd_addr', i - 2) \in 0 .. DEPTH - 1
    BY <2>0, SlotInRange
  <2>2. \A i \in 1 .. rd_count' : (IF i = 1 THEN out_reg' ELSE ram'[Slot(rd_addr', i - 2)]) \in Flit
    BY <2>0, <2>1
  <2>3. Stored' \in [1 .. rd_count' -> Flit]
    BY <2>2 DEF Stored
  <2>4. rd_count' \in Nat
    BY DEF TypeOK
  <2> QED BY <2>3, <2>4
<1>3. /\ rd => rd_count > 0
      /\ wr => rd_count < DEPTH + 1
  BY DEF out_valid, in_ready
<1>4. Fifo!ShowHead
  <2>1. CASE rd_count' = 0
    <3>1. out_reg' = out_reg
      <4>1. rd /\ ~wr /\ rd_count = 1
        BY <2>1, <1>1, <1>3, CountStep DEF AddressesAgree
      <4> QED BY <4>1 DEF Clock, OutputRegister, read_ram, write_through
    <3> QED BY <1>2, <2>1, <3>1 DEF Fifo!ShowHead
  <2>2. CASE rd_count' # 0
    <3>1. Head(Stored') = Stored'[1]
      BY <1>2, <2>2
    <3>2. Stored'[1] = out_reg'
      BY <1>2, <2>2 DEF Stored
    <3> QED BY <1>2, <2>2, <3>1, <3>2 DEF Fifo!ShowHead
  <2> QED BY <2>1, <2>2
<1>5. CASE wr /\ ~rd
  <2>1. /\ rd_count' = rd_count + 1
        /\ \A i \in 1 .. rd_count : Stored'[i] = Stored[i]
        /\ Stored'[rd_count + 1] = f
    BY <1>5, CountStep, StoredStep DEF AddressesAgree
  <2>2. Stored' = Append(Stored, f)
    BY <1>1, <1>2, <2>1, AppendProperties, SeqEqual
  <2>3. Fifo!Enqueue(f)
    BY <1>1, <1>3, <1>4, <1>5, <2>2 DEF Fifo!Enqueue
  <2> QED BY <2>3 DEF Fifo!FifoNext, Fifo!Flit, Flit
<1>6. CASE rd /\ ~wr
  <2>1. /\ rd_count' = rd_count - 1
        /\ \A i \in 1 .. rd_count - 1 : Stored'[i] = Stored[i + 1]
    BY <1>6, CountStep, StoredStep DEF AddressesAgree
  <2>2. Stored' = Tail(Stored)
    BY <1>1, <1>2, <1>3, <1>6, <2>1, HeadTailProperties, SeqEqual
  <2>3. Fifo!Dequeue
    BY <1>1, <1>3, <1>4, <1>6, <2>2 DEF Fifo!Dequeue
  <2> QED BY <2>3 DEF Fifo!FifoNext
<1>7. CASE rd /\ wr
  <2>1. /\ rd_count' = rd_count
        /\ \A i \in 1 .. rd_count - 1 : Stored'[i] = Stored[i + 1]
        /\ Stored'[rd_count] = f
    BY <1>7, CountStep, StoredStep DEF AddressesAgree
  <2>2. /\ Tail(Stored) \in Seq(Flit)
        /\ Len(Tail(Stored)) = rd_count - 1
        /\ \A i \in 1 .. rd_count - 1 : Tail(Stored)[i] = Stored[i + 1]
    BY <1>1, <1>3, <1>7, HeadTailProperties, SeqEqual
  <2>3. Stored' = Append(Tail(Stored), f)
    <3>1. /\ Append(Tail(Stored), f) \in Seq(Flit)
          /\ Len(Append(Tail(Stored), f)) = rd_count
          /\ \A i \in 1 .. rd_count :
               Append(Tail(Stored), f)[i] = IF i = rd_count THEN f ELSE Tail(Stored)[i]
      BY <1>1, <2>2, AppendProperties
    <3>2. \A i \in 1 .. rd_count : Stored'[i] = Append(Tail(Stored), f)[i]
      BY <1>1, <2>1, <2>2, <3>1
    <3> QED BY <1>2, <2>1, <3>1, <3>2, SeqEqual
  <2>4. Fifo!EnqueueDequeue(f)
    BY <1>1, <1>3, <1>4, <1>7, <2>3 DEF Fifo!EnqueueDequeue
  <2> QED BY <2>4 DEF Fifo!FifoNext, Fifo!Flit, Flit
<1> QED BY <1>5, <1>6, <1>7

(* noc_buffer implements the bounded FIFO of DEPTH + 1 flits.              *)
THEOREM FifoRefinement == Spec => ImplementsFifo
<1>1. Init => Fifo!FifoInit
  <2> SUFFICES ASSUME Init PROVE Fifo!FifoInit
    OBVIOUS
  <2>1. Stored = <<>>
    BY DEF Init, Stored
  <2> QED BY <2>1 DEF Init, Fifo!FifoInit, Fifo!Flit, Flit
<1>2. /\ TypeOK /\ AddressesAgree /\ TypeOK' /\ AddressesAgree'
      /\ [Next]_vars
      => [Fifo!FifoNext]_Fifo!fifoVars
  <2> SUFFICES ASSUME TypeOK, AddressesAgree, TypeOK', AddressesAgree', [Next]_vars
               PROVE  [Fifo!FifoNext]_Fifo!fifoVars
    OBVIOUS
  <2>1. CASE Next
    BY <2>1, StepIsClock, ClockIsFifoStep
  <2>2. CASE UNCHANGED vars
    BY <2>2 DEF vars, Fifo!fifoVars, Stored, Slot
  <2> QED BY <2>1, <2>2
<1> QED BY <1>1, <1>2, TypeCorrect, AddressesCorrect, PTL DEF Spec, ImplementsFifo, Fifo!FifoSpec

-----------------------------------------------------------------------------
(* The last bits kept for FULLPACKET describe the flits stored, although   *)
(* reads never shift them.                                                 *)
THEOREM LastBitsCorrect == Spec => []LastBitsMirrorStored
<1>1. Init => LastBitsMirrorStored
  BY DEF Init, LastBitsMirrorStored
<1>2. /\ TypeOK /\ AddressesAgree /\ TypeOK' /\ AddressesAgree'
      /\ LastBitsMirrorStored /\ [Next]_vars
      => LastBitsMirrorStored'
  <2> SUFFICES ASSUME TypeOK, AddressesAgree, TypeOK', AddressesAgree',
                      LastBitsMirrorStored, [Next]_vars
               PROVE  LastBitsMirrorStored'
    OBVIOUS
  <2>1. CASE Next
    <3>1. PICK rd \in BOOLEAN, wr \in BOOLEAN, f \in Flit :
            /\ rd => out_valid
            /\ wr => in_ready
            /\ Clock(rd, wr, f)
      BY <2>1, StepIsClock
    <3>2. /\ rd => rd_count > 0
          /\ wr /\ ~rd => rd_count' = rd_count + 1
          /\ rd /\ ~wr => rd_count' = rd_count - 1
          /\ (wr <=> rd) => rd_count' = rd_count
      BY <3>1, CountStep DEF AddressesAgree
    <3>3. /\ ~rd => \A i \in 1 .. rd_count : Stored'[i] = Stored[i]
          /\ rd => \A i \in 1 .. rd_count - 1 : Stored'[i] = Stored[i + 1]
          /\ wr => Stored'[rd_count'] = f
      BY <3>1, <3>2, StoredStep
    <3>4. \A j \in 0 .. DEPTH :
            data_last_buf'[j] = IF wr THEN (IF j = 0 THEN f.last ELSE data_last_buf[j - 1])
                                ELSE data_last_buf[j]
      BY <3>1 DEF Clock, LastBits, TypeOK
    <3> SUFFICES ASSUME NEW j \in 0 .. DEPTH, j < rd_count'
                 PROVE  data_last_buf'[j] <=> Stored'[rd_count' - j].last
      BY DEF LastBitsMirrorStored
    <3>5. rd_count \in 0 .. DEPTH + 1 /\ rd_count' \in 0 .. DEPTH + 1
      BY DEF TypeOK, AddressesAgree
    <3>6. CASE wr /\ j = 0
      <4>1. \A n \in 0 .. DEPTH + 1 : n - 0 = n
        OBVIOUS
      <4>2. rd_count' - j = rd_count'
        BY <3>5, <3>6, <4>1, Zenon
      <4> QED BY <3>3, <3>4, <3>6, <4>2
    <3>7. CASE wr /\ j > 0
      <4>1. data_last_buf'[j] = data_last_buf[j - 1]
        BY <3>4, <3>7
      <4>2. /\ j - 1 \in 0 .. DEPTH
            /\ j - 1 < rd_count
        BY <3>2, <3>5, <3>7
      <4>3. Stored'[rd_count' - j] = Stored[rd_count - (j - 1)]
        <5>1. CASE rd
          <6>1. rd_count' - j \in 1 .. rd_count - 1 /\ (rd_count' - j) + 1 = rd_count - (j - 1)
            BY <3>2, <3>5, <3>7, <5>1
          <6> QED BY <3>3, <5>1, <6>1
        <5>2. CASE ~rd
          <6>1. rd_count' - j \in 1 .. rd_count /\ rd_count' - j = rd_count - (j - 1)
            BY <3>2, <3>5, <3>7, <5>2
          <6> QED BY <3>3, <5>2, <6>1
        <5> QED BY <5>1, <5>2
      <4> QED BY <4>1, <4>2, <4>3 DEF LastBitsMirrorStored
    <3>8. CASE ~wr
      <4>1. data_last_buf'[j] = data_last_buf[j]
        BY <3>4, <3>8
      <4>2. j < rd_count
        BY <3>2, <3>5, <3>8
      <4>3. Stored'[rd_count' - j] = Stored[rd_count - j]
        BY <3>2, <3>3, <3>5, <3>8
      <4> QED BY <4>1, <4>2, <4>3 DEF LastBitsMirrorStored
    <3> QED BY <3>6, <3>7, <3>8
  <2>2. CASE UNCHANGED vars
    BY <2>2 DEF vars, LastBitsMirrorStored, Stored, Slot
  <2> QED BY <2>1, <2>2
<1> QED BY <1>1, <1>2, TypeCorrect, AddressesCorrect, PTL DEF Spec

(* The sender's position within its packet is visible in the last bits.    *)
LEMMA SenderPositionInvariant == Spec => []SenderPosition
<1>1. Init => SenderPosition
  BY DEF Init, SenderPosition
<1>2. TypeOK /\ AddressesAgree /\ SenderPosition /\ [Next]_vars => SenderPosition'
  <2> SUFFICES ASSUME TypeOK, AddressesAgree, SenderPosition, [Next]_vars
               PROVE  SenderPosition'
    OBVIOUS
  <2>1. CASE Next
    <3>1. PICK rd \in BOOLEAN, wr \in BOOLEAN, f \in Flit :
            /\ rd => out_valid
            /\ wr => in_ready
            /\ Clock(rd, wr, f)
      BY <2>1, StepIsClock
    <3>2. /\ rd => rd_count > 0
          /\ wr /\ ~rd => rd_count' = rd_count + 1
          /\ rd /\ ~wr => rd_count' = rd_count - 1
          /\ (wr <=> rd) => rd_count' = rd_count
      BY <3>1, CountStep DEF AddressesAgree
    <3>3. \A j \in 0 .. DEPTH :
            data_last_buf'[j] = IF wr THEN (IF j = 0 THEN f.last ELSE data_last_buf[j - 1])
                                ELSE data_last_buf[j]
      BY <3>1 DEF Clock, LastBits, TypeOK
    <3>4. in_len' = IF wr THEN (IF f.last THEN 0 ELSE in_len + 1) ELSE in_len
      BY <3>1 DEF Clock, SenderCounts
    <3>5. CASE ~wr
      BY <3>2, <3>3, <3>4, <3>5 DEF SenderPosition, TypeOK
    <3>6. CASE wr /\ f.last
      <4>1. in_len' = 0
        BY <3>4, <3>6, Zenon
      <4>2. 0 \in 0 .. DEPTH
        OBVIOUS
      <4>3. data_last_buf'[0] = f.last
        BY <3>3, <3>6, <4>2, Zenon
      <4> QED BY <3>6, <4>1, <4>3, Zenon DEF SenderPosition
    <3>7. CASE wr /\ ~f.last
      <4> SUFFICES ASSUME rd_count' > in_len', in_len' <= DEPTH
                   PROVE  data_last_buf'[in_len']
        BY DEF SenderPosition
      <4>1. in_len \in Nat /\ in_len' = in_len + 1 /\ rd_count \in Nat
        BY <3>4, <3>7 DEF TypeOK
      <4>2. data_last_buf'[in_len'] = data_last_buf[in_len]
        BY <3>3, <3>7, <4>1
      <4>3. rd_count > in_len
        BY <3>2, <3>7, <4>1
      <4> QED BY <4>1, <4>2, <4>3 DEF SenderPosition
    <3> QED BY <3>5, <3>6, <3>7
  <2>2. CASE UNCHANGED vars
    BY <2>2 DEF vars, SenderPosition
  <2> QED BY <2>1, <2>2
<1> QED BY <1>1, <1>2, TypeCorrect, AddressesCorrect, PTL DEF Spec

(* A full noc_buffer offers a flit, so waiting for whole packets never     *)
(* blocks it as long as no packet is longer than DEPTH + 1 flits.          *)
THEOREM FullBufferNeverBlocks == Spec => []FullBufferDrains
<1>1. TypeOK /\ AddressesAgree /\ SenderPosition => FullBufferDrains
  <2> SUFFICES ASSUME TypeOK, AddressesAgree, SenderPosition, ~in_ready
               PROVE  out_valid
    BY DEF FullBufferDrains
  <2>1. rd_count = DEPTH + 1
    BY DEF in_ready, TypeOK, AddressesAgree
  <2>2. ASSUME FULLPACKET PROVE data_last_shifted[in_len]
    <3>1. in_len \in 0 .. DEPTH
      BY <2>2 DEF TypeOK
    <3>2. data_last_buf[in_len]
      BY <2>1, <3>1 DEF SenderPosition
    <3>3. DEPTH + 1 - rd_count = 0 /\ in_len >= 0 /\ in_len - 0 = in_len
      BY <2>1, <3>1
    <3>4. data_last_shifted[in_len] = (in_len >= 0 /\ data_last_buf[in_len - 0])
      BY <3>1, <3>3, Zenon DEF data_last_shifted
    <3> QED BY <3>2, <3>3, <3>4
  <2>3. FULLPACKET => in_len \in 0 .. DEPTH
    BY DEF TypeOK
  <2> QED BY <2>1, <2>2, <2>3 DEF out_valid
<1> QED BY <1>1, TypeCorrect, AddressesCorrect, SenderPositionInvariant, PTL

-----------------------------------------------------------------------------
(* A nonempty set of bit positions has a highest one: find_first_one,      *)
(* which scans from the top, always finds it.                              *)
LEMMA HighestBit ==
  ASSUME NEW S \in SUBSET (0 .. DEPTH), S # {}
  PROVE  \E i \in S : \A j \in S : j <= i
<1> DEFINE T == {DEPTH - i : i \in S}
<1>1. T \subseteq Nat /\ T # {}
  <2>1. PICK i \in S : TRUE
    OBVIOUS
  <2>2. DEPTH - i \in T
    OBVIOUS
  <2>3. ASSUME NEW k \in S PROVE DEPTH - k \in Nat
    OBVIOUS
  <2> QED BY <2>2, <2>3
<1>2. PICK x \in T : \A y \in T : ~(<<y, x>> \in OpToRel(<, Nat))
  BY <1>1, NatLessThanWellFounded, WFMin
<1>3. PICK i \in S : x = DEPTH - i
  BY <1>2
<1>4. ASSUME NEW j \in S PROVE j <= i
  <2>1. DEPTH - j \in T /\ DEPTH - j \in Nat /\ x \in Nat
    BY <1>1
  <2>2. <<DEPTH - j, x>> \notin OpToRel(<, Nat)
    BY <1>2, <2>1
  <2>3. ~(DEPTH - j < x)
    BY <2>1, <2>2 DEF OpToRel
  <2> QED BY <1>3, <2>3
<1> QED BY <1>4

(* What find_first_one returns for a vector with a bit set: the index of   *)
(* the highest bit.                                                        *)
LEMMA FindFirstOne ==
  ASSUME NEW bits, NEW k \in 0 .. DEPTH, bits[k]
  PROVE  /\ find_first_one(bits) \in 0 .. DEPTH
         /\ bits[find_first_one(bits)]
         /\ \A j \in 0 .. DEPTH : bits[j] => j <= find_first_one(bits)
<1> DEFINE S == {i \in 0 .. DEPTH : bits[i]}
           Highest(i) == bits[i] /\ \A j \in i + 1 .. DEPTH : ~bits[j]
<1>1. PICK i \in S : \A j \in S : j <= i
  BY HighestBit
<1>2. i \in 0 .. DEPTH /\ Highest(i)
  <2>1. ASSUME NEW j \in i + 1 .. DEPTH, bits[j] PROVE FALSE
    <3>1. j \in S BY <2>1
    <3> QED BY <1>1, <3>1
  <2> QED BY <2>1
<1>3. find_first_one(bits) = CHOOSE m \in 0 .. DEPTH : Highest(m)
  BY DEF find_first_one
<1> DEFINE f == find_first_one(bits)
<1>4. f \in 0 .. DEPTH /\ Highest(f)
  BY <1>2, <1>3, Zenon
<1>5. ASSUME NEW j \in 0 .. DEPTH, bits[j] PROVE j <= f
  <2> HIDE DEF f
  <2>1. j \notin f + 1 .. DEPTH
    BY <1>4, <1>5
  <2> QED BY <1>4, <2>1
<1> QED BY <1>4, <1>5

(* With FULLPACKET, noc_buffer offers a flit exactly while it stores a     *)
(* whole packet, and packet_size is the length of the first one.           *)
THEOREM OffersFullPacketsOnly == Spec => []FullPacketOnly
<1>1. TypeOK /\ AddressesAgree /\ LastBitsMirrorStored => FullPacketOnly
  <2> SUFFICES ASSUME TypeOK, AddressesAgree, LastBitsMirrorStored, FULLPACKET
               PROVE  LET ends == {i \in 1 .. rd_count : Stored[i].last}
                      IN  /\ out_valid <=> ends # {}
                          /\ out_valid => packet_size \in ends
                                          /\ \A i \in ends : packet_size <= i
                          /\ ~out_valid => packet_size = 0
    BY Zenon DEF FullPacketOnly
  <2> DEFINE ends == {i \in 1 .. rd_count : Stored[i].last}
             bits == data_last_shifted
             f == find_first_one(bits)
  <2>1. rd_count \in 0 .. DEPTH + 1
    BY DEF TypeOK, AddressesAgree
  <2>2. ASSUME NEW i \in 0 .. DEPTH
        PROVE  bits[i] <=> DEPTH + 1 - i \in ends
    <3> DEFINE shift == DEPTH + 1 - rd_count
    <3>1. bits[i] = (i >= shift /\ data_last_buf[i - shift])
      BY Zenon DEF data_last_shifted
    <3>2. CASE i >= shift
      <4>1. /\ i - shift \in 0 .. DEPTH /\ i - shift < rd_count
            /\ rd_count - (i - shift) = DEPTH + 1 - i
            /\ DEPTH + 1 - i \in 1 .. rd_count
        BY <2>1, <3>2
      <4>2. data_last_buf[i - shift] <=> Stored[rd_count - (i - shift)].last
        BY <4>1 DEF LastBitsMirrorStored
      <4> HIDE DEF shift
      <4> QED BY <3>1, <3>2, <4>1, <4>2
    <3>3. CASE ~(i >= shift)
      <4>1. DEPTH + 1 - i \notin 1 .. rd_count
        BY <2>1, <3>3
      <4> QED BY <3>1, <3>3, <4>1, Zenon
    <3> QED BY <3>2, <3>3
  <2>3. ASSUME NEW k \in ends
        PROVE  DEPTH + 1 - k \in 0 .. DEPTH /\ bits[DEPTH + 1 - k]
    <3>1. DEPTH + 1 - k \in 0 .. DEPTH /\ DEPTH + 1 - (DEPTH + 1 - k) = k
      BY <2>1
    <3> QED BY <2>2, <3>1
  <2> HIDE DEF ends, bits, f
  <2>4. (\E i \in 0 .. DEPTH : bits[i]) <=> ends # {}
    BY <2>2, <2>3
  <2>5. ends # {} => rd_count > 0
    BY <2>1 DEF ends
  <2>6. out_valid <=> ends # {}
    BY <2>4, <2>5 DEF out_valid, bits
  <2>7. packet_size = DEPTH + 1 - f
    BY DEF packet_size, f, bits
  <2>8. ASSUME out_valid
        PROVE  packet_size \in ends /\ \A i \in ends : packet_size <= i
    <3>1. PICK k \in 0 .. DEPTH : bits[k]
      BY <2>4, <2>6, <2>8
    <3>2. /\ f \in 0 .. DEPTH /\ bits[f]
          /\ \A j \in 0 .. DEPTH : bits[j] => j <= f
      BY <3>1, FindFirstOne DEF f
    <3>3. packet_size \in ends
      BY <2>2, <2>7, <3>2
    <3>4. ASSUME NEW i \in ends PROVE packet_size <= i
      <4>1. DEPTH + 1 - i <= f
        BY <2>3, <3>2
      <4>2. i \in Int
        BY DEF ends
      <4> QED BY <2>7, <3>2, <4>1, <4>2
    <3> QED BY <3>3, <3>4
  <2>9. ASSUME ~out_valid PROVE packet_size = 0
    <3>1. f = DEPTH + 1
      BY <2>4, <2>6, <2>9 DEF find_first_one, f
    <3> QED BY <2>7, <3>1
  <2> QED BY <2>6, <2>8, <2>9 DEF ends
<1> QED BY <1>1, TypeCorrect, AddressesCorrect, LastBitsCorrect, PTL
=============================================================================
