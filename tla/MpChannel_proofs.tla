-------------------------- MODULE MpChannel_proofs --------------------------
(***************************************************************************)
(* Channels and connection-less messages of libmp for every number of      *)
(* slots, packets, senders and messages.  On a channel, the credit the     *)
(* sender holds, the credit on its way back, the packets under way and the *)
(* slots in use never add up to more than the ring has.  Without one, the  *)
(* slot granted to a sender is its own until it has completed it.  So      *)
(* every message is received whole and in order.                           *)
(***************************************************************************)
EXTENDS MpChannel, SequenceTheorems, TLAPS

-----------------------------------------------------------------------------
(* Packets of a message.                                                   *)

LastPacket == (words - 1) \div WPP

Off(k) == k * WPP

(* Packet k of message n, as control_channel_send builds it.               *)
Packet(n, k) ==
  [type |-> "data", offset |-> Off(k), msg |-> n,
   eom |-> IF k = LastPacket THEN SIZE - Off(k) * WPP ELSE 0]

DataPacket == [type : {"data"}, offset : Nat, msg : Nat, eom : Int]

(* The packet after packet p.                                              *)
Succ(p) == IF p.eom # 0 THEN Packet(p.msg + 1, 0) ELSE Packet(p.msg, (p.offset \div WPP) + 1)

(* What a slot holds when message n is complete.                           *)
Message(n) == [k \in Packets |-> <<n, Off(k)>>]

Entry == {NONE} \cup (Nat \X Nat)

(* Packets in the order in which they are built.                           *)
Chain(s) ==
  /\ s \in Seq(DataPacket)
  /\ \A j \in 1 .. Len(s) - 1 : s[j + 1] = Succ(s[j])

(* The arithmetic of offsets and sizes, from which everything else         *)
(* follows without it.                                                     *)
LEMMA PacketArithmetic ==
  ASSUME NEW k \in Packets
  PROVE  /\ LastPacket \in Nat /\ Packets = 0 .. LastPacket
         /\ Off(0) = 0
         /\ Off(k) \in Nat
         /\ Off(k) \div WPP = k
         /\ (Off(k) + WPP >= words) <=> k = LastPacket
         /\ k # LastPacket => k + 1 \in Packets /\ Off(k + 1) = Off(k) + WPP
         /\ k = LastPacket => SIZE - Off(k) * WPP # 0 /\ Off(k) * 4 + (SIZE - Off(k) * WPP) = SIZE
         /\ SIZE - Off(k) * WPP \in Int
<1>1. SIZE \in Nat /\ SIZE > 0 /\ WPP \in Nat /\ WPP > 0
  BY MpChannelAssumption
<1>2. words = (SIZE + 3) \div 4 /\ LastPacket = (words - 1) \div WPP /\ Packets = 0 .. LastPacket
  BY DEF words, LastPacket, Packets
<1>3. words \in Nat /\ words > 0 /\ SIZE <= 4 * words /\ 4 * words <= SIZE + 3
  BY <1>1, <1>2
<1>4. CASE WPP = 4
  <2>1. LastPacket \in Nat /\ 4 * LastPacket <= words - 1 /\ words - 1 <= 4 * LastPacket + 3
    <3>1. LastPacket = (words - 1) \div 4
      BY <1>2, <1>4
    <3>2. PICK n \in Nat : n = words - 1
      BY <1>3
    <3>3. n \div 4 \in Nat /\ 4 * (n \div 4) <= n /\ n <= 4 * (n \div 4) + 3
      BY <3>2
    <3> QED BY <3>1, <3>2, <3>3
  <2>2. k \in Nat /\ k <= LastPacket /\ Off(k) = 4 * k /\ Off(k + 1) = 4 * k + 4 /\ Off(0) = 0
    BY <1>2, <1>4, <2>1 DEF Off
  <2>3. Off(k) \div WPP = k
    BY <1>4, <2>2
  <2>4. Off(k) * WPP = 16 * k
    BY <1>4, <2>2
  <2> QED BY <1>1, <1>2, <1>3, <1>4, <2>1, <2>2, <2>3, <2>4
<1>5. CASE words <= WPP
  <2>1. LastPacket = 0
    BY <1>1, <1>2, <1>3, <1>5
  <2>2. k = 0 /\ Off(0) = 0
    BY <1>1, <1>2, <2>1 DEF Off
  <2>3. Off(k) \div WPP = 0 /\ Off(k) * WPP = 0
    BY <1>1, <2>2
  <2> QED BY <1>1, <1>2, <1>3, <1>5, <2>1, <2>2, <2>3
<1> QED BY <1>4, <1>5, MpChannelAssumption

LEMMA FirstPacket == 0 \in Packets
<1>1. (SIZE + 3) \div 4 \in Nat /\ (SIZE + 3) \div 4 >= 1
  BY MpChannelAssumption
<1>2. words - 1 \in Nat /\ WPP \in Nat \ {0}
  BY <1>1, MpChannelAssumption DEF words
<1>3. (words - 1) \div WPP \in Nat
  BY <1>2
<1> QED BY <1>3 DEF Packets

LEMMA PacketFields ==
  ASSUME NEW n \in Nat, NEW k \in Packets
  PROVE  /\ Packet(n, k) \in DataPacket
         /\ Packet(n, k).type = "data" /\ Packet(n, k).msg = n
         /\ Packet(n, k).offset = Off(k) /\ Packet(n, k).offset \div WPP = k
         /\ Packet(n, k).eom # 0 <=> k = LastPacket
         /\ k = LastPacket => Packet(n, k).offset * 4 + Packet(n, k).eom = SIZE
         /\ Succ(Packet(n, k)) = IF k = LastPacket THEN Packet(n + 1, 0) ELSE Packet(n, k + 1)
<1>1. /\ Packet(n, k).type = "data" /\ Packet(n, k).msg = n /\ Packet(n, k).offset = Off(k)
      /\ Packet(n, k).eom = IF k = LastPacket THEN SIZE - Off(k) * WPP ELSE 0
  BY DEF Packet
<1>2. Off(k) \in Nat /\ SIZE - Off(k) * WPP \in Int
  BY PacketArithmetic
<1>3. Packet(n, k) \in DataPacket
  BY <1>2 DEF Packet, DataPacket
<1>4. Packet(n, k).offset \div WPP = k
  BY <1>1, PacketArithmetic
<1>5. k = LastPacket => SIZE - Off(k) * WPP # 0 /\ Off(k) * 4 + (SIZE - Off(k) * WPP) = SIZE
  BY PacketArithmetic
<1>6. Packet(n, k).eom # 0 <=> k = LastPacket
  BY <1>1, <1>5
<1>7. k = LastPacket => Packet(n, k).offset * 4 + Packet(n, k).eom = SIZE
  BY <1>1, <1>5
<1>8. Succ(Packet(n, k)) = IF k = LastPacket THEN Packet(n + 1, 0) ELSE Packet(n, k + 1)
  BY <1>1, <1>4, <1>6 DEF Succ
<1> QED BY <1>1, <1>3, <1>4, <1>6, <1>7, <1>8

(* Chains.                                                                 *)
LEMMA ChainAppend ==
  ASSUME NEW s, Chain(s), Len(s) >= 1, Succ(s[Len(s)]) \in DataPacket
  PROVE  Chain(Append(s, Succ(s[Len(s)])))
<1> DEFINE e == Succ(s[Len(s)])
           t == Append(s, e)
<1>1. s \in Seq(DataPacket) /\ Len(s) \in Nat /\ e \in DataPacket
  BY DEF Chain
<1> HIDE DEF e
<1>2. /\ t \in Seq(DataPacket) /\ Len(t) = Len(s) + 1 /\ t[Len(s) + 1] = e
      /\ \A j \in 1 .. Len(s) : t[j] = s[j]
  BY <1>1
<1> HIDE DEF t
<1>3. ASSUME NEW j \in 1 .. Len(t) - 1 PROVE t[j + 1] = Succ(t[j])
  <2>1. j \in 1 .. Len(s)
    BY <1>1, <1>2
  <2>2. CASE j = Len(s)
    BY <1>2, <2>1, <2>2 DEF e
  <2>3. CASE j # Len(s)
    <3>1. j \in 1 .. Len(s) - 1 /\ j + 1 \in 1 .. Len(s)
      BY <1>1, <2>1, <2>3
    <3> QED BY <1>2, <2>1, <3>1 DEF Chain
  <2> QED BY <2>2, <2>3
<1>4. Chain(t)
  BY <1>2, <1>3 DEF Chain
<1> QED BY <1>4 DEF t, e

LEMMA ChainTail ==
  ASSUME NEW s, Chain(s), Len(s) >= 2
  PROVE  Chain(Tail(s)) /\ Tail(s)[1] = Succ(s[1])
<1> DEFINE t == Tail(s)
<1>1. s \in Seq(DataPacket) /\ Len(s) \in Nat /\ s # <<>>
  BY DEF Chain
<1>2. /\ t \in Seq(DataPacket) /\ Len(t) = Len(s) - 1
      /\ \A j \in 1 .. Len(s) - 1 : t[j] = s[j + 1]
  BY <1>1
<1> HIDE DEF t
<1>3. ASSUME NEW j \in 1 .. Len(t) - 1 PROVE t[j + 1] = Succ(t[j])
  <2>1. j \in 1 .. Len(s) - 1 /\ j + 1 \in 1 .. Len(s) - 1
    BY <1>1, <1>2
  <2>2. t[j] = s[j + 1] /\ t[j + 1] = s[(j + 1) + 1]
    BY <1>2, <2>1
  <2>3. s[(j + 1) + 1] = Succ(s[j + 1])
    BY <2>1 DEF Chain
  <2> QED BY <2>2, <2>3
<1>4. Chain(t)
  BY <1>2, <1>3 DEF Chain
<1>5. t[1] = Succ(s[1])
  <2>1. 1 \in 1 .. Len(s) - 1
    BY <1>1
  <2>2. s[1 + 1] = Succ(s[1])
    BY <2>1 DEF Chain
  <2> QED BY <1>2, <2>1, <2>2
<1> QED BY <1>4, <1>5 DEF t

LEMMA TailAppend ==
  ASSUME NEW T, NEW r \in Seq(T), NEW e \in T, r # <<>>
  PROVE  Tail(Append(r, e)) = Append(Tail(r), e)
<1> DEFINE s == Append(r, e)
           t == Tail(r)
           u == Append(t, e)
<1>1. Len(r) \in Nat /\ Len(r) > 0
  BY EmptySeq, LenProperties
<1>2. /\ s \in Seq(T) /\ Len(s) = Len(r) + 1 /\ s[Len(r) + 1] = e /\ \A j \in 1 .. Len(r) : s[j] = r[j]
      /\ s # <<>>
  BY <1>1
<1>3. t \in Seq(T) /\ Len(t) = Len(r) - 1 /\ \A j \in 1 .. Len(r) - 1 : t[j] = r[j + 1]
  BY <1>1
<1> HIDE DEF s, t
<1>4. u \in Seq(T) /\ Len(u) = Len(t) + 1 /\ u[Len(t) + 1] = e /\ \A j \in 1 .. Len(t) : u[j] = t[j]
  BY <1>3
<1> HIDE DEF u
<1> DEFINE v == Tail(s)
<1>5. v \in Seq(T) /\ Len(v) = Len(s) - 1 /\ \A j \in 1 .. Len(s) - 1 : v[j] = s[j + 1]
  BY <1>1, <1>2
<1> HIDE DEF v
<1>6. ASSUME NEW j \in 1 .. Len(r) PROVE v[j] = u[j]
  <2>1. v[j] = s[j + 1]
    BY <1>1, <1>2, <1>5
  <2>2. CASE j = Len(r)
    BY <1>1, <1>2, <1>3, <1>4, <2>1, <2>2
  <2>3. CASE j # Len(r)
    <3>1. j \in 1 .. Len(r) - 1 /\ j + 1 \in 1 .. Len(r) /\ j \in 1 .. Len(t)
      BY <1>1, <1>3, <2>3
    <3> QED BY <1>2, <1>3, <1>4, <2>1, <3>1
  <2> QED BY <2>2, <2>3
<1>7. v = u
  BY <1>1, <1>2, <1>3, <1>4, <1>5, <1>6, SeqEqual
<1> QED BY <1>7 DEF s, t, u, v

-----------------------------------------------------------------------------
(* The invariant.                                                          *)

(* Messages the reader has taken out of the ring.                          *)
Taken == Len(received) + (IF reader = NONE THEN 0 ELSE 1)

(* The distance of slot p from slot r in the ring.                         *)
Gap(r, p) == IF p >= r THEN p - r ELSE p - r + SLOTS

(* The distance of slot p from the read pointer.                           *)
Dist(p) == Gap(read_ptr, p)

(* Messages that are complete in the ring or were taken out of it.         *)
Complete == Taken + Dist(write_ptr)

(* The message whose packet is built next.                                 *)
NextMessage == IF sender \in {"send", "send_i"} THEN sent ELSE sent + 1

(* The packets on the way and the next one, which is packet k of its       *)
(* message.                                                                *)
Stream(k) == Append(request, Packet(NextMessage, k))

Credit == [type |-> "credit", credit |-> 1]

(* The credit the sender has left when the message it is sending is paid.  *)
Unspent ==
  IF sender \in {"send_i", "load"} THEN remotecredit - 1
  ELSE IF sender = "store" THEN old - 1 ELSE remotecredit

TypeOK ==
  /\ write_ptr \in Slot /\ read_ptr \in Slot
  /\ data \in [Slot -> [Packets -> Entry]]
  /\ data_size \in [Slot -> Int]
  /\ sender \in {"start", "connect", "idle", "send", "send_i", "load", "store"}
  /\ i \in Nat /\ old \in Int /\ remotecredit \in Int /\ sent \in Nat
  /\ reader \in Slot \cup {NONE}
  /\ copied \in Seq(Entry)
  /\ received \in Seq([packets : Seq(Entry), size : Int])

(* Before the channel is connected nothing else happens.                   *)
Connecting ==
  /\ i = 0 /\ remotecredit = 0 /\ sent = 0
  /\ write_ptr = 0 /\ read_ptr = 0
  /\ reader = NONE /\ copied = <<>> /\ received = <<>>
  /\ \/ sender = "start" /\ request = <<>> /\ response = <<>>
     \/ sender = "connect" /\ request = <<[type |-> "connect"]>> /\ response = <<>>
     \/ sender = "connect" /\ request = <<>> /\ response = <<[type |-> "connect", credit |-> SLOTS - 1]>>

(* The receiver has handled the first h packets of the message after those *)
(* that are complete, and the packets from there to the next one, packet k *)
(* of its message, are on the way in order.                                *)
InOrder(h, k) ==
  /\ i = Off(k)
  /\ IF sender \in {"send", "send_i"} THEN sent >= 1 ELSE k = 0
  /\ request \in Seq(DataPacket)
  /\ Chain(Stream(k))
  /\ Stream(k)[1] = Packet(Complete + 1, h)
  /\ \A j \in 1 .. Len(request) : request[j].msg <= sent

(* The ring holds the complete messages that were not taken yet, and the   *)
(* packets handled of the next one.                                        *)
RingIntact(h) ==
  /\ \A p \in Slot : Dist(p) < Dist(write_ptr) =>
       data[p] = Message(Taken + 1 + Dist(p)) /\ data_size[p] = SIZE
  /\ \A l \in Packets : l < h => data[write_ptr][l] = <<Complete + 1, Off(l)>>
  /\ Dist(write_ptr) + (IF reader = NONE THEN 0 ELSE 1) <= SLOTS - 1

(* The slot that is being copied is right behind the read pointer.         *)
ReaderIntact ==
  /\ IF reader = NONE THEN copied = <<>>
     ELSE Dist(reader) = SLOTS - 1 /\ data[reader] = Message(Taken) /\ data_size[reader] = SIZE
  /\ Len(copied) <= LastPacket + 1
  /\ \A l \in 1 .. Len(copied) : copied[l] = <<Taken, Off(l - 1)>>
  /\ \A n \in 1 .. Len(received) : received[n] = Whole(n)

(* Credit, replies and messages that are not received do not add up to     *)
(* more than the slots that may be used.                                   *)
CreditKept ==
  /\ response \in Seq({Credit})
  /\ Unspent >= 0
  /\ Unspent + Len(response) + (sent - Len(received)) <= SLOTS - 1

Running ==
  /\ sender \notin {"start", "connect"}
  /\ ReaderIntact /\ CreditKept
  /\ \E h \in Packets, k \in Packets : InOrder(h, k) /\ RingIntact(h)

ChannelInv == TypeOK /\ (Connecting \/ Running)

-----------------------------------------------------------------------------
(* The ring.                                                               *)

LEMMA Gaps ==
  ASSUME NEW r \in Slot, NEW p \in Slot
  PROVE  /\ Gap(r, p) \in 0 .. SLOTS - 1
         /\ Gap(r, p) = 0 <=> p = r
         /\ next_ptr(p) \in Slot
         /\ Gap(r, p) < SLOTS - 1 => Gap(r, next_ptr(p)) = Gap(r, p) + 1
         /\ Gap(next_ptr(r), p) = IF p = r THEN SLOTS - 1 ELSE Gap(r, p) - 1
<1>1. SLOTS \in Nat /\ SLOTS > 0 /\ r \in 0 .. SLOTS - 1 /\ p \in 0 .. SLOTS - 1
  BY MpChannelAssumption DEF Slot
<1>2. \A q \in 0 .. SLOTS - 1 : next_ptr(q) = IF q + 1 = SLOTS THEN 0 ELSE q + 1
  BY <1>1 DEF next_ptr
<1> QED BY <1>1, <1>2 DEF Gap, Slot

LEMMA GapsDiffer ==
  ASSUME NEW r \in Slot, NEW p \in Slot, NEW q \in Slot, Gap(r, p) = Gap(r, q)
  PROVE  p = q
BY MpChannelAssumption DEF Gap, Slot

-----------------------------------------------------------------------------
(* What the steps of one side leave alone.                                 *)

LEMMA ReceiverUntouched ==
  ASSUME UNCHANGED <<ringVars, readerVars>>
  PROVE  /\ Taken' = Taken /\ Complete' = Complete
         /\ ReaderIntact => ReaderIntact'
         /\ \A h \in Packets : RingIntact(h) => RingIntact(h)'
BY DEF ringVars, readerVars, Taken, Complete, ReaderIntact, RingIntact, Dist

(* A step of the thread that sends no packet.                              *)
LEMMA StreamUntouched ==
  ASSUME NEW h \in Packets, NEW k \in Packets, InOrder(h, k), TypeOK,
         UNCHANGED <<i, request>>, sent' \in Nat, sent' >= sent,
         NextMessage' = NextMessage, Complete' = Complete,
         IF sender' \in {"send", "send_i"} THEN sent' >= 1 ELSE k = 0
  PROVE  InOrder(h, k)'
<1>1. Stream(k)' = Stream(k)
  BY DEF Stream
<1>2. \A j \in 1 .. Len(request) : request[j].msg <= sent'
  <2>1. ASSUME NEW j \in 1 .. Len(request) PROVE request[j].msg <= sent'
    <3>1. request[j].msg <= sent /\ request[j] \in DataPacket
      BY DEF InOrder
    <3>2. request[j].msg \in Nat
      BY <3>1 DEF DataPacket
    <3> QED BY <3>1, <3>2 DEF TypeOK
  <2> QED BY <2>1
<1>3. i' = Off(k) /\ Chain(Stream(k)') /\ (Stream(k)')[1] = Packet(Complete' + 1, h)
  BY <1>1 DEF InOrder
<1>4. request' \in Seq(DataPacket) /\ \A j \in 1 .. Len(request') : (request')[j].msg <= sent'
  BY <1>2 DEF InOrder
<1> QED BY <1>3, <1>4 DEF InOrder

LEMMA StreamFacts ==
  ASSUME TypeOK, NEW h \in Packets, NEW k \in Packets, InOrder(h, k)
  PROVE  /\ NextMessage \in Nat
         /\ Len(request) \in Nat
         /\ Stream(k) \in Seq(DataPacket) /\ Len(Stream(k)) = Len(request) + 1
         /\ Stream(k)[Len(request) + 1] = Packet(NextMessage, k)
         /\ \A j \in 1 .. Len(request) : Stream(k)[j] = request[j]
<1>1. NextMessage \in Nat
  BY DEF TypeOK, NextMessage
<1> DEFINE e == Packet(NextMessage, k)
<1>2. e \in DataPacket
  BY <1>1, PacketFields
<1>3. request \in Seq(DataPacket)
  BY DEF InOrder
<1> HIDE DEF e
<1>4. LET s == Append(request, e)
      IN  /\ s \in Seq(DataPacket) /\ Len(s) = Len(request) + 1 /\ s[Len(request) + 1] = e
          /\ \A j \in 1 .. Len(request) : s[j] = request[j]
  BY <1>2, <1>3
<1> QED BY <1>1, <1>3, <1>4 DEF Stream, e

(* In every state that is reached, a message is numbered after those that  *)
(* are complete only if it was sent, and the credit leaves room for it.    *)
LEMMA RoomForNext ==
  ASSUME TypeOK, CreditKept, NEW h \in Packets, NEW k \in Packets, InOrder(h, k)
  PROVE  /\ Complete \in Nat /\ Taken \in Nat /\ Len(received) \in Nat
         /\ Complete <= sent
         /\ request # <<>> => /\ Head(request) = Packet(Complete + 1, h)
                              /\ Complete + 1 <= sent
                              /\ Dist(write_ptr) + (IF reader = NONE THEN 0 ELSE 1) <= SLOTS - 2
<1>1. /\ Len(received) \in Nat /\ Len(response) \in Nat
      /\ Dist(write_ptr) \in Nat /\ SLOTS \in Nat /\ sent \in Nat
  BY Gaps, MpChannelAssumption DEF TypeOK, Dist, CreditKept
<1>2. Taken \in Nat /\ Complete \in Nat
  BY <1>1 DEF Taken, Complete
<1>3. Packet(Complete + 1, h).msg = Complete + 1
  BY <1>2, PacketFields
<1>4. Stream(k)[1] = Packet(Complete + 1, h)
  BY DEF InOrder
<1>5. CASE request = <<>>
  <2>1. Stream(k)[1] = Packet(NextMessage, k) /\ NextMessage \in Nat
    BY <1>5, StreamFacts
  <2>2. NextMessage = Complete + 1
    BY <1>3, <1>4, <2>1, PacketFields
  <2>3. NextMessage <= sent + 1
    BY <1>1 DEF NextMessage
  <2> QED BY <1>1, <1>2, <1>5, <2>2, <2>3
<1>6. CASE request # <<>>
  <2>1. request \in Seq(DataPacket) /\ 1 \in 1 .. Len(request) /\ Head(request) = request[1]
    BY <1>6 DEF InOrder
  <2>2. Head(request) = Packet(Complete + 1, h) /\ request[1].msg <= sent
    BY <1>4, <2>1, StreamFacts DEF InOrder
  <2>3. Complete + 1 <= sent
    BY <1>3, <2>1, <2>2
  <2>4. Unspent \in Int /\ Unspent >= 0 /\ Unspent + Len(response) + (sent - Len(received)) <= SLOTS - 1
    BY DEF CreditKept, Unspent, TypeOK
  <2>5. sent - Len(received) <= SLOTS - 1
    BY <1>1, <2>4
  <2>6. Complete = Len(received) + (IF reader = NONE THEN 0 ELSE 1) + Dist(write_ptr)
    BY DEF Complete, Taken
  <2> QED BY <1>1, <1>2, <2>2, <2>3, <2>5, <2>6
<1> QED BY <1>5, <1>6

-----------------------------------------------------------------------------
(* The steps.                                                              *)

(* The channel is connected: all slots but one are offered.                *)
LEMMA ConnectingSteps ==
  ASSUME TypeOK, Connecting, ChannelNext
  PROVE  ChannelInv'
<1>1. CASE Connect
  <2>1. sender = "start" /\ request = <<>> /\ response = <<>>
    BY <1>1 DEF Connecting, Connect
  <2>2. request' = <<[type |-> "connect"]>> /\ sender' = "connect"
    BY <1>1, <2>1 DEF Connect
  <2>3. TypeOK' /\ Connecting'
    BY <1>1, <2>1, <2>2 DEF Connect, TypeOK, Connecting, ringVars, readerVars
  <2> QED BY <2>3 DEF ChannelInv
<1>2. CASE Handle
  <2>1. request = <<[type |-> "connect"]>> /\ response = <<>> /\ sender = "connect"
    BY <1>2 DEF Connecting, Handle
  <2>2. Head(request).type = "connect" /\ Tail(request) = <<>>
    BY <2>1
  <2>3. endpoint_channel_get_credit = SLOTS - 1
    BY MpChannelAssumption DEF Connecting, endpoint_channel_get_credit
  <2>4. /\ request' = <<>> /\ response' = <<[type |-> "connect", credit |-> SLOTS - 1]>>
        /\ UNCHANGED <<ringVars, sender, i, old, remotecredit, sent, readerVars>>
    BY <1>2, <2>1, <2>2, <2>3 DEF Handle
  <2>5. TypeOK' /\ Connecting'
    BY <2>1, <2>4 DEF TypeOK, Connecting, ringVars, readerVars
  <2> QED BY <2>5 DEF ChannelInv
<1>3. CASE HandleCredit
  <2>1. request = <<>> /\ response = <<[type |-> "connect", credit |-> SLOTS - 1]>>
    BY <1>3 DEF Connecting, HandleCredit
  <2>2. Head(response).type = "connect" /\ Head(response).credit = SLOTS - 1 /\ Tail(response) = <<>>
    BY <2>1
  <2>3. /\ response' = <<>> /\ sender' = "idle" /\ remotecredit' = SLOTS - 1
        /\ UNCHANGED <<ringVars, i, old, sent, request, readerVars>>
    BY <1>3, <2>2, MpChannelAssumption DEF HandleCredit, Connecting
  <2>4. TypeOK'
    BY <2>3, MpChannelAssumption DEF TypeOK, ringVars, readerVars
  <2>5. 0 \in Packets /\ Off(0) = 0 /\ LastPacket \in Nat
    <3>1. 0 \in Packets
      BY FirstPacket
    <3> QED BY <3>1, PacketArithmetic
  <2>6. Taken' = 0 /\ Complete' = 0 /\ Dist(write_ptr)' = 0 /\ NextMessage' = 1
    BY <2>3 DEF Connecting, ringVars, readerVars, Taken, Complete, Dist, Gap, NextMessage
  <2>7. InOrder(0, 0)'
    <3>1. Packet(1, 0) \in DataPacket
      BY <2>5, PacketFields
    <3>2. Stream(0)' = <<Packet(1, 0)>>
      BY <2>1, <2>3, <2>6 DEF Stream
    <3>3. Chain(Stream(0)') /\ (Stream(0)')[1] = Packet(Complete' + 1, 0)
      <4>1. PICK e \in DataPacket : e = Packet(1, 0)
        BY <3>1
      <4>2. <<e>> \in Seq(DataPacket) /\ Len(<<e>>) = 1 /\ <<e>>[1] = e
        OBVIOUS
      <4>3. Chain(<<e>>)
        BY <4>2 DEF Chain
      <4>4. Complete' + 1 = 1
        BY <2>6
      <4> QED BY <3>2, <4>1, <4>2, <4>3, <4>4
    <3>4. request' = <<>> /\ i' = 0
      BY <2>1, <2>3 DEF Connecting
    <3> QED BY <2>3, <2>5, <3>3, <3>4 DEF InOrder
  <2>8. RingIntact(0)'
    <3>1. \A p \in Slot : Dist(p)' \in Nat
      <4>1. read_ptr' \in Slot
        BY <2>4 DEF TypeOK
      <4> QED BY <4>1, Gaps, MpChannelAssumption DEF Dist
    <3>2. reader' = NONE /\ \A l \in Packets : ~(l < 0)
      BY <2>3, <2>5, PacketArithmetic DEF Connecting, readerVars
    <3> QED BY <2>6, <3>1, <3>2, MpChannelAssumption DEF RingIntact
  <2>9. ReaderIntact'
    BY <2>3, <2>5 DEF Connecting, readerVars, ReaderIntact
  <2>10. CreditKept'
    <3>1. Unspent' = SLOTS - 1
      BY <2>3 DEF Unspent
    <3>2. Len(response') = 0 /\ response' \in Seq({Credit}) /\ sent' = 0 /\ Len(received') = 0
      BY <2>3 DEF Connecting, readerVars
    <3> QED BY <3>1, <3>2, MpChannelAssumption DEF CreditKept
  <2>11. Running'
    BY <2>3, <2>5, <2>7, <2>8, <2>9, <2>10 DEF Running
  <2> QED BY <2>4, <2>11 DEF ChannelInv
<1>4. ~Send /\ ~SendI /\ ~SendPacket /\ ~LoadCredit /\ ~StoreCredit
  BY DEF Connecting, Send, SendI, SendPacket, LoadCredit, StoreCredit
<1>5. ~Recv /\ ~Copy /\ ~ReturnCredit
  BY DEF Connecting, Recv, Copy, ReturnCredit
<1> QED BY <1>1, <1>2, <1>3, <1>4, <1>5 DEF ChannelNext

(* A message is begun: its credit is taken now, or will be.                *)
LEMMA SendKeepsInv ==
  ASSUME TypeOK, Running, Send \/ SendI
  PROVE  ChannelInv'
<1>1. /\ sender = "idle" /\ remotecredit > 0 /\ sent' = sent + 1
      /\ \/ sender' = "send" /\ remotecredit' = remotecredit - 1
         \/ sender' = "send_i" /\ remotecredit' = remotecredit
      /\ UNCHANGED <<ringVars, i, old, request, response, readerVars>>
  BY DEF Send, SendI
<1>2. TypeOK'
  BY <1>1 DEF TypeOK, ringVars, readerVars
<1>3. PICK h \in Packets, k \in Packets : InOrder(h, k) /\ RingIntact(h)
  BY DEF Running
<1>4. NextMessage' = NextMessage /\ sent' \in Nat /\ sent' >= sent /\ sent' >= 1
  BY <1>1 DEF NextMessage, TypeOK
<1>5. RingIntact(h)' /\ ReaderIntact' /\ Complete' = Complete
  BY <1>1, <1>3, ReceiverUntouched DEF Running
<1>6. InOrder(h, k)'
  BY <1>1, <1>3, <1>4, <1>5, StreamUntouched
<1>7. CreditKept'
  <2>1. /\ Unspent = remotecredit /\ Unspent' = remotecredit - 1 /\ remotecredit \in Int
        /\ sent \in Nat
    BY <1>1 DEF Unspent, TypeOK
  <2>2. response' = response /\ received' = received
    BY <1>1 DEF readerVars
  <2>3. /\ response \in Seq({Credit}) /\ Len(received) \in Nat
        /\ remotecredit + Len(response) + (sent - Len(received)) <= SLOTS - 1
    BY <2>1 DEF Running, CreditKept, TypeOK
  <2>4. Len(response) \in Nat
    BY <2>3
  <2> QED BY <1>1, <2>1, <2>2, <2>3, <2>4, MpChannelAssumption DEF CreditKept
<1>8. Running'
  BY <1>1, <1>5, <1>6, <1>7 DEF Running
<1> QED BY <1>2, <1>8 DEF ChannelInv

(* The two steps in which send_i takes the credit.                         *)
LEMMA TakeCreditKeepsInv ==
  ASSUME TypeOK, Running, LoadCredit \/ StoreCredit
  PROVE  ChannelInv'
<1>1. /\ \/ sender = "load" /\ sender' = "store" /\ old' = remotecredit /\ remotecredit' = remotecredit
         \/ sender = "store" /\ sender' = "idle" /\ old' = 0 /\ remotecredit' = old - 1
      /\ UNCHANGED <<ringVars, i, sent, request, response, readerVars>>
  BY DEF LoadCredit, StoreCredit
<1>2. TypeOK'
  BY <1>1 DEF TypeOK, ringVars, readerVars
<1>3. PICK h \in Packets, k \in Packets : InOrder(h, k) /\ RingIntact(h)
  BY DEF Running
<1>4. NextMessage' = NextMessage /\ sent' = sent /\ sent' \in Nat /\ sent' >= sent
  BY <1>1 DEF NextMessage, TypeOK
<1>5. RingIntact(h)' /\ ReaderIntact' /\ Complete' = Complete
  BY <1>1, <1>3, ReceiverUntouched DEF Running
<1>6. InOrder(h, k)'
  <2>1. k = 0
    BY <1>1, <1>3 DEF InOrder
  <2> QED BY <1>1, <1>3, <1>4, <1>5, <2>1, StreamUntouched
<1>7. CreditKept'
  <2>1. Unspent' = Unspent
    BY <1>1 DEF Unspent
  <2> QED BY <1>1, <2>1 DEF Running, CreditKept, readerVars
<1>8. Running'
  BY <1>1, <1>5, <1>6, <1>7 DEF Running
<1> QED BY <1>2, <1>8 DEF ChannelInv

(* Credit comes back; between load and store it may be overwritten.        *)
LEMMA HandleCreditKeepsInv ==
  ASSUME TypeOK, Running, HandleCredit
  PROVE  ChannelInv'
<1>1. response \in Seq({Credit}) /\ response # <<>>
  BY DEF Running, CreditKept, HandleCredit
<1>2. /\ Head(response) = Credit /\ Len(Tail(response)) = Len(response) - 1
      /\ Tail(response) \in Seq({Credit}) /\ Len(response) \in Nat
  BY <1>1
<1>3. Head(response).credit = 1 /\ Head(response).type = "credit"
  BY <1>2 DEF Credit
<1>4. /\ remotecredit' = remotecredit + 1 /\ sender' = sender /\ response' = Tail(response)
      /\ UNCHANGED <<ringVars, i, old, sent, request, readerVars>>
  BY <1>3 DEF HandleCredit
<1>5. TypeOK'
  BY <1>4 DEF TypeOK, ringVars, readerVars
<1>6. PICK h \in Packets, k \in Packets : InOrder(h, k) /\ RingIntact(h)
  BY DEF Running
<1>7. NextMessage' = NextMessage /\ sent' \in Nat /\ sent' >= sent
  BY <1>4 DEF NextMessage, TypeOK
<1>8. RingIntact(h)' /\ ReaderIntact' /\ Complete' = Complete
  BY <1>4, <1>6, ReceiverUntouched DEF Running
<1>9. InOrder(h, k)'
  <2>1. IF sender' \in {"send", "send_i"} THEN sent' >= 1 ELSE k = 0
    BY <1>4, <1>6 DEF InOrder
  <2> QED BY <1>4, <1>6, <1>7, <1>8, <2>1, StreamUntouched
<1>10. CreditKept'
  <2>1. Unspent \in Int /\ Unspent' \in Unspent .. Unspent + 1
    BY <1>4 DEF Unspent, TypeOK
  <2>2. /\ Unspent >= 0 /\ Unspent + Len(response) + (sent - Len(received)) <= SLOTS - 1
        /\ Len(received) \in Nat /\ sent \in Nat /\ sent' = sent /\ received' = received
    BY <1>4 DEF Running, CreditKept, TypeOK, readerVars
  <2> QED BY <1>2, <1>4, <2>1, <2>2, MpChannelAssumption DEF CreditKept
<1>11. Running'
  BY <1>4, <1>8, <1>9, <1>10 DEF Running
<1> QED BY <1>5, <1>11 DEF ChannelInv

(* A packet is sent: it joins the stream, and the next one follows it.     *)
LEMMA SendPacketKeepsInv ==
  ASSUME TypeOK, Running, SendPacket
  PROVE  ChannelInv'
<1>1. PICK h \in Packets, k \in Packets : InOrder(h, k) /\ RingIntact(h)
  BY DEF Running
<1>2. /\ i = Off(k) /\ sent >= 1 /\ sender \in {"send", "send_i"} /\ sent \in Nat
      /\ NextMessage = sent /\ request \in Seq(DataPacket)
  BY <1>1 DEF InOrder, SendPacket, TypeOK, NextMessage
<1>3. PICK last, k1, e : /\ last = (k = LastPacket) /\ k1 = (IF last THEN 0 ELSE k + 1)
                         /\ e = Packet(sent, k)
  OBVIOUS
<1>4. last <=> i + WPP >= words
  BY <1>2, <1>3, PacketArithmetic
<1>5. /\ request' = Append(request, e)
      /\ i' = IF last THEN 0 ELSE i + WPP
      /\ sender' = IF ~last THEN sender ELSE IF sender = "send" THEN "idle" ELSE "load"
      /\ UNCHANGED <<ringVars, old, remotecredit, sent, response, readerVars>>
  BY <1>2, <1>3, <1>4 DEF SendPacket, Packet
<1>6. k1 \in Packets /\ i' = Off(k1) /\ i' \in Nat
  <2>1. k1 \in Packets /\ i' = Off(k1)
    <3>1. CASE k = LastPacket
      <4>1. k1 = 0 /\ i' = 0
        BY <1>3, <1>5, <3>1
      <4> QED BY <4>1, FirstPacket, PacketArithmetic
    <3>2. CASE k # LastPacket
      <4>1. k1 = k + 1 /\ i' = Off(k) + WPP
        BY <1>2, <1>3, <1>5, <3>2
      <4> QED BY <3>2, <4>1, PacketArithmetic
    <3> QED BY <3>1, <3>2
  <2> QED BY <2>1, PacketArithmetic
<1>7. TypeOK'
  BY <1>5, <1>6 DEF TypeOK, ringVars, readerVars
<1>8. RingIntact(h)' /\ ReaderIntact' /\ Complete' = Complete
  BY <1>1, <1>5, ReceiverUntouched DEF Running
<1>9. IF sender' \in {"send", "send_i"} THEN sent' >= 1 ELSE k1 = 0
  <2>1. sent' = sent
    BY <1>5
  <2>2. CASE k = LastPacket
    BY <1>2, <1>3, <2>1, <2>2
  <2>3. CASE k # LastPacket
    <3>1. sender' = sender
      BY <1>3, <1>5, <2>3
    <3> QED BY <1>2, <2>1, <3>1
  <2> QED BY <2>2, <2>3
<1>10. NextMessage' = IF last THEN sent + 1 ELSE sent
  BY <1>2, <1>5 DEF NextMessage
<1>11. e \in DataPacket /\ e.msg = sent /\ Succ(e) = Packet(NextMessage', k1)
  BY <1>2, <1>3, <1>10, PacketFields
<1>12. Packet(NextMessage', k1) \in DataPacket
  BY <1>2, <1>6, <1>10, PacketFields
<1>13. Stream(k) = Append(request, e) /\ request' = Stream(k)
       /\ Stream(k1)' = Append(Stream(k), Succ(e))
  BY <1>2, <1>3, <1>5, <1>11 DEF Stream
<1>14. /\ Stream(k) \in Seq(DataPacket) /\ Len(Stream(k)) = Len(request) + 1
       /\ Len(request) \in Nat /\ Stream(k)[Len(request) + 1] = e
       /\ \A j \in 1 .. Len(request) : Stream(k)[j] = request[j]
  BY <1>1, <1>2, <1>3, StreamFacts
<1>15. Chain(Stream(k1)') /\ (Stream(k1)')[1] = Stream(k)[1]
  <2>1. PICK s : s = Stream(k)
    OBVIOUS
  <2>2. Chain(s) /\ Len(s) >= 1 /\ s[Len(s)] = e /\ s \in Seq(DataPacket)
    BY <1>1, <1>14, <2>1 DEF InOrder
  <2>3. Chain(Append(s, Succ(e)))
    BY <1>11, <1>12, <2>2, ChainAppend
  <2>4. Append(s, Succ(e))[1] = s[1]
    BY <1>11, <1>12, <2>2
  <2> QED BY <1>13, <2>1, <2>3, <2>4
<1>16. ASSUME NEW j \in 1 .. Len(request') PROVE (request')[j].msg <= sent'
  <2>1. j \in 1 .. Len(request) \/ j = Len(request) + 1
    BY <1>13, <1>14
  <2>2. CASE j \in 1 .. Len(request)
    BY <1>1, <1>5, <1>13, <1>14, <2>2 DEF InOrder
  <2>3. CASE j = Len(request) + 1
    BY <1>2, <1>5, <1>11, <1>13, <1>14, <2>3
  <2> QED BY <2>1, <2>2, <2>3
<1>17. InOrder(h, k1)'
  <2>1. request' \in Seq(DataPacket) /\ (Stream(k1)')[1] = Packet(Complete' + 1, h)
    BY <1>1, <1>8, <1>13, <1>14, <1>15 DEF InOrder
  <2> QED BY <1>6, <1>9, <1>15, <1>16, <2>1 DEF InOrder
<1>18. CreditKept'
  <2>1. Unspent' = Unspent
    BY <1>2, <1>5 DEF Unspent
  <2> QED BY <1>5, <2>1 DEF Running, CreditKept, readerVars
<1>19. Running'
  <2>1. sender' \notin {"start", "connect"}
    BY <1>2, <1>5
  <2> QED BY <1>6, <1>8, <1>17, <1>18, <2>1 DEF Running
<1> QED BY <1>7, <1>19 DEF ChannelInv

(* What the handler of the receiver does to the first packet.              *)
LEMMA HandledPacket ==
  ASSUME TypeOK, Running, Handle,
         NEW h \in Packets, NEW k \in Packets, InOrder(h, k), RingIntact(h)
  PROVE  /\ request # <<>> /\ request' = Tail(request) /\ Complete \in Nat
         /\ Head(request) = Packet(Complete + 1, h)
         /\ data' = [data EXCEPT ![write_ptr][h] = <<Complete + 1, Off(h)>>]
         /\ IF h = LastPacket
            THEN /\ data_size' = [data_size EXCEPT ![write_ptr] = SIZE]
                 /\ write_ptr' = next_ptr(write_ptr)
            ELSE UNCHANGED <<data_size, write_ptr>>
         /\ UNCHANGED <<read_ptr, response, sender, i, old, remotecredit, sent, readerVars>>
<1>1. request # <<>> /\ request' = Tail(request)
      /\ UNCHANGED <<sender, i, old, remotecredit, sent, readerVars>>
  BY DEF Handle
<1>2. PICK m : m = Head(request)
  OBVIOUS
<1>3. m = Packet(Complete + 1, h) /\ Complete \in Nat
  BY <1>1, <1>2, RoomForNext DEF Running
<1>4. /\ m.type = "data" /\ m.msg = Complete + 1 /\ m.offset = Off(h) /\ m.offset \div WPP = h
      /\ m.eom # 0 <=> h = LastPacket
      /\ h = LastPacket => m.offset * 4 + m.eom = SIZE
  BY <1>3, PacketFields
<1>5. /\ data' = [data EXCEPT ![write_ptr][m.offset \div WPP] = <<m.msg, m.offset>>]
      /\ IF m.eom # 0
         THEN /\ data_size' = [data_size EXCEPT ![write_ptr] = m.offset * 4 + m.eom]
              /\ write_ptr' = next_ptr(write_ptr)
         ELSE UNCHANGED <<data_size, write_ptr>>
      /\ UNCHANGED <<read_ptr, response>>
  BY <1>2, <1>4 DEF Handle
<1>6. data' = [data EXCEPT ![write_ptr][h] = <<Complete + 1, Off(h)>>]
  BY <1>4, <1>5
<1>7. IF h = LastPacket
      THEN /\ data_size' = [data_size EXCEPT ![write_ptr] = SIZE]
           /\ write_ptr' = next_ptr(write_ptr)
      ELSE UNCHANGED <<data_size, write_ptr>>
  BY <1>4, <1>5
<1> QED BY <1>1, <1>2, <1>3, <1>5, <1>6, <1>7

(* A packet is handled: the stream loses its first packet, which goes into *)
(* the slot at the write pointer.  No slot in use is there: the message    *)
(* was sent, so the credit of the sender has paid for a free slot.         *)
LEMMA HandleKeepsInv ==
  ASSUME TypeOK, Running, Handle
  PROVE  ChannelInv'
<1>1. PICK h \in Packets, k \in Packets : InOrder(h, k) /\ RingIntact(h)
  BY DEF Running
<1>2. /\ request # <<>> /\ request' = Tail(request) /\ Complete \in Nat
      /\ Head(request) = Packet(Complete + 1, h)
      /\ data' = [data EXCEPT ![write_ptr][h] = <<Complete + 1, Off(h)>>]
      /\ IF h = LastPacket
         THEN /\ data_size' = [data_size EXCEPT ![write_ptr] = SIZE]
              /\ write_ptr' = next_ptr(write_ptr)
         ELSE UNCHANGED <<data_size, write_ptr>>
      /\ UNCHANGED <<read_ptr, response, sender, i, old, remotecredit, sent, readerVars>>
  BY <1>1, HandledPacket
<1>3. PICK w, c, t : w = write_ptr /\ c = Complete /\ t = Taken
  OBVIOUS
<1>4. /\ w \in Slot /\ c \in Nat /\ t \in Nat /\ c = t + Dist(w) /\ read_ptr \in Slot
      /\ Dist(w) \in Nat /\ Dist(w) + (IF reader = NONE THEN 0 ELSE 1) <= SLOTS - 2
      /\ SLOTS \in Nat
  <2>1. Taken \in Nat /\ Dist(write_ptr) + (IF reader = NONE THEN 0 ELSE 1) <= SLOTS - 2
    BY <1>1, <1>2, RoomForNext DEF Running
  <2>2. write_ptr \in Slot /\ read_ptr \in Slot
    BY DEF TypeOK
  <2>3. Dist(write_ptr) \in Nat
    BY <2>2, Gaps DEF Dist
  <2> QED BY <1>2, <1>3, <2>1, <2>2, <2>3, MpChannelAssumption DEF Complete
<1>5. /\ data' \in [Slot -> [Packets -> Entry]]
      /\ \A p \in Slot \ {w} : data'[p] = data[p]
      /\ \A l \in Packets \ {h} : data'[w][l] = data[w][l]
      /\ data'[w][h] = <<c + 1, Off(h)>>
  <2>1. <<c + 1, Off(h)>> \in Entry
    BY <1>4, PacketArithmetic DEF Entry
  <2>2. data \in [Slot -> [Packets -> Entry]]
    BY DEF TypeOK
  <2> QED BY <1>2, <1>3, <1>4, <2>1, <2>2
<1>6. \A l \in Packets : l < h => data[w][l] = <<c + 1, Off(l)>>
  BY <1>1, <1>3 DEF RingIntact
<1>7. Packets = 0 .. LastPacket /\ LastPacket \in Nat /\ SIZE \in Int
  BY FirstPacket, PacketArithmetic, MpChannelAssumption
<1>8. \A l \in Packets : l <= h => data'[w][l] = <<c + 1, Off(l)>>
  BY <1>5, <1>6, <1>7
<1>9. /\ Taken' = t /\ reader' = reader /\ read_ptr' = read_ptr
      /\ copied' = copied /\ received' = received
  BY <1>2, <1>3 DEF Taken, Dist, readerVars
<1>10. ASSUME reader # NONE PROVE reader \in Slot \ {w} /\ data_size'[reader] = data_size[reader]
  <2>1. reader \in Slot /\ Dist(reader) = SLOTS - 1
    BY <1>10 DEF TypeOK, Running, ReaderIntact
  <2>2. reader # w
    BY <1>4, <1>10, <2>1
  <2> QED BY <1>2, <1>3, <2>1, <2>2 DEF TypeOK
<1>11. ReaderIntact'
  <2>1. CASE reader = NONE
    BY <1>3, <1>9, <2>1 DEF Running, ReaderIntact
  <2>2. CASE reader # NONE
    <3>1. data'[reader] = data[reader] /\ data_size'[reader] = data_size[reader]
      BY <1>5, <1>10, <2>2
    <3>2. Dist(reader)' = Dist(reader)
      BY <1>9 DEF Dist
    <3> QED BY <1>3, <1>9, <2>2, <3>1, <3>2 DEF Running, ReaderIntact
  <2> QED BY <2>1, <2>2
<1>12. CreditKept'
  <2>1. Unspent' = Unspent /\ UNCHANGED <<response, sent, received>>
    BY <1>2 DEF Unspent, readerVars
  <2> QED BY <2>1 DEF Running, CreditKept
<1>13. PICK h1 \in Packets : h1 = IF h = LastPacket THEN 0 ELSE h + 1
  BY <1>7
<1>14. /\ write_ptr' \in Slot /\ data_size' \in [Slot -> Int]
       /\ Complete' = IF h = LastPacket THEN c + 1 ELSE c
       /\ Dist(write_ptr)' = IF h = LastPacket THEN Dist(w) + 1 ELSE Dist(w)
  <2>1. next_ptr(w) \in Slot /\ Gap(read_ptr, next_ptr(w)) = Gap(read_ptr, w) + 1
    <3>1. Gap(read_ptr, w) < SLOTS - 1
      BY <1>4 DEF Dist
    <3> QED BY <1>4, <3>1, Gaps
  <2>2. write_ptr' \in Slot /\ data_size' \in [Slot -> Int]
    BY <1>2, <1>3, <1>7, <2>1 DEF TypeOK
  <2>3. Dist(write_ptr)' = IF h = LastPacket THEN Dist(w) + 1 ELSE Dist(w)
    BY <1>2, <1>3, <2>1 DEF Dist
  <2>4. Complete' = Taken' + Dist(write_ptr)'
    BY DEF Complete
  <2> QED BY <1>4, <1>9, <2>2, <2>3, <2>4
<1>15. TypeOK'
  BY <1>2, <1>5, <1>14 DEF TypeOK, readerVars
<1>16. RingIntact(h1)'
  <2>1. ASSUME NEW p \in Slot, Dist(p) < Dist(w)
        PROVE  data'[p] = Message(t + 1 + Dist(p)) /\ data_size'[p] = SIZE
    <3>1. data[p] = Message(t + 1 + Dist(p)) /\ data_size[p] = SIZE /\ p # w
      BY <1>1, <1>3, <1>4, <2>1 DEF RingIntact
    <3>2. data_size'[p] = data_size[p]
      BY <1>2, <1>3, <3>1 DEF TypeOK
    <3> QED BY <1>5, <3>1, <3>2
  <2>2. CASE h = LastPacket
    <3>1. data'[w] = Message(t + 1 + Dist(w)) /\ data_size'[w] = SIZE
      <4>1. data'[w] \in [Packets -> Entry] /\ t + 1 + Dist(w) = c + 1
        BY <1>4, <1>5
      <4>2. \A l \in Packets : data'[w][l] = <<c + 1, Off(l)>>
        BY <1>7, <1>8, <2>2
      <4>3. data'[w] = Message(c + 1)
        BY <4>1, <4>2 DEF Message
      <4>4. data_size'[w] = SIZE
        BY <1>2, <1>3, <1>4, <2>2 DEF TypeOK
      <4> QED BY <4>1, <4>3, <4>4
    <3>2. ASSUME NEW p \in Slot, Dist(p) < Dist(w) + 1
          PROVE  data'[p] = Message(t + 1 + Dist(p)) /\ data_size'[p] = SIZE
      <4>1. CASE Dist(p) < Dist(w)
        BY <2>1, <4>1
      <4>2. CASE ~(Dist(p) < Dist(w))
        <5>1. Dist(p) \in Nat
          BY <1>4, Gaps DEF Dist
        <5>2. Dist(p) = Dist(w)
          BY <1>4, <3>2, <4>2, <5>1
        <5>3. p = w
          BY <1>4, <5>2, GapsDiffer DEF Dist
        <5> QED BY <3>1, <5>3
      <4> QED BY <4>1, <4>2
    <3>3. h1 = 0 /\ Dist(write_ptr)' = Dist(w) + 1 /\ \A l \in Packets : ~(l < 0)
      BY <1>7, <1>13, <1>14, <2>2
    <3>4. Dist(w) + 1 + (IF reader = NONE THEN 0 ELSE 1) <= SLOTS - 1
      BY <1>4
    <3>5. \A p \in Slot : Dist(p)' = Dist(p)
      BY <1>9 DEF Dist
    <3> QED BY <1>9, <3>2, <3>3, <3>4, <3>5 DEF RingIntact
  <2>3. CASE h # LastPacket
    <3>1. h1 = h + 1 /\ Dist(write_ptr)' = Dist(w) /\ write_ptr' = w /\ Complete' = c
      BY <1>2, <1>3, <1>13, <1>14, <2>3
    <3>2. \A l \in Packets : l < h1 => data'[w][l] = <<c + 1, Off(l)>>
      BY <1>7, <1>8, <3>1
    <3>3. Dist(w) + (IF reader = NONE THEN 0 ELSE 1) <= SLOTS - 1
      BY <1>4
    <3>4. \A p \in Slot : Dist(p)' = Dist(p)
      BY <1>9 DEF Dist
    <3> QED BY <1>9, <2>1, <3>1, <3>2, <3>3, <3>4 DEF RingIntact
  <2> QED BY <2>2, <2>3
<1>17. InOrder(h1, k)'
  <2>1. /\ NextMessage \in Nat /\ Packet(NextMessage, k) \in DataPacket
        /\ Len(request) \in Nat /\ Stream(k) \in Seq(DataPacket) /\ Len(Stream(k)) = Len(request) + 1
        /\ request \in Seq(DataPacket) /\ Chain(Stream(k)) /\ Stream(k)[1] = Packet(Complete + 1, h)
    <3>1. NextMessage \in Nat
      BY <1>1, StreamFacts
    <3> QED BY <1>1, <3>1, StreamFacts, PacketFields DEF InOrder
  <2>2. Stream(k)' = Append(Tail(request), Packet(NextMessage, k))
    BY <1>2 DEF Stream, NextMessage
  <2>3. Stream(k)' = Tail(Stream(k))
    BY <1>2, <2>1, <2>2, TailAppend DEF Stream
  <2>4. Len(Stream(k)) >= 2
    <3>1. Len(request) >= 1
      BY <1>2, <2>1
    <3> QED BY <2>1, <3>1
  <2>5. Chain(Stream(k)') /\ (Stream(k)')[1] = Succ(Packet(c + 1, h))
    BY <1>3, <2>1, <2>3, <2>4, ChainTail
  <2>6. Succ(Packet(c + 1, h)) = Packet(Complete' + 1, h1)
    <3>1. Succ(Packet(c + 1, h)) = IF h = LastPacket THEN Packet(c + 1 + 1, 0) ELSE Packet(c + 1, h + 1)
      BY <1>4, PacketFields
    <3> QED BY <1>13, <1>14, <3>1
  <2>7. request' \in Seq(DataPacket) /\ \A j \in 1 .. Len(request') : (request')[j].msg <= sent'
    <3>1. PICK r : r = request
      OBVIOUS
    <3>2. r \in Seq(DataPacket) /\ r # <<>> /\ \A j \in 1 .. Len(r) : r[j].msg <= sent
      BY <1>1, <1>2, <3>1 DEF InOrder
    <3>3. /\ Tail(r) \in Seq(DataPacket) /\ Len(Tail(r)) = Len(r) - 1 /\ Len(r) \in Nat
          /\ \A j \in 1 .. Len(r) - 1 : Tail(r)[j] = r[j + 1]
      BY <3>2
    <3>4. ASSUME NEW j \in 1 .. Len(Tail(r)) PROVE Tail(r)[j].msg <= sent
      <4>1. j \in 1 .. Len(r) - 1 /\ j + 1 \in 1 .. Len(r)
        BY <3>3
      <4> QED BY <3>2, <3>3, <4>1
    <3> QED BY <1>2, <3>1, <3>3, <3>4
  <2>8. i' = Off(k) /\ IF sender' \in {"send", "send_i"} THEN sent' >= 1 ELSE k = 0
    BY <1>1, <1>2 DEF InOrder
  <2> QED BY <2>5, <2>6, <2>7, <2>8 DEF InOrder
<1>18. Running'
  <2>1. sender' \notin {"start", "connect"}
    BY <1>2 DEF Running
  <2> QED BY <1>11, <1>12, <1>16, <1>17, <2>1 DEF Running
<1> QED BY <1>15, <1>18 DEF ChannelInv

(* The steps of the receiving thread leave the stream alone.               *)
LEMMA ReaderKeepsStream ==
  ASSUME TypeOK, NEW h \in Packets, NEW k \in Packets, InOrder(h, k),
         UNCHANGED <<sender, i, request, sent>>, Complete' = Complete
  PROVE  InOrder(h, k)'
<1>1. NextMessage' = NextMessage
  BY DEF NextMessage
<1>2. sent \in Nat
  BY DEF TypeOK
<1>3. IF sender' \in {"send", "send_i"} THEN sent' >= 1 ELSE k = 0
  BY DEF InOrder
<1> QED BY <1>1, <1>2, <1>3, StreamUntouched

(* The slot at the read pointer is taken: all others are one closer.       *)
LEMMA RecvKeepsInv ==
  ASSUME TypeOK, Running, Recv
  PROVE  ChannelInv'
<1>1. PICK h \in Packets, k \in Packets : InOrder(h, k) /\ RingIntact(h)
  BY DEF Running
<1>2. /\ reader = NONE /\ write_ptr # read_ptr
      /\ reader' = read_ptr /\ read_ptr' = next_ptr(read_ptr)
      /\ UNCHANGED <<write_ptr, data, data_size, sender, i, old, remotecredit, sent, request, response,
                     copied, received>>
  BY DEF Recv
<1>3. PICK r : r = read_ptr
  OBVIOUS
<1>4. /\ r \in Slot /\ r # NONE /\ write_ptr \in Slot /\ next_ptr(r) \in Slot
      /\ SLOTS \in Nat /\ Len(received) \in Nat
  BY <1>3, Gaps, MpChannelAssumption DEF TypeOK
<1>5. /\ \A p \in Slot : Dist(p) = Gap(r, p) /\ Dist(p)' = Gap(next_ptr(r), p)
      /\ \A p \in Slot : Gap(r, p) \in Nat /\ (Gap(r, p) = 0 <=> p = r)
      /\ \A p \in Slot \ {r} : Gap(next_ptr(r), p) = Gap(r, p) - 1
      /\ Gap(next_ptr(r), r) = SLOTS - 1
  BY <1>2, <1>3, <1>4, Gaps DEF Dist
<1>6. PICK t, n : t = Taken /\ n = Gap(r, write_ptr)
  OBVIOUS
<1>7. /\ t \in Nat /\ n \in Nat /\ n > 0 /\ Taken' = t + 1
      /\ Dist(write_ptr) = n /\ Dist(write_ptr)' = n - 1
      /\ t = Len(received)
  <2>1. Dist(write_ptr) = n /\ Dist(write_ptr)' = n - 1 /\ n \in Nat /\ n # 0
    <3>1. Dist(write_ptr)' = Gap(next_ptr(r), write_ptr)
      BY <1>2, <1>3 DEF Dist
    <3> QED BY <1>2, <1>3, <1>4, <1>5, <1>6, <3>1
  <2>2. t = Len(received) /\ Taken' = Len(received) + 1
    BY <1>2, <1>3, <1>4, <1>6 DEF Taken
  <2> QED BY <1>4, <2>1, <2>2
<1>8. Complete' = Complete
  BY <1>6, <1>7 DEF Complete
<1>9. \A p \in Slot : Gap(r, p) < n => data[p] = Message(t + 1 + Gap(r, p)) /\ data_size[p] = SIZE
  <2>1. \A p \in Slot : Dist(p) < Dist(write_ptr) =>
          data[p] = Message(Taken + 1 + Dist(p)) /\ data_size[p] = SIZE
    BY <1>1 DEF RingIntact
  <2> QED BY <1>5, <1>6, <1>7, <2>1
<1>10. TypeOK'
  BY <1>2, <1>3, <1>4 DEF TypeOK
<1>11. RingIntact(h)'
  <2>1. ASSUME NEW p \in Slot, Gap(next_ptr(r), p) < n - 1
        PROVE  data[p] = Message(t + 1 + 1 + Gap(next_ptr(r), p)) /\ data_size[p] = SIZE
    <3>1. n - 1 <= SLOTS - 1
      BY <1>1, <1>2, <1>4, <1>7 DEF RingIntact
    <3>2. p # r
      BY <1>4, <1>5, <1>7, <2>1, <3>1
    <3>3. Gap(r, p) < n /\ t + 1 + 1 + Gap(next_ptr(r), p) = t + 1 + Gap(r, p)
      BY <1>5, <1>7, <2>1, <3>2
    <3> QED BY <1>9, <3>3
  <2>2. \A l \in Packets : l < h => data[write_ptr][l] = <<Complete + 1, Off(l)>>
    BY <1>1 DEF RingIntact
  <2>3. n <= SLOTS - 1
    BY <1>1, <1>2, <1>4, <1>7 DEF RingIntact
  <2>4. (n - 1) + (IF reader' = NONE THEN 0 ELSE 1) <= SLOTS - 1
    BY <1>4, <1>7, <2>3
  <2>5. data' = data /\ data_size' = data_size /\ write_ptr' = write_ptr
    BY <1>2
  <2> QED BY <1>5, <1>7, <1>8, <2>1, <2>2, <2>4, <2>5 DEF RingIntact
<1>12. InOrder(h, k)'
  BY <1>1, <1>2, <1>8, ReaderKeepsStream
<1>13. ReaderIntact'
  <2>1. copied = <<>> /\ \A l \in 1 .. Len(received) : received[l] = Whole(l)
    BY <1>2 DEF Running, ReaderIntact
  <2>2. copied' = <<>> /\ received' = received /\ Len(copied') = 0
    BY <1>2, <2>1
  <2>3. data[r] = Message(t + 1) /\ data_size[r] = SIZE
    <3>1. Gap(r, r) = 0 /\ t + 1 + 0 = t + 1
      BY <1>4, <1>5, <1>7
    <3> QED BY <1>4, <1>7, <1>9, <3>1
  <2>4. Dist(reader)' = SLOTS - 1 /\ reader' # NONE
    BY <1>2, <1>3, <1>4, <1>5 DEF Dist
  <2>5. LastPacket \in Nat
    BY FirstPacket, PacketArithmetic
  <2>6. data'[reader'] = Message(Taken') /\ data_size'[reader'] = SIZE
    BY <1>2, <1>3, <1>7, <2>3
  <2> QED BY <2>1, <2>2, <2>4, <2>5, <2>6 DEF ReaderIntact
<1>14. CreditKept'
  <2>1. Unspent' = Unspent
    BY <1>2 DEF Unspent
  <2> QED BY <1>2, <2>1 DEF Running, CreditKept
<1>15. Running'
  BY <1>2, <1>11, <1>12, <1>13, <1>14 DEF Running
<1> QED BY <1>10, <1>15 DEF ChannelInv

(* A packet is copied out of the slot, which no packet can overwrite.      *)
LEMMA CopyKeepsInv ==
  ASSUME TypeOK, Running, Copy
  PROVE  ChannelInv'
<1>1. PICK h \in Packets, k \in Packets : InOrder(h, k) /\ RingIntact(h)
  BY DEF Running
<1>2. PICK e, n : e = data[reader][Len(copied)] /\ n = Len(copied)
  OBVIOUS
<1>3. /\ reader # NONE /\ n \in Packets /\ copied' = Append(copied, e)
      /\ UNCHANGED <<ringVars, sender, i, old, remotecredit, sent, request, response, reader, received>>
  BY <1>2 DEF Copy
<1>4. e = <<Taken, Off(n)>> /\ e \in Entry
  <2>1. data[reader] = Message(Taken) /\ reader \in Slot
    BY <1>3 DEF Running, ReaderIntact, TypeOK
  <2>2. data[reader][n] \in Entry
    BY <1>3, <2>1 DEF TypeOK
  <2> QED BY <1>2, <1>3, <2>1, <2>2 DEF Message
<1>5. /\ copied \in Seq(Entry) /\ n \in Nat /\ n <= LastPacket
      /\ \A l \in 1 .. n : copied[l] = <<Taken, Off(l - 1)>>
  <2>1. Packets = 0 .. LastPacket /\ LastPacket \in Nat
    BY FirstPacket, PacketArithmetic
  <2> QED BY <1>2, <1>3, <2>1 DEF TypeOK, Running, ReaderIntact
<1>6. /\ copied' \in Seq(Entry) /\ Len(copied') = n + 1
      /\ \A l \in 1 .. n : copied'[l] = copied[l]
      /\ copied'[n + 1] = e
  BY <1>2, <1>3, <1>4, <1>5
<1>7. TypeOK'
  BY <1>3, <1>6 DEF TypeOK, ringVars
<1>8. Taken' = Taken /\ Complete' = Complete
  BY <1>3 DEF Taken, Complete, Dist, ringVars
<1>9. RingIntact(h)'
  BY <1>1, <1>3, <1>8 DEF RingIntact, Dist, ringVars
<1>10. InOrder(h, k)'
  BY <1>1, <1>3, <1>8, ReaderKeepsStream
<1>11. ReaderIntact'
  <2>1. Len(copied') <= LastPacket + 1
    <3>1. LastPacket \in Nat
      BY FirstPacket, PacketArithmetic
    <3> QED BY <1>5, <1>6, <3>1
  <2>2. ASSUME NEW l \in 1 .. Len(copied') PROVE copied'[l] = <<Taken, Off(l - 1)>>
    <3>1. l \in 1 .. n \/ (l = n + 1 /\ l - 1 = n)
      BY <1>5, <1>6
    <3> QED BY <1>4, <1>5, <1>6, <3>1
  <2>3. Dist(reader)' = Dist(reader) /\ data' = data /\ data_size' = data_size
        /\ reader' = reader /\ received' = received
    BY <1>3 DEF Dist, ringVars
  <2>4. /\ Dist(reader) = SLOTS - 1 /\ data[reader] = Message(Taken) /\ data_size[reader] = SIZE
        /\ \A l \in 1 .. Len(received) : received[l] = Whole(l)
    BY <1>3 DEF Running, ReaderIntact
  <2> QED BY <1>3, <1>8, <2>1, <2>2, <2>3, <2>4 DEF ReaderIntact
<1>12. CreditKept'
  <2>1. Unspent' = Unspent
    BY <1>3 DEF Unspent
  <2> QED BY <1>3, <2>1 DEF Running, CreditKept
<1>13. Running'
  <2>1. sender' \notin {"start", "connect"}
    BY <1>3 DEF Running
  <2> QED BY <1>9, <1>10, <1>11, <1>12, <2>1 DEF Running
<1> QED BY <1>7, <1>13 DEF ChannelInv

(* The message is complete; its slot is free and its credit goes back.     *)
LEMMA ReturnCreditKeepsInv ==
  ASSUME TypeOK, Running, ReturnCredit
  PROVE  ChannelInv'
<1>1. PICK h \in Packets, k \in Packets : InOrder(h, k) /\ RingIntact(h)
  BY DEF Running
<1>2. PICK m, c, n : m = [packets |-> copied, size |-> data_size[reader]] /\ c = copied /\ n = Len(received)
  OBVIOUS
<1>3. /\ reader # NONE /\ Len(c) \notin Packets
      /\ received' = Append(received, m) /\ response' = Append(response, Credit)
      /\ reader' = NONE /\ copied' = <<>>
      /\ UNCHANGED <<ringVars, sender, i, old, remotecredit, sent, request>>
  BY <1>2 DEF ReturnCredit, Credit
<1>4. /\ received \in Seq([packets : Seq(Entry), size : Int]) /\ n \in Nat
      /\ c \in Seq(Entry) /\ Taken = n + 1 /\ data_size[reader] = SIZE /\ SIZE \in Int
  BY <1>2, <1>3, MpChannelAssumption DEF TypeOK, Taken, Running, ReaderIntact
<1>5. LastPacket \in Nat /\ Packets = 0 .. LastPacket
  BY FirstPacket, PacketArithmetic
<1>6. Len(c) = LastPacket + 1 /\ \A l \in 1 .. Len(c) : c[l] = <<n + 1, Off(l - 1)>>
  <2>1. Len(c) <= LastPacket + 1 /\ \A l \in 1 .. Len(c) : c[l] = <<Taken, Off(l - 1)>>
    BY <1>2 DEF Running, ReaderIntact
  <2>2. Len(c) \in Nat
    BY <1>4
  <2>3. Len(c) = LastPacket + 1
    BY <1>3, <1>5, <2>1, <2>2
  <2> QED BY <1>4, <2>1, <2>3
<1>7. m = Whole(n + 1)
  <2>1. DOMAIN c = 1 .. Len(c) /\ c = [l \in DOMAIN c |-> c[l]]
    BY <1>4
  <2>2. DOMAIN c = 1 .. LastPacket + 1
    BY <1>6, <2>1
  <2>3. c = [l \in 1 .. LastPacket + 1 |-> <<n + 1, (l - 1) * WPP>>]
    BY <1>6, <2>1, <2>2 DEF Off
  <2>4. m = [packets |-> c, size |-> SIZE]
    BY <1>2, <1>4
  <2> QED BY <2>3, <2>4 DEF Whole, LastPacket
<1>8. m \in [packets : Seq(Entry), size : Int]
  BY <1>2, <1>4
<1>9. /\ received' \in Seq([packets : Seq(Entry), size : Int]) /\ Len(received') = n + 1
      /\ received'[n + 1] = m /\ \A l \in 1 .. n : received'[l] = received[l]
  BY <1>2, <1>3, <1>4, <1>8
<1>10. TypeOK'
  BY <1>3, <1>9 DEF TypeOK, ringVars
<1>11. Taken' = Taken /\ Complete' = Complete
  <2>1. Taken' = n + 1
    BY <1>3, <1>4, <1>9 DEF Taken
  <2>2. Dist(write_ptr)' = Dist(write_ptr)
    BY <1>3 DEF Dist, ringVars
  <2> QED BY <1>4, <2>1, <2>2 DEF Complete
<1>12. RingIntact(h)'
  <2>1. Dist(write_ptr) \in Int /\ SLOTS \in Nat
    <3>1. read_ptr \in Slot /\ write_ptr \in Slot
      BY DEF TypeOK
    <3> QED BY <3>1, Gaps, MpChannelAssumption DEF Dist
  <2>2. Dist(write_ptr) + 0 <= SLOTS - 1
    BY <1>1, <1>3, <2>1 DEF RingIntact
  <2>3. UNCHANGED <<read_ptr, write_ptr, data, data_size>>
    BY <1>3 DEF ringVars
  <2>4. Dist(write_ptr)' = Dist(write_ptr) /\ \A p \in Slot : Dist(p)' = Dist(p)
    BY <2>3 DEF Dist
  <2> QED BY <1>1, <1>3, <1>11, <2>2, <2>3, <2>4 DEF RingIntact
<1>13. InOrder(h, k)'
  BY <1>1, <1>3, <1>11, ReaderKeepsStream
<1>14. ReaderIntact'
  <2>1. ASSUME NEW l \in 1 .. Len(received') PROVE received'[l] = Whole(l)
    <3>1. l \in 1 .. n \/ l = n + 1
      BY <1>4, <1>9
    <3>2. \A j \in 1 .. n : received[j] = Whole(j)
      BY <1>2 DEF Running, ReaderIntact
    <3> QED BY <1>7, <1>9, <3>1, <3>2
  <2>2. Len(copied') = 0
    BY <1>3
  <2> QED BY <1>3, <1>5, <2>1, <2>2 DEF ReaderIntact
<1>15. CreditKept'
  <2>1. Unspent' = Unspent /\ Unspent \in Int /\ sent' = sent /\ sent \in Nat
    BY <1>3 DEF Unspent, TypeOK
  <2>2. /\ response \in Seq({Credit}) /\ Unspent >= 0
        /\ Unspent + Len(response) + (sent - n) <= SLOTS - 1
    BY <1>2 DEF Running, CreditKept
  <2>3. response' \in Seq({Credit}) /\ Len(response') = Len(response) + 1 /\ Len(response) \in Nat
    BY <1>3, <2>2
  <2> QED BY <1>4, <1>9, <2>1, <2>2, <2>3, MpChannelAssumption DEF CreditKept
<1>16. Running'
  <2>1. sender' \notin {"start", "connect"}
    BY <1>3 DEF Running
  <2> QED BY <1>12, <1>13, <1>14, <1>15, <2>1 DEF Running
<1> QED BY <1>10, <1>16 DEF ChannelInv

-----------------------------------------------------------------------------
LEMMA InitEstablishesInv ==
  ASSUME ChannelInit
  PROVE  ChannelInv
<1>1. 0 \in Slot
  BY MpChannelAssumption DEF Slot
<1>2. data \in [Slot -> [Packets -> Entry]] /\ data_size \in [Slot -> Int]
  BY DEF ChannelInit, Entry
<1>3. TypeOK
  BY <1>1, <1>2 DEF ChannelInit, TypeOK
<1>4. Connecting
  BY DEF ChannelInit, Connecting
<1> QED BY <1>3, <1>4 DEF ChannelInv

LEMMA ChannelInvariant == ChannelSpec => []ChannelInv
<1>1. ChannelInit => ChannelInv
  BY InitEstablishesInv
<1>2. ChannelInv /\ [ChannelNext]_channelvars => ChannelInv'
  <2> SUFFICES ASSUME ChannelInv, [ChannelNext]_channelvars PROVE ChannelInv'
    OBVIOUS
  <2>1. CASE UNCHANGED channelvars
    <3>1. TypeOK' = TypeOK /\ Connecting' = Connecting
      BY <2>1 DEF channelvars, TypeOK, Connecting
    <3>2. Running => Running'
      <4> SUFFICES ASSUME Running PROVE Running'
        OBVIOUS
      <4>1. PICK h \in Packets, k \in Packets : InOrder(h, k) /\ RingIntact(h)
        BY DEF Running
      <4>2. RingIntact(h)' /\ ReaderIntact' /\ Complete' = Complete
        BY <2>1, <4>1, ReceiverUntouched DEF Running, channelvars, ringVars, readerVars
      <4>3. InOrder(h, k)'
        BY <2>1, <4>1, <4>2, ReaderKeepsStream DEF channelvars, ChannelInv
      <4>4. CreditKept' /\ sender' \notin {"start", "connect"}
        BY <2>1 DEF Running, CreditKept, Unspent, channelvars
      <4> QED BY <4>2, <4>3, <4>4 DEF Running
    <3> QED BY <3>1, <3>2 DEF ChannelInv
  <2>2. CASE Connecting /\ ChannelNext
    BY <2>2, ConnectingSteps DEF ChannelInv
  <2>3. CASE Running /\ ChannelNext
    <3>1. TypeOK
      BY DEF ChannelInv
    <3>2. ~Connect
      BY <2>3 DEF Running, Connect
    <3>3. CASE Send \/ SendI
      BY <2>3, <3>1, <3>3, SendKeepsInv
    <3>4. CASE LoadCredit \/ StoreCredit
      BY <2>3, <3>1, <3>4, TakeCreditKeepsInv
    <3>5. CASE SendPacket
      BY <2>3, <3>1, <3>5, SendPacketKeepsInv
    <3>6. CASE Handle
      BY <2>3, <3>1, <3>6, HandleKeepsInv
    <3>7. CASE HandleCredit
      BY <2>3, <3>1, <3>7, HandleCreditKeepsInv
    <3>8. CASE Recv
      BY <2>3, <3>1, <3>8, RecvKeepsInv
    <3>9. CASE Copy
      BY <2>3, <3>1, <3>9, CopyKeepsInv
    <3>10. CASE ReturnCredit
      BY <2>3, <3>1, <3>10, ReturnCreditKeepsInv
    <3> QED BY <2>3, <3>2, <3>3, <3>4, <3>5, <3>6, <3>7, <3>8, <3>9, <3>10 DEF ChannelNext
  <2> QED BY <2>1, <2>2, <2>3 DEF ChannelInv
<1> QED BY <1>1, <1>2, PTL DEF ChannelSpec

(* A packet that arrives never finds the ring full.                        *)
LEMMA RoomForPacket ==
  ASSUME ChannelInv, request # <<>>, Head(request).type = "data"
  PROVE  write_ptr # reader /\ next_ptr(write_ptr) \notin {read_ptr, reader}
<1>1. Running
  <2>1. Connecting => request \in {<<>>, <<[type |-> "connect"]>>}
    BY DEF Connecting
  <2>2. <<[type |-> "connect"]>> # request
    OBVIOUS
  <2> QED BY <2>1, <2>2 DEF ChannelInv
<1>2. PICK h \in Packets, k \in Packets : InOrder(h, k)
  BY <1>1 DEF Running
<1>3. Dist(write_ptr) + (IF reader = NONE THEN 0 ELSE 1) <= SLOTS - 2
  BY <1>1, <1>2, RoomForNext DEF ChannelInv, Running
<1>4. write_ptr \in Slot /\ read_ptr \in Slot /\ SLOTS \in Nat /\ NONE \notin Slot
  BY MpChannelAssumption DEF ChannelInv, TypeOK
<1>5. /\ Dist(write_ptr) \in Nat /\ Dist(write_ptr) < SLOTS - 1
      /\ next_ptr(write_ptr) \in Slot
  BY <1>3, <1>4, Gaps DEF Dist
<1>6. Dist(next_ptr(write_ptr)) = Dist(write_ptr) + 1 /\ Dist(read_ptr) = 0
  BY <1>4, <1>5, Gaps DEF Dist
<1>7. CASE reader = NONE
  BY <1>4, <1>5, <1>6, <1>7
<1>8. CASE reader # NONE
  <2>1. Dist(reader) = SLOTS - 1
    BY <1>1, <1>8 DEF Running, ReaderIntact
  <2> QED BY <1>3, <1>4, <1>5, <1>6, <1>8, <2>1
<1> QED BY <1>7, <1>8

(* For every number of slots and messages, and for every size: the channel *)
(* delivers the messages sent, whole, in order and with their size, and a  *)
(* packet that arrives never meets a slot that is in use or being copied.  *)
(* (control_channel_send, endpoint_channel_get_credit,                     *)
(* control_msg_handler, optimsoc_mp_channel_recv)                          *)
THEOREM ChannelDelivers == ChannelSpec => []ChannelIntact
<1>1. ASSUME ChannelInv PROVE ChannelIntact
  <2>0. SlotIsFree
    BY <1>1, RoomForPacket DEF SlotIsFree
  <2>1. CASE Connecting
    BY <2>0, <2>1 DEF Connecting, ChannelIntact
  <2>2. CASE Running
    <3>1. PICK h \in Packets, k \in Packets : InOrder(h, k)
      BY <2>2 DEF Running
    <3>2. /\ Complete <= sent /\ Complete \in Nat /\ Len(received) \in Nat
          /\ Dist(write_ptr) \in Nat /\ sent \in Nat
      <4>1. Complete <= sent /\ Complete \in Nat /\ Len(received) \in Nat
        BY <1>1, <2>2, <3>1, RoomForNext DEF ChannelInv, Running
      <4>2. Dist(write_ptr) \in Nat /\ sent \in Nat
        BY <1>1, Gaps DEF ChannelInv, TypeOK, Dist
      <4> QED BY <4>1, <4>2
    <3>3. Len(received) <= sent
      BY <3>2 DEF Complete, Taken
    <3>4. DOMAIN received = 1 .. Len(received)
      BY <1>1 DEF ChannelInv, TypeOK
    <3> QED BY <2>0, <2>2, <3>3, <3>4 DEF Running, ReaderIntact, ChannelIntact
  <2> QED BY <1>1, <2>1, <2>2 DEF ChannelInv
<1> QED BY <1>1, ChannelInvariant, PTL

-----------------------------------------------------------------------------
(* Connection-less messages.  The ring of the receiving endpoint is used   *)
(* in the same way, so the variables of MpMessages that MpChannel has too  *)
(* are these; the others are declared here.                                *)

CONSTANTS Senders, PACKETS

VARIABLES created, pc, reply, offset, count, allocated

Msg == INSTANCE MpMessages

(* The number of the message that a slot in use holds, and the message.    *)
Number(p) == Taken + 1 + Dist(p)

At(p) == allocated[Number(p)]

InUse(p) == Dist(p) < Dist(write_ptr)

(* What a sender may have on the way, and the replies to it.               *)
EndpointRequest == [type |-> "getep_req"]
AllocRequest(m) == [type |-> "alloc_req", msg |-> m]
DataRequest(p, m, k) == [type |-> "data", ptr |-> p, offset |-> k, msg |-> m]
CompleteRequest(p) == [type |-> "complete", ptr |-> p, size |-> PACKETS]

Refused == [ack |-> FALSE]
Granted(p) == [ack |-> TRUE, ptr |-> p]

(* Packets h to n - 1 of message m for slot p, ...                         *)
Part(p, m, h, n) == [j \in 1 .. n - h |-> DataRequest(p, m, h + j - 1)]

(* ... and all from packet h to the end.                                   *)
Rest(p, m, h) == Append(Part(p, m, h, PACKETS), CompleteRequest(p))

(* The same with another request behind.                                   *)
RestAnd(p, m, h, a) == Append(Rest(p, m, h), a)

(* What is left when the handler has taken the first request.              *)
Left(q) == Tail(q)

(* Sender s has no slot: it is between messages or asks for something.     *)
Resting(s) ==
  /\ offset[s] = 0
  /\ \/ pc[s] \in {"start", "idle"} /\ request[s] = <<>> /\ response[s] = <<>>
     \/ /\ pc[s] = "getep" /\ request[s] = <<EndpointRequest>>
        /\ response[s] = <<>> /\ reply[s] = NONE
     \/ /\ pc[s] = "getep" /\ request[s] = <<>>
        /\ \E b \in BOOLEAN : \/ response[s] = <<[ep |-> b]>> /\ reply[s] = NONE
                              \/ response[s] = <<>> /\ reply[s] = [ep |-> b]
     \/ /\ pc[s] = "alloc" /\ request[s] = <<AllocRequest(<<s, count[s]>>)>>
        /\ response[s] = <<>> /\ reply[s] = NONE
     \/ /\ pc[s] = "alloc" /\ request[s] = <<>>
        /\ \/ response[s] = <<Refused>> /\ reply[s] = NONE
           \/ response[s] = <<>> /\ reply[s] = Refused

(* Slot p was granted to sender s for message m, ...                       *)
Begins(s, p, m) ==
  /\ pc[s] = "alloc" /\ offset[s] = 0 /\ m = <<s, count[s]>>
  /\ request[s] = <<>>
  /\ \/ response[s] = <<Granted(p)>> /\ reply[s] = NONE
     \/ response[s] = <<>> /\ reply[s] = Granted(p)

(* ... which it writes; the receiver has stored its first h packets ...    *)
Writes(s, p, m, h) ==
  /\ pc[s] = "data" /\ offset[s] \in h .. PACKETS /\ m = <<s, count[s]>>
  /\ request[s] = Part(p, m, h, offset[s])
  /\ response[s] = <<>> /\ reply[s] = Granted(p)

(* ... and has completed, and may already ask for the next slot.           *)
Ends(s, p, m, h) ==
  /\ offset[s] = 0 /\ m = <<s, count[s] - 1>>
  /\ response[s] = <<>>
  /\ \/ pc[s] = "idle" /\ request[s] = Rest(p, m, h)
     \/ /\ pc[s] = "alloc" /\ reply[s] = NONE
        /\ request[s] = RestAnd(p, m, h, AllocRequest(<<s, count[s]>>))

Serving(s, p, h) ==
  /\ InUse(p) /\ data_size[p] = 0
  /\ \A k \in 0 .. h - 1 : data[p][k] = <<At(p), k>>
  /\ \/ h = 0 /\ Begins(s, p, At(p))
     \/ Writes(s, p, At(p), h)
     \/ Ends(s, p, At(p), h)

InStep(s) == Resting(s) \/ \E p \in Slot, h \in 0 .. PACKETS : Serving(s, p, h)

(* The ring holds the messages allocated and not taken yet; those with a   *)
(* size are whole.                                                         *)
SlotsIntact ==
  /\ Len(allocated) = Taken + Dist(write_ptr)
  /\ \A p \in Slot : InUse(p) /\ data_size[p] # 0 =>
       \A k \in 0 .. PACKETS - 1 : data[p][k] = <<At(p), k>>

(* The slot that is being copied is right behind the read pointer, where   *)
(* endpoint_alloc leaves one slot free.                                    *)
CopyIntact ==
  /\ IF reader = NONE THEN copied = <<>>
     ELSE /\ Dist(reader) = SLOTS - 1
          /\ \A k \in 0 .. PACKETS - 1 : data[reader][k] = <<allocated[Taken], k>>
  /\ Len(copied) < PACKETS
  /\ \A k \in 1 .. Len(copied) : copied[k] = <<allocated[Taken], k - 1>>
  /\ \A n \in 1 .. Len(received) : received[n] = Msg!Whole(allocated[n])

(* f is a function on the senders.                                         *)
PerSender(f) == DOMAIN f = Senders

MEntry == {NONE} \cup ((Senders \X Int) \X Nat)

MessageTypes ==
  /\ created \in BOOLEAN
  /\ write_ptr \in Slot /\ read_ptr \in Slot
  /\ data \in [Slot -> [0 .. PACKETS - 1 -> MEntry]]
  /\ data_size \in [Slot -> Nat]
  /\ reader \in Slot \cup {NONE}
  /\ copied \in Seq(MEntry)
  /\ received \in Seq(Seq(MEntry))
  /\ allocated \in Seq(Senders \X Int)
  /\ count \in [Senders -> Nat] /\ offset \in [Senders -> Nat]
  /\ PerSender(pc) /\ PerSender(reply) /\ PerSender(request) /\ PerSender(response)

MessagesInv ==
  /\ MessageTypes
  /\ \A s \in Senders : InStep(s)
  /\ SlotsIntact
  /\ CopyIntact

-----------------------------------------------------------------------------
(* Sequences of requests.                                                  *)

LEMMA Singles ==
  ASSUME NEW e
  PROVE  /\ Head(<<e>>) = e /\ Tail(<<e>>) = <<>> /\ Left(<<e>>) = <<>> /\ <<e>> # <<>>
         /\ Append(<<>>, e) = <<e>>
<1>1. <<e>> \in Seq({e}) /\ Len(<<e>>) = 1 /\ <<e>>[1] = e
  OBVIOUS
<1>2. Tail(<<e>>) \in Seq({e}) /\ Len(Tail(<<e>>)) = 0
  BY <1>1
<1>3. Tail(<<e>>) = <<>>
  BY <1>2, EmptySeq
<1> QED BY <1>1, <1>3 DEF Left

(* The packets of a message that a sender may send to slot p.              *)
DataRequests(p, m) == {DataRequest(p, m, k) : k \in Nat}

LEMMA PartTyped ==
  ASSUME NEW p, NEW m, NEW h \in Nat, NEW n \in Nat, h <= n,
         NEW T, \A k \in Nat : DataRequest(p, m, k) \in T
  PROVE  Part(p, m, h, n) \in Seq(T)
<1>1. \A j \in 1 .. n - h : h + j - 1 \in Nat
  OBVIOUS
<1>2. Part(p, m, h, n) \in [1 .. n - h -> T] /\ n - h \in Nat
  BY <1>1 DEF Part
<1> QED BY <1>2

LEMMA PartSeq ==
  ASSUME NEW p, NEW m, NEW h \in Nat, NEW n \in Nat, h <= n
  PROVE  Part(p, m, h, n) \in Seq(DataRequests(p, m))
<1>1. \A k \in Nat : DataRequest(p, m, k) \in DataRequests(p, m)
  BY DEF DataRequests
<1> QED BY <1>1, PartTyped

LEMMA PartFields ==
  ASSUME NEW p, NEW m, NEW h \in Nat, NEW n \in Nat, h <= n
  PROVE  /\ Len(Part(p, m, h, n)) = n - h
         /\ \A j \in 1 .. n - h : Part(p, m, h, n)[j] = DataRequest(p, m, h + j - 1)
<1>1. Part(p, m, h, n) \in Seq(DataRequests(p, m))
  BY PartSeq
<1>2. /\ DOMAIN Part(p, m, h, n) = 1 .. n - h
      /\ \A j \in 1 .. n - h : Part(p, m, h, n)[j] = DataRequest(p, m, h + j - 1)
  BY DEF Part
<1>3. Len(Part(p, m, h, n)) = n - h
  BY <1>1, <1>2
<1> QED BY <1>2, <1>3

LEMMA NoPart ==
  ASSUME NEW p, NEW m, NEW n \in Nat
  PROVE  Part(p, m, n, n) = <<>>
<1>1. Part(p, m, n, n) \in Seq(DataRequests(p, m))
  BY PartSeq
<1>2. DOMAIN Part(p, m, n, n) = 1 .. n - n
  BY DEF Part
<1>3. Len(Part(p, m, n, n)) = 0
  BY <1>1, <1>2
<1> QED BY <1>1, <1>3, EmptySeq

LEMMA PartAppend ==
  ASSUME NEW p, NEW m, NEW h \in Nat, NEW n \in Nat, h <= n
  PROVE  Append(Part(p, m, h, n), DataRequest(p, m, n)) = Part(p, m, h, n + 1)
<1> DEFINE D == DataRequests(p, m)
           r == Part(p, m, h, n)
           u == Part(p, m, h, n + 1)
           e == DataRequest(p, m, n)
           w == Append(r, e)
<1>1. /\ r \in Seq(D) /\ Len(r) = n - h
      /\ \A j \in 1 .. n - h : r[j] = DataRequest(p, m, h + j - 1)
  BY PartSeq, PartFields
<1>2. /\ u \in Seq(D) /\ Len(u) = n + 1 - h
      /\ \A j \in 1 .. n + 1 - h : u[j] = DataRequest(p, m, h + j - 1)
  <2>1. n + 1 \in Nat /\ h <= n + 1
    OBVIOUS
  <2> QED BY <2>1, PartSeq, PartFields
<1>3. e \in D
  BY DEF DataRequests
<1> HIDE DEF e, r, u
<1>4. w \in Seq(D) /\ Len(w) = n - h + 1 /\ w[n - h + 1] = e /\ \A j \in 1 .. n - h : w[j] = r[j]
  BY <1>1, <1>3
<1> HIDE DEF w
<1>5. ASSUME NEW j \in 1 .. n + 1 - h PROVE w[j] = u[j]
  <2>1. CASE j = n - h + 1
    BY <1>2, <1>4, <2>1 DEF e
  <2>2. CASE j # n - h + 1
    <3>1. j \in 1 .. n - h
      BY <2>2
    <3> QED BY <1>1, <1>2, <1>4, <3>1
  <2> QED BY <2>1, <2>2
<1>6. Len(w) = Len(u)
  BY <1>2, <1>4
<1>7. \A j \in 1 .. Len(u) : w[j] = u[j]
  BY <1>2, <1>5
<1>8. w = u
  BY <1>2, <1>4, <1>6, <1>7, SeqEqual
<1> QED BY <1>8 DEF w, e, r, u

LEMMA PartTail ==
  ASSUME NEW p, NEW m, NEW h \in Nat, NEW n \in Nat, h < n
  PROVE  /\ Part(p, m, h, n) # <<>>
         /\ Left(Part(p, m, h, n)) = Part(p, m, h + 1, n)
<1> DEFINE D == DataRequests(p, m)
           r == Part(p, m, h, n)
           v == Part(p, m, h + 1, n)
           t == Tail(r)
<1>1. /\ r \in Seq(D) /\ Len(r) = n - h
      /\ \A j \in 1 .. n - h : r[j] = DataRequest(p, m, h + j - 1)
  BY PartSeq, PartFields
<1>2. /\ v \in Seq(D) /\ Len(v) = n - (h + 1)
      /\ \A j \in 1 .. n - (h + 1) : v[j] = DataRequest(p, m, h + 1 + j - 1)
  <2>1. h + 1 \in Nat /\ h + 1 <= n
    OBVIOUS
  <2> QED BY <2>1, PartSeq, PartFields
<1> HIDE DEF r, v
<1>3. Len(r) \in Nat /\ Len(r) >= 1 /\ 1 \in 1 .. n - h /\ h + 1 - 1 = h
  BY <1>1
<1>4. r # <<>>
  BY <1>1, <1>3, EmptySeq
<1>5. t \in Seq(D) /\ Len(t) = n - h - 1 /\ \A j \in 1 .. n - h - 1 : t[j] = r[j + 1]
  BY <1>1, <1>3, <1>4
<1> HIDE DEF t
<1>6. ASSUME NEW j \in 1 .. n - h - 1 PROVE t[j] = v[j]
  <2>1. j + 1 \in 1 .. n - h /\ h + (j + 1) - 1 = h + 1 + j - 1 /\ j \in 1 .. n - (h + 1)
    OBVIOUS
  <2>2. t[j] = r[j + 1] /\ r[j + 1] = DataRequest(p, m, h + (j + 1) - 1)
    BY <1>1, <1>5, <2>1
  <2> QED BY <1>2, <2>1, <2>2
<1>7. t = v
  <2>1. Len(t) = Len(v) /\ Len(v) = n - h - 1
    BY <1>2, <1>5
  <2> QED BY <1>2, <1>5, <1>6, <2>1, SeqEqual
<1> QED BY <1>4, <1>7 DEF r, v, t, Left

LEMMA PartHead ==
  ASSUME NEW p, NEW m, NEW h \in Nat, NEW n \in Nat, h < n
  PROVE  Head(Part(p, m, h, n)) = DataRequest(p, m, h)
<1> DEFINE r == Part(p, m, h, n)
<1>1. /\ r \in Seq(DataRequests(p, m)) /\ Len(r) = n - h
      /\ \A j \in 1 .. n - h : r[j] = DataRequest(p, m, h + j - 1)
  BY PartSeq, PartFields
<1> HIDE DEF r
<1>2. Len(r) \in Nat /\ Len(r) >= 1 /\ 1 \in 1 .. n - h /\ h + 1 - 1 = h
  BY <1>1
<1>3. r # <<>>
  BY <1>1, <1>2, EmptySeq
<1>4. Head(r) = r[1] /\ r[1] = DataRequest(p, m, h + 1 - 1)
  BY <1>1, <1>2, <1>3
<1> QED BY <1>2, <1>4 DEF r

LEMMA Rests ==
  ASSUME PACKETS \in Nat \ {0}, NEW p, NEW m, NEW h \in Nat, h <= PACKETS
  PROVE  /\ h < PACKETS => /\ Head(Rest(p, m, h)) = DataRequest(p, m, h)
                           /\ Left(Rest(p, m, h)) = Rest(p, m, h + 1)
         /\ h = PACKETS => /\ Head(Rest(p, m, h)) = CompleteRequest(p)
                           /\ Left(Rest(p, m, h)) = <<>>
<1> DEFINE e == CompleteRequest(p)
           T == {DataRequest(p, m, k) : k \in Nat} \cup {e}
           r == Part(p, m, h, PACKETS)
           s == Append(r, e)
<1>1. h \in Nat /\ PACKETS \in Nat /\ h <= PACKETS
  OBVIOUS
<1>2. \A k \in Nat : DataRequest(p, m, k) \in T
  OBVIOUS
<1>3. r \in Seq(T)
  BY <1>1, <1>2, PartTyped
<1>4. e \in T
  OBVIOUS
<1> HIDE DEF e, T
<1>5. h < PACKETS => r # <<>> /\ Head(r) = DataRequest(p, m, h) /\ Left(r) = Part(p, m, h + 1, PACKETS)
  <2>1. PICK n \in Nat : n = PACKETS
    OBVIOUS
  <2>2. ASSUME h < n
        PROVE  /\ Part(p, m, h, n) # <<>>
               /\ Head(Part(p, m, h, n)) = DataRequest(p, m, h)
               /\ Left(Part(p, m, h, n)) = Part(p, m, h + 1, n)
    BY <2>2, PartHead, PartTail
  <2> QED BY <2>1, <2>2
<1>6. h = PACKETS => r = <<>>
  <2>1. Part(p, m, h, h) = <<>>
    BY <1>1, NoPart
  <2> QED BY <2>1
<1> HIDE DEF r
<1>7. s \in Seq(T) /\ s # <<>> /\ (r # <<>> => Head(s) = Head(r))
  <2>1. Len(r) \in Nat /\ s \in Seq(T) /\ Len(s) = Len(r) + 1 /\ \A j \in 1 .. Len(r) : s[j] = r[j]
    BY <1>3, <1>4
  <2> HIDE DEF s
  <2>2. s # <<>> /\ Head(s) = s[1]
    BY <2>1, EmptySeq
  <2>3. ASSUME r # <<>> PROVE Head(s) = Head(r)
    <3>1. 1 \in 1 .. Len(r) /\ Head(r) = r[1]
      BY <1>3, <2>1, <2>3, EmptySeq
    <3> QED BY <2>1, <2>2, <3>1
  <2> QED BY <2>1, <2>2, <2>3
<1>8. r # <<>> => Left(s) = Append(Left(r), e)
  BY <1>3, <1>4, TailAppend DEF Left
<1>9. r = <<>> => Head(s) = e /\ Left(s) = <<>>
  BY Singles
<1> HIDE DEF s
<1>10. Rest(p, m, h) = s /\ Rest(p, m, h + 1) = Append(Part(p, m, h + 1, PACKETS), e)
  BY DEF Rest, s, r, e
<1> QED BY <1>5, <1>6, <1>7, <1>8, <1>9, <1>10 DEF e

LEMMA RestsAppend ==
  ASSUME PACKETS \in Nat \ {0}, NEW p, NEW m, NEW h \in Nat, h <= PACKETS, NEW a
  PROVE  /\ h < PACKETS => Left(RestAnd(p, m, h, a)) = RestAnd(p, m, h + 1, a)
         /\ h = PACKETS => Left(RestAnd(p, m, h, a)) = <<a>>
<1> DEFINE e == CompleteRequest(p)
           T == {DataRequest(p, m, k) : k \in Nat} \cup {e, a}
           r == Part(p, m, h, PACKETS)
           s == Append(r, e)
<1>1. \A k \in Nat : DataRequest(p, m, k) \in T
  OBVIOUS
<1>2. r \in Seq(T)
  BY <1>1, PartTyped
<1>3. e \in T /\ a \in T
  OBVIOUS
<1> HIDE DEF e, T, r
<1>4. s \in Seq(T) /\ Len(s) = Len(r) + 1 /\ Len(r) \in Nat
  BY <1>2, <1>3
<1> HIDE DEF s
<1>5. s # <<>>
  BY <1>4, EmptySeq
<1>6. Left(Append(s, a)) = Append(Left(s), a)
  BY <1>3, <1>4, <1>5, TailAppend DEF Left
<1>7. Rest(p, m, h) = s
  BY DEF Rest, s, r, e
<1>8. RestAnd(p, m, h, a) = Append(s, a) /\ RestAnd(p, m, h + 1, a) = Append(Rest(p, m, h + 1), a)
  BY <1>7 DEF RestAnd
<1>9. h < PACKETS => Left(s) = Rest(p, m, h + 1)
  BY <1>7, Rests
<1>10. h = PACKETS => Left(s) = <<>>
  BY <1>7, Rests
<1>11. Append(<<>>, a) = <<a>>
  BY Singles
<1> QED BY <1>6, <1>7, <1>8, <1>9, <1>10, <1>11

LEMMA RestsHead ==
  ASSUME PACKETS \in Nat \ {0}, NEW p, NEW m, NEW h \in Nat, h <= PACKETS, NEW a
  PROVE  Head(RestAnd(p, m, h, a)) = Head(Rest(p, m, h))
<1> DEFINE e == CompleteRequest(p)
           T == {DataRequest(p, m, k) : k \in Nat} \cup {e, a}
           r == Part(p, m, h, PACKETS)
           s == Append(r, e)
<1>1. \A k \in Nat : DataRequest(p, m, k) \in T
  OBVIOUS
<1>2. r \in Seq(T)
  BY <1>1, PartTyped
<1>3. e \in T /\ a \in T
  OBVIOUS
<1> HIDE DEF e, T, r
<1>4. s \in Seq(T) /\ Len(s) = Len(r) + 1 /\ Len(r) \in Nat
  BY <1>2, <1>3
<1> HIDE DEF s
<1>5. s # <<>>
  BY <1>4, EmptySeq
<1>6. Head(Append(s, a)) = Head(s)
  <2> DEFINE t == Append(s, a)
  <2>1. t \in Seq(T) /\ Len(t) = Len(s) + 1 /\ \A j \in 1 .. Len(s) : t[j] = s[j]
    BY <1>3, <1>4
  <2> HIDE DEF t
  <2>2. 1 \in 1 .. Len(s) /\ t # <<>> /\ Head(t) = t[1] /\ Head(s) = s[1]
    BY <1>4, <1>5, <2>1, EmptySeq
  <2> QED BY <2>1, <2>2 DEF t
<1>7. Rest(p, m, h) = s
  BY DEF Rest, s, r, e
<1> QED BY <1>6, <1>7 DEF RestAnd

-----------------------------------------------------------------------------
(* What the steps of others leave alone.                                   *)

SameSender(t) ==
  /\ pc'[t] = pc[t] /\ offset'[t] = offset[t] /\ count'[t] = count[t] /\ reply'[t] = reply[t]
  /\ request'[t] = request[t] /\ response'[t] = response[t]

SameSlot(p) ==
  /\ InUse(p)' = InUse(p) /\ At(p)' = At(p)
  /\ data_size'[p] = data_size[p] /\ data'[p] = data[p]

LEMMA RestingKept ==
  ASSUME NEW t \in Senders, SameSender(t), Resting(t)
  PROVE  Resting(t)'
BY DEF SameSender, Resting

LEMMA ServingKept ==
  ASSUME NEW t \in Senders, SameSender(t), NEW p \in Slot, NEW h \in 0 .. PACKETS,
         SameSlot(p), Serving(t, p, h)
  PROVE  Serving(t, p, h)'
<1> DEFINE m == At(p)
<1>1. At(p)' = At(p)
  BY DEF SameSlot
<1>2. Begins(t, p, m) => Begins(t, p, At(p))'
  BY <1>1 DEF SameSender, Begins
<1>3. Writes(t, p, m, h) => Writes(t, p, At(p), h)'
  BY <1>1 DEF SameSender, Writes
<1>4. Ends(t, p, m, h) => Ends(t, p, At(p), h)'
  BY <1>1 DEF SameSender, Ends
<1>5. (InUse(p) /\ data_size[p] = 0)'
  BY DEF SameSlot, Serving
<1>6. (\A k \in 0 .. h - 1 : data[p][k] = <<At(p), k>>)'
  BY <1>1 DEF SameSlot, Serving
<1>7. \/ h = 0 /\ Begins(t, p, m)
      \/ Writes(t, p, m, h)
      \/ Ends(t, p, m, h)
  BY DEF Serving
<1>8. \/ h = 0 /\ Begins(t, p, At(p))'
      \/ Writes(t, p, At(p), h)'
      \/ Ends(t, p, At(p), h)'
  BY <1>2, <1>3, <1>4, <1>7
<1> QED BY <1>5, <1>6, <1>8 DEF Serving

(* The message in the slot a sender serves is its own.                     *)
LEMMA OwnMessage ==
  ASSUME NEW t \in Senders, NEW p \in Slot, NEW h \in 0 .. PACKETS, Serving(t, p, h)
  PROVE  InUse(p) /\ data_size[p] = 0 /\ At(p)[1] = t
BY DEF Serving, Begins, Writes, Ends

LEMMA SenderKept ==
  ASSUME NEW t \in Senders, SameSender(t), InStep(t),
         \A p \in Slot : InUse(p) /\ data_size[p] = 0 /\ At(p)[1] = t => SameSlot(p)
  PROVE  InStep(t)'
<1>1. CASE Resting(t)
  <2>1. Resting(t)'
    BY <1>1, RestingKept
  <2> QED BY <2>1 DEF InStep
<1>2. CASE ~Resting(t)
  <2>1. PICK p \in Slot, h \in 0 .. PACKETS : Serving(t, p, h)
    BY <1>2 DEF InStep
  <2>2. SameSlot(p)
    BY <2>1, OwnMessage
  <2>3. Serving(t, p, h)'
    BY <2>1, <2>2, ServingKept
  <2> QED BY <2>3 DEF InStep
<1> QED BY <1>1, <1>2

RingSame == UNCHANGED <<created, write_ptr, read_ptr, data, data_size, reader, copied, received, allocated>>

LEMMA RingKept ==
  ASSUME RingSame, SlotsIntact, CopyIntact
  PROVE  /\ SlotsIntact' /\ CopyIntact'
         /\ \A p \in Slot : SameSlot(p)
<1>1. Taken' = Taken /\ Dist(write_ptr)' = Dist(write_ptr) /\ Dist(reader)' = Dist(reader)
  BY DEF RingSame, Taken, Dist
<1>2. \A p \in Slot : Dist(p)' = Dist(p)
  BY DEF RingSame, Dist
<1>3. \A p \in Slot : At(p)' = At(p) /\ InUse(p)' = InUse(p)
  BY <1>1, <1>2 DEF RingSame, At, Number, InUse
<1>4. \A p \in Slot : SameSlot(p)
  BY <1>3 DEF RingSame, SameSlot
<1>5. SlotsIntact'
  BY <1>1, <1>3 DEF RingSame, SlotsIntact
<1>6. CopyIntact'
  BY <1>1 DEF RingSame, CopyIntact, Msg!Whole
<1> QED BY <1>4, <1>5, <1>6

(* A step that concerns one sender alone.                                  *)
LEMMA OneSender ==
  ASSUME MessagesInv, NEW s \in Senders, RingSame,
         \A t \in Senders : t # s => SameSender(t),
         InStep(s)', MessageTypes'
  PROVE  MessagesInv'
<1>1. SlotsIntact' /\ CopyIntact' /\ \A p \in Slot : SameSlot(p)
  BY RingKept DEF MessagesInv
<1>2. ASSUME NEW t \in Senders PROVE InStep(t)'
  <2>1. CASE t = s
    BY <2>1
  <2>2. CASE t # s
    <3>1. SameSender(t) /\ InStep(t)
      BY <2>2 DEF MessagesInv
    <3> QED BY <1>1, <3>1, SenderKept
  <2> QED BY <2>1, <2>2
<1> QED BY <1>1, <1>2 DEF MessagesInv

-----------------------------------------------------------------------------
(* The steps of a sender.                                                  *)

LEMMA GetEndpointStep ==
  ASSUME PACKETS \in Nat \ {0}, MessagesInv, NEW s \in Senders, Msg!GetEndpoint(s)
  PROVE  MessagesInv'
<1>1. /\ pc[s] = "start" /\ RingSame /\ UNCHANGED <<offset, count, response>>
      /\ request' = [request EXCEPT ![s] = Append(@, EndpointRequest)]
      /\ reply' = [reply EXCEPT ![s] = NONE]
      /\ pc' = [pc EXCEPT ![s] = "getep"]
  BY DEF Msg!GetEndpoint, Msg!Ask, Msg!Send, Msg!ringVars, Msg!readerVars, RingSame, EndpointRequest
<1>2. MessageTypes /\ InStep(s)
  BY DEF MessagesInv
<1>3. PerSender(pc) /\ PerSender(reply) /\ PerSender(request) /\ PerSender(response)
  BY <1>2 DEF MessageTypes
<1>4. PerSender(request') /\ PerSender(reply') /\ PerSender(pc')
  BY <1>1, <1>3 DEF PerSender
<1>5. request'[s] = Append(request[s], EndpointRequest) /\ reply'[s] = NONE /\ pc'[s] = "getep"
  <2>1. request'[s] = Append(request[s], EndpointRequest)
    BY <1>1, <1>3 DEF PerSender
  <2>2. reply'[s] = NONE
    BY <1>1, <1>3 DEF PerSender
  <2>3. pc'[s] = "getep"
    BY <1>1, <1>3 DEF PerSender
  <2> QED BY <2>1, <2>2, <2>3
<1>6. \A t \in Senders : t # s => request'[t] = request[t] /\ reply'[t] = reply[t] /\ pc'[t] = pc[t]
  BY <1>1, <1>3 DEF PerSender
<1>7. MessageTypes'
  BY <1>1, <1>2, <1>4 DEF MessageTypes, RingSame, PerSender
<1>8. \A t \in Senders : t # s => SameSender(t)
  BY <1>1, <1>6 DEF SameSender
<1>9. InStep(s)'
  <2>1. offset[s] = 0 /\ request[s] = <<>> /\ response[s] = <<>>
    BY <1>1, <1>2 DEF InStep, Resting, Serving, Begins, Writes, Ends
  <2>2. request'[s] = <<EndpointRequest>>
    BY <1>5, <2>1, Singles
  <2>3. Resting(s)'
    BY <1>1, <1>5, <2>1, <2>2 DEF Resting
  <2> QED BY <2>3 DEF InStep
<1> QED BY <1>1, <1>7, <1>8, <1>9, OneSender

LEMMA GotEndpointStep ==
  ASSUME PACKETS \in Nat \ {0}, MessagesInv, NEW s \in Senders, Msg!GotEndpoint(s)
  PROVE  MessagesInv'
<1>1. /\ pc[s] = "getep" /\ reply[s] # NONE
      /\ RingSame /\ UNCHANGED <<reply, offset, count, request, response>>
      /\ pc' = [pc EXCEPT ![s] = IF reply[s].ep THEN "idle" ELSE "start"]
  BY DEF Msg!GotEndpoint, Msg!ringVars, Msg!readerVars, RingSame
<1>2. MessageTypes /\ InStep(s) /\ PerSender(pc)
  BY DEF MessagesInv, MessageTypes
<1>3. PerSender(pc') /\ pc'[s] \in {"start", "idle"} /\ \A t \in Senders : t # s => pc'[t] = pc[t]
  <2> DEFINE v == IF reply[s].ep THEN "idle" ELSE "start"
  <2>1. v \in {"start", "idle"} /\ pc' = [pc EXCEPT ![s] = v]
    BY <1>1
  <2> HIDE DEF v
  <2> QED BY <1>2, <2>1 DEF PerSender
<1>4. MessageTypes'
  BY <1>1, <1>2, <1>3 DEF MessageTypes, RingSame, PerSender
<1>5. \A t \in Senders : t # s => SameSender(t)
  BY <1>1, <1>3 DEF SameSender
<1>6. InStep(s)'
  <2>1. offset[s] = 0 /\ request[s] = <<>> /\ response[s] = <<>>
    BY <1>1, <1>2 DEF InStep, Resting, Serving, Begins, Writes, Ends
  <2>2. Resting(s)'
    BY <1>1, <1>3, <2>1 DEF Resting
  <2> QED BY <2>2 DEF InStep
<1> QED BY <1>1, <1>4, <1>5, <1>6, OneSender

LEMMA MsgAllocStep ==
  ASSUME PACKETS \in Nat \ {0}, MessagesInv, NEW s \in Senders, Msg!MsgAlloc(s)
  PROVE  MessagesInv'
<1> DEFINE a == AllocRequest(<<s, count[s]>>)
<1>1. /\ pc[s] = "idle" /\ RingSame /\ UNCHANGED <<offset, count, response>>
      /\ request' = [request EXCEPT ![s] = Append(@, a)]
      /\ reply' = [reply EXCEPT ![s] = NONE]
      /\ pc' = [pc EXCEPT ![s] = "alloc"]
  BY DEF Msg!MsgAlloc, Msg!Ask, Msg!Send, Msg!Msg, Msg!ringVars, Msg!readerVars, RingSame, AllocRequest
<1>2. MessageTypes /\ InStep(s)
  BY DEF MessagesInv
<1>3. PerSender(pc) /\ PerSender(reply) /\ PerSender(request) /\ PerSender(response)
  BY <1>2 DEF MessageTypes
<1>4. PerSender(request') /\ PerSender(reply') /\ PerSender(pc')
  BY <1>1, <1>3 DEF PerSender
<1>5. request'[s] = Append(request[s], a) /\ reply'[s] = NONE /\ pc'[s] = "alloc"
  <2>1. request'[s] = Append(request[s], a)
    BY <1>1, <1>3 DEF PerSender
  <2>2. reply'[s] = NONE
    BY <1>1, <1>3 DEF PerSender
  <2>3. pc'[s] = "alloc"
    BY <1>1, <1>3 DEF PerSender
  <2> QED BY <2>1, <2>2, <2>3
<1>6. \A t \in Senders : t # s => request'[t] = request[t] /\ reply'[t] = reply[t] /\ pc'[t] = pc[t]
  BY <1>1, <1>3 DEF PerSender
<1>7. MessageTypes'
  BY <1>1, <1>2, <1>4 DEF MessageTypes, RingSame, PerSender
<1>8. \A t \in Senders : t # s => SameSender(t)
  BY <1>1, <1>6 DEF SameSender
<1>9. CASE Resting(s)
  <2>1. offset[s] = 0 /\ request[s] = <<>> /\ response[s] = <<>>
    BY <1>1, <1>9 DEF Resting
  <2>2. request'[s] = <<a>>
    BY <1>5, <2>1, Singles
  <2>3. Resting(s)'
    BY <1>1, <1>5, <2>1, <2>2 DEF Resting
  <2>4. InStep(s)'
    BY <2>3 DEF InStep
  <2> QED BY <1>1, <1>7, <1>8, <2>4, OneSender
<1>10. CASE ~Resting(s)
  <2>1. PICK p \in Slot, h \in 0 .. PACKETS : Serving(s, p, h)
    BY <1>2, <1>10 DEF InStep
  <2>2. SameSlot(p)
    BY <1>1, RingKept DEF MessagesInv
  <2>3. Ends(s, p, At(p), h) /\ request[s] = Rest(p, At(p), h)
    BY <1>1, <2>1 DEF Serving, Begins, Writes, Ends
  <2>4. request'[s] = RestAnd(p, At(p), h, a)
    BY <1>5, <2>3 DEF RestAnd
  <2>5. At(p)' = At(p)
    BY <2>2 DEF SameSlot
  <2>6. Ends(s, p, At(p), h)'
    BY <1>1, <1>5, <2>3, <2>4, <2>5 DEF Ends
  <2>7. Serving(s, p, h)'
    BY <2>1, <2>2, <2>5, <2>6 DEF Serving, SameSlot
  <2>8. InStep(s)'
    BY <2>7 DEF InStep
  <2> QED BY <1>1, <1>7, <1>8, <2>8, OneSender
<1> QED BY <1>9, <1>10

LEMMA GotSlotStep ==
  ASSUME PACKETS \in Nat \ {0}, MessagesInv, NEW s \in Senders, Msg!GotSlot(s)
  PROVE  MessagesInv'
<1>1. /\ pc[s] = "alloc" /\ reply[s] # NONE
      /\ RingSame /\ UNCHANGED <<reply, offset, count, request, response>>
      /\ pc' = [pc EXCEPT ![s] = IF reply[s].ack THEN "data" ELSE "idle"]
  BY DEF Msg!GotSlot, Msg!ringVars, Msg!readerVars, RingSame
<1>2. MessageTypes /\ InStep(s) /\ PerSender(pc)
  BY DEF MessagesInv, MessageTypes
<1>3. /\ PerSender(pc') /\ pc'[s] = (IF reply[s].ack THEN "data" ELSE "idle")
      /\ \A t \in Senders : t # s => pc'[t] = pc[t]
  <2> DEFINE v == IF reply[s].ack THEN "data" ELSE "idle"
  <2>1. pc' = [pc EXCEPT ![s] = v]
    BY <1>1
  <2> HIDE DEF v
  <2>2. PerSender(pc') /\ pc'[s] = v /\ \A t \in Senders : t # s => pc'[t] = pc[t]
    BY <1>2, <2>1 DEF PerSender
  <2> QED BY <2>2 DEF v
<1>4. MessageTypes'
  BY <1>1, <1>2, <1>3 DEF MessageTypes, RingSame, PerSender
<1>5. \A t \in Senders : t # s => SameSender(t)
  BY <1>1, <1>3 DEF SameSender
<1>6. CASE Resting(s)
  <2>1. offset[s] = 0 /\ request[s] = <<>> /\ response[s] = <<>> /\ reply[s] = Refused
    BY <1>1, <1>6 DEF Resting
  <2>2. pc'[s] = "idle"
    BY <1>3, <2>1 DEF Refused
  <2>3. Resting(s)'
    BY <1>1, <2>1, <2>2 DEF Resting
  <2>4. InStep(s)'
    BY <2>3 DEF InStep
  <2> QED BY <1>1, <1>4, <1>5, <2>4, OneSender
<1>7. CASE ~Resting(s)
  <2>1. PICK p \in Slot, h \in 0 .. PACKETS : Serving(s, p, h)
    BY <1>2, <1>7 DEF InStep
  <2>2. SameSlot(p)
    BY <1>1, RingKept DEF MessagesInv
  <2>3. h = 0 /\ Begins(s, p, At(p)) /\ response[s] = <<>> /\ reply[s] = Granted(p)
    BY <1>1, <2>1 DEF Serving, Begins, Writes, Ends
  <2>4. pc'[s] = "data"
    BY <1>3, <2>3 DEF Granted
  <2>5. At(p)' = At(p)
    BY <2>2 DEF SameSlot
  <2>6. Part(p, At(p), 0, 0) = <<>>
    BY NoPart
  <2>7. Writes(s, p, At(p), 0)'
    BY <1>1, <2>3, <2>4, <2>5, <2>6 DEF Writes, Begins
  <2>8. Serving(s, p, 0)'
    BY <2>1, <2>2, <2>3, <2>5, <2>7 DEF Serving, SameSlot
  <2>9. InStep(s)'
    BY <2>1, <2>3, <2>8 DEF InStep
  <2> QED BY <1>1, <1>4, <1>5, <2>9, OneSender
<1> QED BY <1>6, <1>7

LEMMA MsgDataStep ==
  ASSUME PACKETS \in Nat \ {0}, MessagesInv, NEW s \in Senders, Msg!MsgData(s)
  PROVE  MessagesInv'
<1>1. /\ pc[s] = "data" /\ offset[s] < PACKETS
      /\ RingSame /\ UNCHANGED <<pc, reply, count, response>>
      /\ request' = [request EXCEPT ![s] =
           Append(@, DataRequest(reply[s].ptr, <<s, count[s]>>, offset[s]))]
      /\ offset' = [offset EXCEPT ![s] = @ + 1]
  BY DEF Msg!MsgData, Msg!Send, Msg!Msg, Msg!ringVars, Msg!readerVars, RingSame, DataRequest
<1>2. MessageTypes /\ InStep(s) /\ PerSender(request) /\ offset \in [Senders -> Nat]
  BY DEF MessagesInv, MessageTypes
<1>3. /\ PerSender(request') /\ \A t \in Senders : t # s => request'[t] = request[t]
      /\ request'[s] = Append(request[s], DataRequest(reply[s].ptr, <<s, count[s]>>, offset[s]))
  <2> DEFINE v == Append(request[s], DataRequest(reply[s].ptr, <<s, count[s]>>, offset[s]))
  <2>1. request' = [request EXCEPT ![s] = v]
    BY <1>1
  <2> HIDE DEF v
  <2>2. PerSender(request') /\ request'[s] = v /\ \A t \in Senders : t # s => request'[t] = request[t]
    BY <1>2, <2>1 DEF PerSender
  <2> QED BY <2>2 DEF v
<1>4. /\ offset' \in [Senders -> Nat] /\ offset'[s] = offset[s] + 1
      /\ \A t \in Senders : t # s => offset'[t] = offset[t]
  BY <1>1, <1>2
<1>5. MessageTypes'
  BY <1>1, <1>2, <1>3, <1>4 DEF MessageTypes, RingSame, PerSender
<1>6. \A t \in Senders : t # s => SameSender(t)
  BY <1>1, <1>3, <1>4 DEF SameSender
<1>7. ~Resting(s)
  BY <1>1 DEF Resting
<1>8. PICK p \in Slot, h \in 0 .. PACKETS : Serving(s, p, h)
  BY <1>2, <1>7 DEF InStep
<1>9. SameSlot(p)
  BY <1>1, RingKept DEF MessagesInv
<1>10. Writes(s, p, At(p), h)
  BY <1>1, <1>8 DEF Serving, Begins, Writes, Ends
<1>11. At(p)' = At(p)
  BY <1>9 DEF SameSlot
<1>12. request'[s] = Part(p, At(p), h, offset'[s])
  <2>1. /\ request[s] = Part(p, At(p), h, offset[s]) /\ reply[s].ptr = p
        /\ At(p) = <<s, count[s]>>
    BY <1>10 DEF Writes, Granted
  <2>2. offset[s] \in Nat /\ h \in Nat /\ h <= offset[s]
    BY <1>2, <1>10 DEF Writes
  <2>3. PICK n \in Nat, k \in Nat : n = offset[s] /\ k = h
    BY <2>2
  <2>4. k <= n
    BY <2>2, <2>3
  <2>5. ASSUME NEW m PROVE Append(Part(p, m, k, n), DataRequest(p, m, n)) = Part(p, m, k, n + 1)
    BY <2>4, PartAppend
  <2> QED BY <1>3, <1>4, <2>1, <2>3, <2>5
<1>13. offset'[s] \in h .. PACKETS
  BY <1>1, <1>2, <1>4, <1>10 DEF Writes
<1>14. Writes(s, p, At(p), h)'
  BY <1>1, <1>10, <1>11, <1>12, <1>13 DEF Writes
<1>15. Serving(s, p, h)'
  BY <1>8, <1>9, <1>11, <1>14 DEF Serving, SameSlot
<1>16. InStep(s)'
  BY <1>15 DEF InStep
<1> QED BY <1>1, <1>5, <1>6, <1>16, OneSender

LEMMA MsgCompleteStep ==
  ASSUME PACKETS \in Nat \ {0}, MessagesInv, NEW s \in Senders, Msg!MsgComplete(s)
  PROVE  MessagesInv'
<1>1. /\ pc[s] = "data" /\ offset[s] = PACKETS
      /\ RingSame /\ UNCHANGED <<reply, response>>
      /\ request' = [request EXCEPT ![s] = Append(@, CompleteRequest(reply[s].ptr))]
      /\ offset' = [offset EXCEPT ![s] = 0]
      /\ count' = [count EXCEPT ![s] = @ + 1]
      /\ pc' = [pc EXCEPT ![s] = "idle"]
  BY DEF Msg!MsgComplete, Msg!Send, Msg!ringVars, Msg!readerVars, RingSame, CompleteRequest
<1>2. /\ MessageTypes /\ InStep(s) /\ PerSender(request) /\ PerSender(pc)
      /\ offset \in [Senders -> Nat] /\ count \in [Senders -> Nat]
  BY DEF MessagesInv, MessageTypes
<1>3. /\ PerSender(request') /\ PerSender(pc')
      /\ \A t \in Senders : t # s => request'[t] = request[t] /\ pc'[t] = pc[t]
      /\ request'[s] = Append(request[s], CompleteRequest(reply[s].ptr)) /\ pc'[s] = "idle"
  <2> DEFINE v == Append(request[s], CompleteRequest(reply[s].ptr))
  <2>1. request' = [request EXCEPT ![s] = v]
    BY <1>1
  <2> HIDE DEF v
  <2>2. PerSender(request') /\ request'[s] = v /\ \A t \in Senders : t # s => request'[t] = request[t]
    BY <1>2, <2>1 DEF PerSender
  <2>3. PerSender(pc') /\ pc'[s] = "idle" /\ \A t \in Senders : t # s => pc'[t] = pc[t]
    BY <1>1, <1>2 DEF PerSender
  <2> QED BY <2>2, <2>3 DEF v
<1>4. /\ offset' \in [Senders -> Nat] /\ offset'[s] = 0
      /\ count' \in [Senders -> Nat] /\ count'[s] = count[s] + 1
      /\ \A t \in Senders : t # s => offset'[t] = offset[t] /\ count'[t] = count[t]
  BY <1>1, <1>2
<1>5. MessageTypes'
  BY <1>1, <1>2, <1>3, <1>4 DEF MessageTypes, RingSame, PerSender
<1>6. \A t \in Senders : t # s => SameSender(t)
  BY <1>1, <1>3, <1>4 DEF SameSender
<1>7. ~Resting(s)
  BY <1>1 DEF Resting
<1>8. PICK p \in Slot, h \in 0 .. PACKETS : Serving(s, p, h)
  BY <1>2, <1>7 DEF InStep
<1>9. SameSlot(p)
  BY <1>1, RingKept DEF MessagesInv
<1>10. Writes(s, p, At(p), h)
  BY <1>1, <1>8 DEF Serving, Begins, Writes, Ends
<1>11. At(p)' = At(p)
  BY <1>9 DEF SameSlot
<1>12. request'[s] = Rest(p, At(p), h)
  BY <1>1, <1>3, <1>10 DEF Writes, Granted, Rest
<1>13. At(p) = <<s, count'[s] - 1>>
  BY <1>2, <1>4, <1>10 DEF Writes
<1>14. Ends(s, p, At(p), h)'
  BY <1>1, <1>3, <1>4, <1>10, <1>11, <1>12, <1>13 DEF Ends, Writes
<1>15. Serving(s, p, h)'
  BY <1>8, <1>9, <1>11, <1>14 DEF Serving, SameSlot
<1>16. InStep(s)'
  BY <1>15 DEF InStep
<1> QED BY <1>1, <1>5, <1>6, <1>16, OneSender

LEMMA HandleReplyStep ==
  ASSUME PACKETS \in Nat \ {0}, MessagesInv, NEW s \in Senders, Msg!HandleReply(s)
  PROVE  MessagesInv'
<1>1. /\ response[s] # <<>>
      /\ RingSame /\ UNCHANGED <<pc, offset, count, request>>
      /\ reply' = [reply EXCEPT ![s] = Head(response[s])]
      /\ response' = [response EXCEPT ![s] = Tail(@)]
  BY DEF Msg!HandleReply, Msg!ringVars, Msg!readerVars, RingSame
<1>2. MessageTypes /\ InStep(s) /\ PerSender(reply) /\ PerSender(response)
  BY DEF MessagesInv, MessageTypes
<1>3. /\ PerSender(reply') /\ PerSender(response')
      /\ \A t \in Senders : t # s => reply'[t] = reply[t] /\ response'[t] = response[t]
      /\ reply'[s] = Head(response[s]) /\ response'[s] = Tail(response[s])
  <2>1. /\ PerSender(reply') /\ reply'[s] = Head(response[s])
        /\ \A t \in Senders : t # s => reply'[t] = reply[t]
    BY <1>1, <1>2 DEF PerSender
  <2>2. /\ PerSender(response') /\ response'[s] = Tail(response[s])
        /\ \A t \in Senders : t # s => response'[t] = response[t]
    BY <1>1, <1>2 DEF PerSender
  <2> QED BY <2>1, <2>2
<1>4. MessageTypes'
  BY <1>1, <1>2, <1>3 DEF MessageTypes, RingSame, PerSender
<1>5. \A t \in Senders : t # s => SameSender(t)
  BY <1>1, <1>3 DEF SameSender
<1>6. \A e : response[s] = <<e>> => reply'[s] = e /\ response'[s] = <<>>
  BY <1>3, Singles
<1>7. CASE Resting(s)
  <2>1. offset[s] = 0 /\ request[s] = <<>>
    BY <1>1, <1>7 DEF Resting
  <2>2. \/ pc[s] = "getep" /\ \E b \in BOOLEAN : response[s] = <<[ep |-> b]>>
        \/ pc[s] = "alloc" /\ response[s] = <<Refused>>
    BY <1>1, <1>7 DEF Resting
  <2>3. Resting(s)'
    <3>1. CASE pc[s] = "getep" /\ \E b \in BOOLEAN : response[s] = <<[ep |-> b]>>
      <4>1. PICK b \in BOOLEAN : response[s] = <<[ep |-> b]>>
        BY <3>1
      <4>2. reply'[s] = [ep |-> b] /\ response'[s] = <<>>
        BY <1>6, <4>1
      <4> QED BY <1>1, <2>1, <3>1, <4>2 DEF Resting
    <3>2. CASE pc[s] = "alloc" /\ response[s] = <<Refused>>
      <4>1. reply'[s] = Refused /\ response'[s] = <<>>
        BY <1>6, <3>2
      <4> QED BY <1>1, <2>1, <3>2, <4>1 DEF Resting
    <3> QED BY <2>2, <3>1, <3>2
  <2>4. InStep(s)'
    BY <2>3 DEF InStep
  <2> QED BY <1>1, <1>4, <1>5, <2>4, OneSender
<1>8. CASE ~Resting(s)
  <2>1. PICK p \in Slot, h \in 0 .. PACKETS : Serving(s, p, h)
    BY <1>2, <1>8 DEF InStep
  <2>2. SameSlot(p)
    BY <1>1, RingKept DEF MessagesInv
  <2>3. h = 0 /\ Begins(s, p, At(p)) /\ response[s] = <<Granted(p)>>
    BY <1>1, <2>1 DEF Serving, Begins, Writes, Ends
  <2>4. reply'[s] = Granted(p) /\ response'[s] = <<>>
    BY <1>6, <2>3
  <2>5. At(p)' = At(p)
    BY <2>2 DEF SameSlot
  <2>6. Begins(s, p, At(p))'
    BY <1>1, <2>3, <2>4, <2>5 DEF Begins
  <2>7. Serving(s, p, h)'
    BY <2>1, <2>2, <2>3, <2>5, <2>6 DEF Serving, SameSlot
  <2>8. InStep(s)'
    BY <2>7 DEF InStep
  <2> QED BY <1>1, <1>4, <1>5, <2>8, OneSender
<1> QED BY <1>7, <1>8

-----------------------------------------------------------------------------
(* The steps of the receiving tile.                                        *)

LEMMA RingNumbers ==
  ASSUME MessageTypes, SlotsIntact
  PROVE  /\ SLOTS \in Nat /\ Taken \in Nat /\ Len(received) \in Nat /\ Len(allocated) \in Nat
         /\ Len(received) <= Taken
         /\ Taken + Dist(write_ptr) = Len(allocated)
         /\ \A p \in Slot : Dist(p) \in 0 .. SLOTS - 1
         /\ \A p \in Slot : Dist(p) = Dist(write_ptr) => p = write_ptr
<1>1. Len(received) \in Nat /\ Len(allocated) \in Nat /\ SLOTS \in Nat
  BY MpChannelAssumption DEF MessageTypes
<1>2. Taken \in Nat /\ Len(received) <= Taken
  BY <1>1 DEF Taken
<1>3. \A p \in Slot : Dist(p) \in 0 .. SLOTS - 1
  BY Gaps DEF Dist, MessageTypes
<1>4. \A p \in Slot : Dist(p) = Dist(write_ptr) => p = write_ptr
  BY GapsDiffer DEF Dist, MessageTypes
<1> QED BY <1>1, <1>2, <1>3, <1>4 DEF SlotsIntact

LEMMA SlotMessage ==
  ASSUME MessageTypes, SlotsIntact, NEW p \in Slot, InUse(p)
  PROVE  Number(p) \in 1 .. Len(allocated) /\ At(p) \in Senders \X Int
<1>1. Number(p) \in 1 .. Len(allocated)
  <2>1. PICK d \in Nat : d = Dist(p)
    BY RingNumbers
  <2>2. PICK e \in Nat : e = Dist(write_ptr)
    BY RingNumbers DEF MessageTypes
  <2>3. Taken \in Nat /\ Taken + e = Len(allocated) /\ d < e
    BY <2>1, <2>2, RingNumbers DEF InUse
  <2> QED BY <2>1, <2>3 DEF Number
<1>2. allocated \in Seq(Senders \X Int)
  BY DEF MessageTypes
<1> QED BY <1>1, <1>2 DEF At

(* Nothing is written to the slot that is being copied.                    *)
LEMMA NotCopied ==
  ASSUME MessageTypes, SlotsIntact, CopyIntact, NEW p \in Slot, InUse(p), reader # NONE
  PROVE  p # reader
<1>1. Dist(reader) = SLOTS - 1
  BY DEF CopyIntact
<1>2. Dist(p) < Dist(write_ptr) /\ Dist(write_ptr) <= SLOTS - 1 /\ Dist(p) \in Nat /\ Dist(write_ptr) \in Nat
  BY RingNumbers DEF InUse, MessageTypes
<1>3. SLOTS \in Nat
  BY MpChannelAssumption
<1> QED BY <1>1, <1>2, <1>3

(* The next request of a sender.                                           *)
LEMMA NextRequest ==
  ASSUME PACKETS \in Nat \ {0}, MessageTypes, NEW s \in Senders, InStep(s), request[s] # <<>>
  PROVE  \/ Resting(s) /\ pc[s] = "getep" /\ request[s] = <<EndpointRequest>>
         \/ Resting(s) /\ pc[s] = "alloc" /\ request[s] = <<AllocRequest(<<s, count[s]>>)>>
         \/ \E p \in Slot, h \in 0 .. PACKETS - 1 :
              Serving(s, p, h) /\ Head(request[s]) = DataRequest(p, At(p), h)
         \/ \E p \in Slot :
              Serving(s, p, PACKETS) /\ Head(request[s]) = CompleteRequest(p)
<1>1. CASE Resting(s)
  BY <1>1 DEF Resting
<1>2. CASE ~Resting(s)
  <2>1. PICK p \in Slot, h \in 0 .. PACKETS : Serving(s, p, h)
    BY <1>2 DEF InStep
  <2>2. PICK k \in Nat : k = h /\ k <= PACKETS
    OBVIOUS
  <2>3. CASE Writes(s, p, At(p), h)
    <3>1. request[s] = Part(p, At(p), k, offset[s]) /\ offset[s] \in k .. PACKETS
      BY <2>2, <2>3 DEF Writes
    <3>2. PICK n \in Nat : n = offset[s] /\ k <= n /\ n <= PACKETS
      BY <2>2, <3>1
    <3>3. k # n
      <4>1. Part(p, At(p), k, k) = <<>>
        BY NoPart
      <4> QED BY <3>1, <3>2, <4>1
    <3>4. k < n
      BY <3>2, <3>3
    <3>5. Head(request[s]) = DataRequest(p, At(p), k)
      BY <3>1, <3>2, <3>4, PartHead
    <3>6. h \in 0 .. PACKETS - 1
      BY <2>2, <3>2, <3>4
    <3> QED BY <2>1, <2>2, <3>5, <3>6
  <2>4. CASE Ends(s, p, At(p), h)
    <3>1. \/ request[s] = Rest(p, At(p), k)
          \/ request[s] = RestAnd(p, At(p), k, AllocRequest(<<s, count[s]>>))
      BY <2>2, <2>4 DEF Ends
    <3>2. Head(request[s]) = Head(Rest(p, At(p), k))
      BY <2>2, <3>1, RestsHead
    <3>3. CASE k < PACKETS
      <4>1. Head(request[s]) = DataRequest(p, At(p), k) /\ h \in 0 .. PACKETS - 1
        BY <2>2, <3>2, <3>3, Rests
      <4> QED BY <2>1, <2>2, <4>1
    <3>4. CASE k = PACKETS
      <4>1. Head(request[s]) = CompleteRequest(p)
        BY <2>2, <3>2, <3>4, Rests
      <4> QED BY <2>1, <2>2, <3>4, <4>1
    <3> QED BY <2>2, <3>3, <3>4
  <2> QED BY <2>1, <2>3, <2>4 DEF Serving, Begins
<1> QED BY <1>1, <1>2

(* What the handler has in common for all requests.                        *)
Handled(s) ==
  /\ request[s] # <<>>
  /\ request' = [request EXCEPT ![s] = Left(@)]
  /\ UNCHANGED <<created, read_ptr, pc, reply, offset, count, reader, copied, received>>

LEMMA HandleEndpoint ==
  ASSUME PACKETS \in Nat \ {0}, MessagesInv, NEW s \in Senders, Handled(s),
         Resting(s), pc[s] = "getep", request[s] = <<EndpointRequest>>,
         response' = [response EXCEPT ![s] = Append(@, [ep |-> created])],
         UNCHANGED <<write_ptr, data, data_size, allocated>>
  PROVE  MessagesInv'
<1>1. MessageTypes /\ PerSender(request) /\ PerSender(response) /\ created \in BOOLEAN
  BY DEF MessagesInv, MessageTypes
<1>2. RingSame
  BY DEF RingSame, Handled
<1>3. offset[s] = 0 /\ response[s] = <<>> /\ reply[s] = NONE
  BY DEF Resting, EndpointRequest
<1>4. request'[s] = Left(request[s]) /\ \A t \in Senders : t # s => request'[t] = request[t]
  BY <1>1 DEF PerSender, Handled
<1>5. /\ response'[s] = Append(response[s], [ep |-> created])
      /\ \A t \in Senders : t # s => response'[t] = response[t]
  BY <1>1 DEF PerSender
<1>6. request'[s] = <<>> /\ response'[s] = <<[ep |-> created]>>
  BY <1>3, <1>4, <1>5, Singles
<1>7. Resting(s)'
  BY <1>1, <1>3, <1>6 DEF Resting, Handled
<1>8. PerSender(request') /\ PerSender(response')
  BY <1>1 DEF PerSender, Handled
<1>9. MessageTypes'
  BY <1>1, <1>2, <1>8 DEF MessageTypes, RingSame, Handled, PerSender
<1>10. \A t \in Senders : t # s => SameSender(t)
  BY <1>4, <1>5 DEF SameSender, Handled
<1> QED BY <1>2, <1>7, <1>9, <1>10, OneSender DEF InStep

LEMMA HandleRefused ==
  ASSUME PACKETS \in Nat \ {0}, MessagesInv, NEW s \in Senders, Handled(s),
         Resting(s), pc[s] = "alloc", request[s] = <<AllocRequest(<<s, count[s]>>)>>,
         response' = [response EXCEPT ![s] = Append(@, Refused)],
         UNCHANGED <<write_ptr, data, data_size, allocated>>
  PROVE  MessagesInv'
<1>1. MessageTypes /\ PerSender(request) /\ PerSender(response)
  BY DEF MessagesInv, MessageTypes
<1>2. RingSame
  BY DEF RingSame, Handled
<1>3. offset[s] = 0 /\ response[s] = <<>> /\ reply[s] = NONE
  <2>1. request[s] # <<>>
    BY Singles
  <2> QED BY <2>1 DEF Resting
<1>4. request'[s] = Left(request[s]) /\ \A t \in Senders : t # s => request'[t] = request[t]
  BY <1>1 DEF PerSender, Handled
<1>5. /\ response'[s] = Append(response[s], Refused)
      /\ \A t \in Senders : t # s => response'[t] = response[t]
  BY <1>1 DEF PerSender
<1>6. request'[s] = <<>> /\ response'[s] = <<Refused>>
  BY <1>3, <1>4, <1>5, Singles
<1>7. Resting(s)'
  BY <1>3, <1>6 DEF Resting, Handled
<1>8. PerSender(request') /\ PerSender(response')
  BY <1>1 DEF PerSender, Handled
<1>9. MessageTypes'
  BY <1>1, <1>2, <1>8 DEF MessageTypes, RingSame, Handled, PerSender
<1>10. \A t \in Senders : t # s => SameSender(t)
  BY <1>4, <1>5 DEF SameSender, Handled
<1> QED BY <1>2, <1>7, <1>9, <1>10, OneSender DEF InStep

(* endpoint_alloc: the slot at the write pointer comes into use.           *)
LEMMA HandleGranted ==
  ASSUME PACKETS \in Nat \ {0}, MessagesInv, NEW s \in Senders, Handled(s),
         Resting(s), pc[s] = "alloc", request[s] = <<AllocRequest(<<s, count[s]>>)>>,
         ~Msg!endpoint_full,
         response' = [response EXCEPT ![s] = Append(@, Granted(write_ptr))],
         write_ptr' = next_ptr(write_ptr),
         data_size' = [data_size EXCEPT ![write_ptr] = 0],
         allocated' = Append(allocated, <<s, count[s]>>),
         UNCHANGED data
  PROVE  MessagesInv'
<1> DEFINE m == <<s, count[s]>>
<1>1. /\ MessageTypes /\ SlotsIntact /\ CopyIntact
      /\ PerSender(request) /\ PerSender(response) /\ write_ptr \in Slot /\ read_ptr \in Slot
      /\ allocated \in Seq(Senders \X Int) /\ data_size \in [Slot -> Nat]
      /\ m \in Senders \X Int
  BY DEF MessagesInv, MessageTypes
<1> HIDE DEF m
<1>2. /\ SLOTS \in Nat /\ Taken \in Nat /\ Len(received) \in Nat /\ Len(allocated) \in Nat
      /\ Len(received) <= Taken /\ Taken + Dist(write_ptr) = Len(allocated)
      /\ \A p \in Slot : Dist(p) \in 0 .. SLOTS - 1
      /\ \A p \in Slot : Dist(p) = Dist(write_ptr) => p = write_ptr
  BY <1>1, RingNumbers
<1>3. Dist(write_ptr) < SLOTS - 1
  BY <1>1, <1>2, MpChannelAssumption DEF Msg!endpoint_full, Dist, Gap, Slot
<1>4. write_ptr' \in Slot /\ Dist(write_ptr)' = Dist(write_ptr) + 1
  BY <1>1, <1>3, Gaps DEF Dist, Handled
<1>5. Taken' = Taken /\ \A p \in Slot : Dist(p)' = Dist(p) /\ Number(p)' = Number(p)
  BY DEF Taken, Dist, Number, Handled
<1>6. /\ allocated' \in Seq(Senders \X Int) /\ Len(allocated') = Len(allocated) + 1
      /\ allocated'[Len(allocated) + 1] = m
      /\ \A j \in 1 .. Len(allocated) : allocated'[j] = allocated[j]
  BY <1>1 DEF m
<1>7. \A p \in Slot : InUse(p)' <=> InUse(p) \/ p = write_ptr
  BY <1>1, <1>2, <1>4, <1>5 DEF InUse
<1>8. ASSUME NEW p \in Slot, InUse(p) PROVE p # write_ptr /\ At(p)' = At(p)
  <2>1. p # write_ptr
    BY <1>1, <1>2, <1>8 DEF InUse
  <2>2. Number(p) \in 1 .. Len(allocated) /\ Number(p)' = Number(p)
    BY <1>1, <1>5, <1>8, SlotMessage
  <2> QED BY <1>6, <2>1, <2>2 DEF At
<1>10. /\ data_size' \in [Slot -> Nat] /\ data_size'[write_ptr] = 0
       /\ \A p \in Slot : p # write_ptr => data_size'[p] = data_size[p]
  BY <1>1
<1>11. \A p \in Slot : InUse(p) => SameSlot(p)
  BY <1>7, <1>8, <1>10 DEF SameSlot
<1>12. SlotsIntact'
  <2>1. Len(allocated') = Taken' + Dist(write_ptr)'
    <3>1. PICK e \in Nat : e = Dist(write_ptr)
      BY <1>1, <1>2
    <3>2. Dist(write_ptr)' = e + 1 /\ Len(allocated') = Len(allocated) + 1 /\ Taken' = Taken
      BY <1>4, <1>5, <1>6, <3>1
    <3>3. Taken \in Nat /\ Taken + e = Len(allocated)
      BY <1>2, <3>1
    <3> QED BY <3>2, <3>3
  <2>2. ASSUME NEW p \in Slot, InUse(p)', data_size'[p] # 0
        PROVE  (\A k \in 0 .. PACKETS - 1 : data[p][k] = <<At(p), k>>)'
    <3>1. InUse(p) /\ data_size[p] # 0
      BY <1>7, <1>10, <2>2
    <3>2. At(p)' = At(p) /\ \A k \in 0 .. PACKETS - 1 : data[p][k] = <<At(p), k>>
      BY <1>1, <1>8, <3>1 DEF SlotsIntact
    <3> QED BY <3>2
  <2> QED BY <2>1, <2>2 DEF SlotsIntact
<1>13. CopyIntact'
  <2>1. \A j \in 1 .. Taken : allocated'[j] = allocated[j]
    BY <1>1, <1>2, <1>6
  <2>2. reader # NONE => /\ Taken \in 1 .. Taken /\ reader \in Slot
                         /\ Dist(reader)' = Dist(reader)
    <3>1. reader # NONE => Taken = Len(received) + 1 /\ reader \in Slot
      BY <1>1 DEF Taken, MessageTypes
    <3>2. Dist(reader)' = Dist(reader)
      BY DEF Dist, Handled
    <3> QED BY <1>2, <3>1, <3>2
  <2>3. ASSUME reader # NONE PROVE allocated'[Taken] = allocated[Taken]
    <3>1. Taken \in 1 .. Taken
      BY <2>2, <2>3
    <3> QED BY <2>1, <3>1
  <2>4. \A n \in 1 .. Len(received) : allocated'[n] = allocated[n]
    <3>1. \A n \in 1 .. Len(received) : n \in 1 .. Taken
      BY <1>2
    <3> QED BY <2>1, <3>1
  <2>5. reader = NONE => copied = <<>> /\ Len(copied) = 0
    BY <1>1 DEF CopyIntact
  <2>6. IF reader' = NONE THEN copied' = <<>>
        ELSE /\ Dist(reader)' = SLOTS - 1
             /\ \A k \in 0 .. PACKETS - 1 : data'[reader'][k] = <<allocated'[Taken'], k>>
    BY <1>1, <1>5, <2>2, <2>3 DEF CopyIntact, Handled
  <2>7. \A k \in 1 .. Len(copied') : copied'[k] = <<allocated'[Taken'], k - 1>>
    <3>1. CASE reader = NONE
      BY <2>5, <3>1 DEF Handled
    <3>2. CASE reader # NONE
      BY <1>1, <1>5, <2>3, <3>2 DEF CopyIntact, Handled
    <3> QED BY <3>1, <3>2
  <2>8. \A n \in 1 .. Len(received') : received'[n] = Msg!Whole(allocated'[n])
    BY <1>1, <2>4 DEF CopyIntact, Handled
  <2>9. Len(copied') < PACKETS
    BY <1>1 DEF CopyIntact, Handled
  <2> QED BY <2>6, <2>7, <2>8, <2>9 DEF CopyIntact, Msg!Whole
<1>14. /\ request'[s] = Left(request[s]) /\ PerSender(request')
       /\ \A t \in Senders : t # s => request'[t] = request[t]
  BY <1>1 DEF PerSender, Handled
<1>15. /\ response'[s] = Append(response[s], Granted(write_ptr)) /\ PerSender(response')
       /\ \A t \in Senders : t # s => response'[t] = response[t]
  BY <1>1 DEF PerSender
<1>16. MessageTypes'
  BY <1>1, <1>4, <1>6, <1>10, <1>14, <1>15 DEF MessageTypes, Handled
<1>17. InStep(s)'
  <2>1. offset[s] = 0 /\ response[s] = <<>> /\ reply[s] = NONE
    <3>1. request[s] # <<>>
      BY Singles
    <3> QED BY <3>1 DEF Resting
  <2>2. request'[s] = <<>> /\ response'[s] = <<Granted(write_ptr)>>
    BY <1>14, <1>15, <2>1, Singles
  <2>3. PICK p \in Slot : p = write_ptr
    BY <1>1
  <2>4. At(p)' = m
    <3>1. Number(p)' = Len(allocated) + 1
      BY <1>1, <1>2, <1>5, <2>3 DEF Number
    <3> QED BY <1>6, <3>1 DEF At
  <2>5. Begins(s, p, At(p))'
    BY <2>1, <2>2, <2>3, <2>4 DEF Begins, Handled, m
  <2>6. (InUse(p) /\ data_size[p] = 0)'
    BY <1>7, <1>10, <2>3
  <2>7. (\A k \in 0 .. 0 - 1 : data[p][k] = <<At(p), k>>)'
    OBVIOUS
  <2>8. Serving(s, p, 0)'
    BY <2>5, <2>6, <2>7 DEF Serving
  <2>9. 0 \in 0 .. PACKETS
    OBVIOUS
  <2> QED BY <2>8, <2>9 DEF InStep
<1>18. ASSUME NEW t \in Senders PROVE InStep(t)'
  <2>1. CASE t # s
    <3>1. SameSender(t) /\ InStep(t)
      BY <1>14, <1>15, <2>1 DEF SameSender, Handled, MessagesInv
    <3> QED BY <1>11, <3>1, SenderKept
  <2> QED BY <1>17, <2>1
<1> QED BY <1>12, <1>13, <1>16, <1>18 DEF MessagesInv

(* A packet is stored in the slot its sender serves.                       *)
LEMMA HandleData ==
  ASSUME PACKETS \in Nat \ {0}, MessagesInv, NEW s \in Senders, Handled(s),
         NEW p \in Slot, NEW h \in 0 .. PACKETS - 1, Serving(s, p, h),
         data' = [data EXCEPT ![p][h] = <<At(p), h>>],
         UNCHANGED <<write_ptr, data_size, response, allocated>>
  PROVE  MessagesInv'
<1>1. /\ MessageTypes /\ SlotsIntact /\ CopyIntact /\ PerSender(request)
      /\ data \in [Slot -> [0 .. PACKETS - 1 -> MEntry]]
  BY DEF MessagesInv, MessageTypes
<1>2. InUse(p) /\ data_size[p] = 0 /\ At(p)[1] = s
  BY OwnMessage
<1>3. <<At(p), h>> \in MEntry
  BY <1>1, <1>2, SlotMessage DEF MEntry
<1>4. /\ data' \in [Slot -> [0 .. PACKETS - 1 -> MEntry]]
      /\ data'[p][h] = <<At(p), h>>
      /\ \A k \in 0 .. PACKETS - 1 : k # h => data'[p][k] = data[p][k]
      /\ \A q \in Slot : q # p => data'[q] = data[q]
  BY <1>1, <1>3
<1>5. /\ Taken' = Taken
      /\ \A q \in Slot : /\ Dist(q)' = Dist(q) /\ Number(q)' = Number(q)
                         /\ At(q)' = At(q) /\ InUse(q)' = InUse(q)
  BY DEF Taken, Dist, Number, At, InUse, Handled
<1>6. \A q \in Slot : q # p => SameSlot(q)
  BY <1>4, <1>5 DEF SameSlot
<1>7. SlotsIntact'
  <2>1. Len(allocated') = Taken' + Dist(write_ptr)'
    <3>1. Dist(write_ptr)' = Dist(write_ptr)
      BY DEF Dist, Handled
    <3> QED BY <1>1, <1>5, <3>1 DEF SlotsIntact
  <2>2. ASSUME NEW q \in Slot, InUse(q)', data_size'[q] # 0
        PROVE  (\A k \in 0 .. PACKETS - 1 : data[q][k] = <<At(q), k>>)'
    <3>1. InUse(q) /\ data_size[q] # 0 /\ q # p
      BY <1>2, <1>5, <2>2
    <3>2. At(q)' = At(q) /\ \A k \in 0 .. PACKETS - 1 : data[q][k] = <<At(q), k>>
      BY <1>1, <1>5, <3>1 DEF SlotsIntact
    <3> QED BY <1>4, <3>1, <3>2
  <2> QED BY <2>1, <2>2 DEF SlotsIntact
<1>8. CopyIntact'
  <2>1. reader # NONE => reader \in Slot /\ data'[reader] = data[reader]
    BY <1>1, <1>2, <1>4, NotCopied DEF MessageTypes
  <2>2. Dist(reader)' = Dist(reader)
    BY DEF Dist, Handled
  <2> QED BY <1>1, <1>5, <2>1, <2>2 DEF CopyIntact, Handled, Msg!Whole
<1>9. /\ request'[s] = Left(request[s]) /\ PerSender(request')
      /\ \A t \in Senders : t # s => request'[t] = request[t]
  BY <1>1 DEF PerSender, Handled
<1>10. MessageTypes'
  BY <1>1, <1>4, <1>9 DEF MessageTypes, Handled, PerSender
<1>11. PICK k \in Nat : k = h /\ k < PACKETS /\ k + 1 \in 0 .. PACKETS
  OBVIOUS
<1>12. At(p)' = At(p)
  BY <1>5
<1>13. \/ Writes(s, p, At(p), k + 1)'
       \/ Ends(s, p, At(p), k + 1)'
  <2>1. CASE Writes(s, p, At(p), h)
    <3>1. request[s] = Part(p, At(p), k, offset[s]) /\ offset[s] \in k .. PACKETS
      BY <1>11, <2>1 DEF Writes
    <3>2. PICK n \in Nat : n = offset[s] /\ k <= n /\ n <= PACKETS
      BY <1>11, <3>1
    <3>3. k # n
      <4>1. Part(p, At(p), k, k) = <<>>
        BY NoPart
      <4> QED BY <3>1, <3>2, <4>1 DEF Handled
    <3>4. k < n
      BY <3>2, <3>3
    <3>5. offset[s] \in k + 1 .. PACKETS
      BY <3>2, <3>4
    <3>6. Left(Part(p, At(p), k, n)) = Part(p, At(p), k + 1, n)
      BY <3>4, PartTail
    <3>7. Left(request[s]) = Part(p, At(p), k + 1, offset[s])
      BY <3>1, <3>2, <3>6
    <3>8. Writes(s, p, At(p), k + 1)'
      BY <1>9, <1>12, <2>1, <3>5, <3>7 DEF Writes, Handled
    <3> QED BY <3>8
  <2>2. CASE Ends(s, p, At(p), h)
    <3> DEFINE a == AllocRequest(<<s, count[s]>>)
    <3>1. Left(Rest(p, At(p), k)) = Rest(p, At(p), k + 1)
      BY <1>11, Rests
    <3>2. Left(RestAnd(p, At(p), k, a)) = RestAnd(p, At(p), k + 1, a)
      BY <1>11, RestsAppend
    <3>3. \/ pc[s] = "idle" /\ Left(request[s]) = Rest(p, At(p), k + 1)
          \/ /\ pc[s] = "alloc" /\ reply[s] = NONE
             /\ Left(request[s]) = RestAnd(p, At(p), k + 1, a)
      BY <1>11, <2>2, <3>1, <3>2 DEF Ends
    <3>4. Ends(s, p, At(p), k + 1)'
      BY <1>9, <1>12, <2>2, <3>3 DEF Ends, Handled
    <3> QED BY <3>4
  <2>3. ~Begins(s, p, At(p))
    BY DEF Begins, Handled
  <2> QED BY <2>1, <2>2, <2>3 DEF Serving
<1>14. InStep(s)'
  <2>1. (InUse(p) /\ data_size[p] = 0)'
    BY <1>2, <1>5
  <2>2. (\A l \in 0 .. k + 1 - 1 : data[p][l] = <<At(p), l>>)'
    <3>1. ASSUME NEW l \in 0 .. k + 1 - 1 PROVE data'[p][l] = <<At(p), l>>
      <4>1. CASE l = h
        BY <1>4, <4>1
      <4>2. CASE l # h
        <5>1. l \in 0 .. h - 1 /\ l \in 0 .. PACKETS - 1
          BY <1>11, <4>2
        <5> QED BY <1>4, <4>2, <5>1 DEF Serving
      <4> QED BY <4>1, <4>2
    <3> QED BY <1>12, <3>1
  <2>3. Serving(s, p, k + 1)'
    BY <1>13, <2>1, <2>2 DEF Serving
  <2> QED BY <1>11, <2>3 DEF InStep
<1>15. ASSUME NEW t \in Senders PROVE InStep(t)'
  <2>1. CASE t # s
    <3>1. SameSender(t) /\ InStep(t)
      BY <1>9, <2>1 DEF SameSender, Handled, MessagesInv
    <3>2. \A q \in Slot : InUse(q) /\ data_size[q] = 0 /\ At(q)[1] = t => SameSlot(q)
      BY <1>2, <1>6, <2>1
    <3> QED BY <3>1, <3>2, SenderKept
  <2> QED BY <1>14, <2>1
<1> QED BY <1>7, <1>8, <1>10, <1>15 DEF MessagesInv

(* A message is complete: its size makes it available.                     *)
LEMMA HandleComplete ==
  ASSUME PACKETS \in Nat \ {0}, MessagesInv, NEW s \in Senders, Handled(s),
         NEW p \in Slot, Serving(s, p, PACKETS), Head(request[s]) = CompleteRequest(p),
         data_size' = [data_size EXCEPT ![p] = PACKETS],
         UNCHANGED <<write_ptr, data, response, allocated>>
  PROVE  MessagesInv'
<1>1. /\ MessageTypes /\ SlotsIntact /\ CopyIntact /\ PerSender(request)
      /\ data_size \in [Slot -> Nat] /\ PACKETS \in 0 .. PACKETS
  BY DEF MessagesInv, MessageTypes
<1>2. InUse(p) /\ data_size[p] = 0 /\ At(p)[1] = s
  BY <1>1, OwnMessage
<1>3. /\ data_size' \in [Slot -> Nat]
      /\ \A q \in Slot : q # p => data_size'[q] = data_size[q]
  BY <1>1
<1>4. /\ Taken' = Taken
      /\ \A q \in Slot : /\ Dist(q)' = Dist(q) /\ Number(q)' = Number(q)
                         /\ At(q)' = At(q) /\ InUse(q)' = InUse(q)
  BY DEF Taken, Dist, Number, At, InUse, Handled
<1>5. \A q \in Slot : q # p => SameSlot(q)
  BY <1>3, <1>4 DEF SameSlot
<1>6. SlotsIntact'
  <2>1. Len(allocated') = Taken' + Dist(write_ptr)'
    <3>1. Dist(write_ptr)' = Dist(write_ptr)
      BY DEF Dist, Handled
    <3> QED BY <1>1, <1>4, <3>1 DEF SlotsIntact
  <2>2. ASSUME NEW q \in Slot, InUse(q)', data_size'[q] # 0
        PROVE  (\A k \in 0 .. PACKETS - 1 : data[q][k] = <<At(q), k>>)'
    <3>1. CASE q = p
      BY <1>4, <3>1 DEF Serving
    <3>2. CASE q # p
      <4>1. InUse(q) /\ data_size[q] # 0
        BY <1>3, <1>4, <2>2, <3>2
      <4>2. At(q)' = At(q) /\ \A k \in 0 .. PACKETS - 1 : data[q][k] = <<At(q), k>>
        BY <1>1, <1>4, <4>1 DEF SlotsIntact
      <4> QED BY <4>2
    <3> QED BY <3>1, <3>2
  <2> QED BY <2>1, <2>2 DEF SlotsIntact
<1>7. CopyIntact'
  <2>1. Dist(reader)' = Dist(reader)
    BY DEF Dist, Handled
  <2> QED BY <1>1, <1>4, <2>1 DEF CopyIntact, Handled, Msg!Whole
<1>8. /\ request'[s] = Left(request[s]) /\ PerSender(request')
      /\ \A t \in Senders : t # s => request'[t] = request[t]
  BY <1>1 DEF PerSender, Handled
<1>9. MessageTypes'
  BY <1>1, <1>3, <1>8 DEF MessageTypes, Handled, PerSender
<1>10. InStep(s)'
  <2> DEFINE a == AllocRequest(<<s, count[s]>>)
  <2>1. Ends(s, p, At(p), PACKETS)
    <3>1. ~Begins(s, p, At(p))
      BY DEF Begins, Handled
    <3>2. ~Writes(s, p, At(p), PACKETS)
      <4>1. ASSUME Writes(s, p, At(p), PACKETS) PROVE FALSE
        <5>1. offset[s] = PACKETS /\ request[s] = Part(p, At(p), PACKETS, PACKETS)
          BY <4>1 DEF Writes
        <5>2. Part(p, At(p), PACKETS, PACKETS) = <<>>
          BY NoPart
        <5> QED BY <5>1, <5>2 DEF Handled
      <4> QED BY <4>1
    <3> QED BY <3>1, <3>2 DEF Serving
  <2>2. Left(Rest(p, At(p), PACKETS)) = <<>>
    BY Rests
  <2>3. Left(RestAnd(p, At(p), PACKETS, a)) = <<a>>
    BY RestsAppend
  <2>4. \/ pc[s] = "idle" /\ request'[s] = <<>>
        \/ pc[s] = "alloc" /\ reply[s] = NONE /\ request'[s] = <<a>>
    BY <1>8, <2>1, <2>2, <2>3 DEF Ends
  <2>5. Resting(s)'
    BY <2>1, <2>4 DEF Resting, Ends, Handled
  <2> QED BY <2>5 DEF InStep
<1>11. ASSUME NEW t \in Senders PROVE InStep(t)'
  <2>1. CASE t # s
    <3>1. SameSender(t) /\ InStep(t)
      BY <1>8, <2>1 DEF SameSender, Handled, MessagesInv
    <3>2. \A q \in Slot : InUse(q) /\ data_size[q] = 0 /\ At(q)[1] = t => SameSlot(q)
      BY <1>2, <1>5, <2>1
    <3> QED BY <3>1, <3>2, SenderKept
  <2> QED BY <1>10, <2>1
<1> QED BY <1>6, <1>7, <1>9, <1>11 DEF MessagesInv

LEMMA HandleStep ==
  ASSUME PACKETS \in Nat \ {0}, MessagesInv, NEW s \in Senders, Msg!Handle(s)
  PROVE  MessagesInv'
<1> DEFINE m == Head(request[s])
<1>1. Handled(s)
  BY DEF Msg!Handle, Msg!senderVars, Msg!readerVars, Msg!ringVars, Msg!endpoint_alloc, Handled, Left
<1>2. MessageTypes /\ InStep(s) /\ request[s] # <<>>
  BY <1>1 DEF MessagesInv, Handled
<1>3. \/ /\ m.type = "getep_req"
         /\ response' = [response EXCEPT ![s] = Append(@, [ep |-> created])]
         /\ UNCHANGED <<write_ptr, data, data_size, allocated>>
      \/ /\ m.type = "alloc_req" /\ Msg!endpoint_full
         /\ response' = [response EXCEPT ![s] = Append(@, Refused)]
         /\ UNCHANGED <<write_ptr, data, data_size, allocated>>
      \/ /\ m.type = "alloc_req" /\ ~Msg!endpoint_full
         /\ response' = [response EXCEPT ![s] = Append(@, Granted(write_ptr))]
         /\ write_ptr' = next_ptr(write_ptr)
         /\ data_size' = [data_size EXCEPT ![write_ptr] = 0]
         /\ allocated' = Append(allocated, m.msg)
         /\ UNCHANGED data
      \/ /\ m.type = "data"
         /\ data' = [data EXCEPT ![m.ptr][m.offset] = <<m.msg, m.offset>>]
         /\ UNCHANGED <<write_ptr, data_size, response, allocated>>
      \/ /\ m.type = "complete"
         /\ data_size' = [data_size EXCEPT ![m.ptr] = m.size]
         /\ UNCHANGED <<write_ptr, data, response, allocated>>
  BY DEF Msg!Handle, Msg!ringVars, Msg!endpoint_alloc, Msg!next_ptr, next_ptr, Refused, Granted
<1>4. \/ Resting(s) /\ pc[s] = "getep" /\ request[s] = <<EndpointRequest>>
      \/ Resting(s) /\ pc[s] = "alloc" /\ request[s] = <<AllocRequest(<<s, count[s]>>)>>
      \/ \E p \in Slot, h \in 0 .. PACKETS - 1 : Serving(s, p, h) /\ m = DataRequest(p, At(p), h)
      \/ \E p \in Slot : Serving(s, p, PACKETS) /\ m = CompleteRequest(p)
  BY <1>2, NextRequest
<1>5. CASE Resting(s) /\ pc[s] = "getep" /\ request[s] = <<EndpointRequest>>
  <2>1. m = EndpointRequest
    BY <1>5, Singles
  <2>2. m.type = "getep_req"
    BY <2>1 DEF EndpointRequest
  <2> HIDE DEF m
  <2>3. /\ response' = [response EXCEPT ![s] = Append(@, [ep |-> created])]
        /\ UNCHANGED <<write_ptr, data, data_size, allocated>>
    BY <1>3, <2>2
  <2> QED BY <1>1, <1>5, <2>3, HandleEndpoint
<1>6. CASE Resting(s) /\ pc[s] = "alloc" /\ request[s] = <<AllocRequest(<<s, count[s]>>)>>
  <2>1. m = AllocRequest(<<s, count[s]>>)
    BY <1>6, Singles
  <2>2. m.type = "alloc_req" /\ m.msg = <<s, count[s]>>
    BY <2>1 DEF AllocRequest
  <2> HIDE DEF m
  <2>3. CASE Msg!endpoint_full
    <3>1. /\ response' = [response EXCEPT ![s] = Append(@, Refused)]
          /\ UNCHANGED <<write_ptr, data, data_size, allocated>>
      BY <1>3, <2>2, <2>3
    <3> QED BY <1>1, <1>6, <3>1, HandleRefused
  <2>4. CASE ~Msg!endpoint_full
    <3>1. /\ response' = [response EXCEPT ![s] = Append(@, Granted(write_ptr))]
          /\ write_ptr' = next_ptr(write_ptr)
          /\ data_size' = [data_size EXCEPT ![write_ptr] = 0]
          /\ allocated' = Append(allocated, m.msg)
          /\ UNCHANGED data
      BY <1>3, <2>2, <2>4
    <3>2. allocated' = Append(allocated, <<s, count[s]>>)
      BY <2>2, <3>1
    <3> QED BY <1>1, <1>6, <2>4, <3>1, <3>2, HandleGranted
  <2> QED BY <2>3, <2>4
<1>7. ASSUME NEW p \in Slot, NEW h \in 0 .. PACKETS - 1, Serving(s, p, h), m = DataRequest(p, At(p), h)
      PROVE  MessagesInv'
  <2>1. m.type = "data" /\ m.ptr = p /\ m.offset = h /\ m.msg = At(p)
    BY <1>7 DEF DataRequest
  <2> HIDE DEF m
  <2>2. /\ data' = [data EXCEPT ![m.ptr][m.offset] = <<m.msg, m.offset>>]
        /\ UNCHANGED <<write_ptr, data_size, response, allocated>>
    BY <1>3, <2>1
  <2>3. data' = [data EXCEPT ![p][h] = <<At(p), h>>]
    BY <2>1, <2>2
  <2> QED BY <1>1, <1>7, <2>2, <2>3, HandleData
<1>8. ASSUME NEW p \in Slot, Serving(s, p, PACKETS), m = CompleteRequest(p)
      PROVE  MessagesInv'
  <2>1. m.type = "complete" /\ m.ptr = p /\ m.size = PACKETS
    BY <1>8 DEF CompleteRequest
  <2>2. Head(request[s]) = CompleteRequest(p)
    BY <1>8
  <2> HIDE DEF m
  <2>3. /\ data_size' = [data_size EXCEPT ![p] = PACKETS]
        /\ UNCHANGED <<write_ptr, data, response, allocated>>
    BY <1>3, <2>1
  <2> QED BY <1>1, <1>8, <2>2, <2>3, HandleComplete
<1> QED BY <1>4, <1>5, <1>6, <1>7, <1>8

LEMMA CreateStep ==
  ASSUME MessagesInv, Msg!EndpointCreate
  PROVE  MessagesInv'
<1>1. /\ created' = TRUE
      /\ UNCHANGED <<write_ptr, read_ptr, data, data_size, reader, copied, received, allocated,
                     pc, reply, offset, count, request, response>>
  BY DEF Msg!EndpointCreate, Msg!ringVars, Msg!senderVars, Msg!readerVars
<1>2. MessageTypes'
  BY <1>1 DEF MessagesInv, MessageTypes
<1>3. \A p \in Slot : SameSlot(p)
  BY <1>1 DEF SameSlot, InUse, At, Number, Taken, Dist
<1>4. \A t \in Senders : InStep(t)'
  BY <1>1, <1>3, SenderKept DEF SameSender, MessagesInv
<1>5. SlotsIntact'
  BY <1>1 DEF MessagesInv, SlotsIntact, InUse, At, Number, Taken, Dist
<1>6. CopyIntact'
  BY <1>1 DEF MessagesInv, CopyIntact, Taken, Dist, Msg!Whole
<1> QED BY <1>2, <1>4, <1>5, <1>6 DEF MessagesInv

(* The slot at the read pointer is freed, and copied afterwards.           *)
LEMMA RecvStep ==
  ASSUME PACKETS \in Nat \ {0}, MessagesInv, Msg!MsgRecv
  PROVE  MessagesInv'
<1>1. /\ reader = NONE /\ write_ptr # read_ptr /\ data_size[read_ptr] # 0
      /\ reader' = read_ptr /\ read_ptr' = next_ptr(read_ptr) /\ copied' = <<>>
      /\ UNCHANGED <<created, write_ptr, data, data_size, pc, reply, offset, count, request,
                     response, received, allocated>>
  BY DEF Msg!MsgRecv, Msg!endpoint_msg_available, Msg!next_ptr, next_ptr, Msg!senderVars
<1>2. MessageTypes /\ SlotsIntact /\ CopyIntact /\ read_ptr \in Slot /\ write_ptr \in Slot
  BY DEF MessagesInv, MessageTypes
<1>3. /\ SLOTS \in Nat /\ Taken \in Nat /\ Len(received) \in Nat /\ Taken = Len(received)
      /\ Taken + Dist(write_ptr) = Len(allocated)
      /\ \A p \in Slot : Dist(p) \in 0 .. SLOTS - 1
  BY <1>1, <1>2, RingNumbers DEF Taken
<1>4. Taken' = Taken + 1
  BY <1>1, <1>2, <1>3, MpChannelAssumption DEF Taken
<1>5. \A p \in Slot : Dist(p)' = IF p = read_ptr THEN SLOTS - 1 ELSE Dist(p) - 1
  BY <1>1, <1>2, Gaps DEF Dist
<1>6. read_ptr' \in Slot /\ Dist(read_ptr) = 0
  BY <1>1, <1>2, Gaps DEF Dist
<1>7. Dist(write_ptr)' = Dist(write_ptr) - 1
  BY <1>1, <1>2, Gaps DEF Dist
<1>8. Dist(write_ptr) \in 1 .. SLOTS - 1
  BY <1>1, <1>2, Gaps DEF Dist
<1>9. ASSUME NEW p \in Slot, p # read_ptr PROVE Number(p)' = Number(p) /\ InUse(p)' = InUse(p)
  <2>1. Dist(p)' = Dist(p) - 1 /\ Dist(p) \in Int /\ Dist(write_ptr) \in Int
    BY <1>3, <1>5, <1>8, <1>9
  <2>2. Number(p)' = Number(p)
    BY <1>3, <1>4, <2>1 DEF Number
  <2>3. InUse(p)' = InUse(p)
    BY <1>7, <2>1 DEF InUse
  <2> QED BY <2>2, <2>3
<1>11. \A p \in Slot : p # read_ptr => SameSlot(p)
  BY <1>1, <1>9 DEF SameSlot, At
<1>12. \A p \in Slot : InUse(p)' => p # read_ptr
  <2>1. ASSUME NEW p \in Slot, p = read_ptr PROVE ~InUse(p)'
    <3>1. Dist(p)' = SLOTS - 1
      BY <1>5, <2>1
    <3> QED BY <1>3, <1>7, <1>8, <3>1 DEF InUse
  <2> QED BY <2>1
<1>13. InUse(read_ptr) /\ At(read_ptr) = allocated[Taken + 1]
  BY <1>3, <1>6, <1>8 DEF InUse, At, Number
<1>14. SlotsIntact'
  <2>1. Len(allocated') = Taken' + Dist(write_ptr)'
    BY <1>1, <1>3, <1>4, <1>7, <1>8
  <2>2. ASSUME NEW p \in Slot, InUse(p)', data_size'[p] # 0
        PROVE  (\A k \in 0 .. PACKETS - 1 : data[p][k] = <<At(p), k>>)'
    <3>1. p # read_ptr
      BY <1>12, <2>2
    <3>2. InUse(p) /\ At(p)' = At(p) /\ data_size[p] # 0 /\ data'[p] = data[p]
      BY <1>11, <2>2, <3>1 DEF SameSlot
    <3> QED BY <1>2, <3>2 DEF SlotsIntact
  <2> QED BY <2>1, <2>2 DEF SlotsIntact
<1>15. CopyIntact'
  <2>1. Dist(reader)' = SLOTS - 1
    <3>1. \A p \in Slot : p = read_ptr => Dist(p)' = SLOTS - 1
      BY <1>5
    <3>2. PICK p \in Slot : p = read_ptr
      BY <1>2
    <3> QED BY <1>1, <3>1, <3>2 DEF Dist
  <2>2. \A k \in 0 .. PACKETS - 1 : data'[reader'][k] = <<allocated'[Taken'], k>>
    BY <1>1, <1>2, <1>4, <1>13 DEF SlotsIntact
  <2>3. Len(copied') = 0
    BY <1>1
  <2>4. \A k \in 1 .. Len(copied') : copied'[k] = <<allocated'[Taken'], k - 1>>
    BY <2>3
  <2>5. \A n \in 1 .. Len(received') : received'[n] = Msg!Whole(allocated'[n])
    BY <1>1, <1>2 DEF CopyIntact
  <2>6. reader' # NONE
    BY <1>1, <1>2, MpChannelAssumption
  <2> QED BY <2>1, <2>2, <2>3, <2>4, <2>5, <2>6 DEF CopyIntact, Msg!Whole
<1>16. MessageTypes'
  BY <1>1, <1>2, <1>6 DEF MessageTypes
<1>17. ASSUME NEW t \in Senders PROVE InStep(t)'
  <2>1. SameSender(t) /\ InStep(t)
    BY <1>1 DEF SameSender, MessagesInv
  <2>2. \A p \in Slot : InUse(p) /\ data_size[p] = 0 /\ At(p)[1] = t => SameSlot(p)
    BY <1>1, <1>11
  <2> QED BY <2>1, <2>2, SenderKept
<1> QED BY <1>14, <1>15, <1>16, <1>17 DEF MessagesInv

LEMMA CopyStep ==
  ASSUME PACKETS \in Nat \ {0}, MessagesInv, Msg!MsgCopy
  PROVE  MessagesInv'
<1> DEFINE c == Append(copied, data[reader][Len(copied)])
<1>1. /\ reader # NONE
      /\ IF Len(c) = PACKETS
         THEN received' = Append(received, c) /\ copied' = <<>> /\ reader' = NONE
         ELSE copied' = c /\ received' = received /\ reader' = reader
      /\ UNCHANGED <<created, write_ptr, read_ptr, data, data_size, pc, reply, offset, count,
                     request, response, allocated>>
  BY DEF Msg!MsgCopy, Msg!ringVars, Msg!senderVars
<1>2. /\ MessageTypes /\ SlotsIntact /\ CopyIntact /\ reader \in Slot
      /\ copied \in Seq(MEntry) /\ received \in Seq(Seq(MEntry))
      /\ data \in [Slot -> [0 .. PACKETS - 1 -> MEntry]]
  BY <1>1 DEF MessagesInv, MessageTypes
<1>3. Len(copied) \in Nat /\ Len(copied) < PACKETS /\ Len(copied) \in 0 .. PACKETS - 1
  BY <1>2 DEF CopyIntact
<1>4. /\ data[reader][Len(copied)] = <<allocated[Taken], Len(copied)>>
      /\ data[reader][Len(copied)] \in MEntry
  BY <1>1, <1>2, <1>3 DEF CopyIntact
<1>5. /\ c \in Seq(MEntry) /\ Len(c) = Len(copied) + 1
      /\ c[Len(copied) + 1] = data[reader][Len(copied)]
      /\ \A k \in 1 .. Len(copied) : c[k] = copied[k]
  BY <1>2, <1>4
<1> HIDE DEF c
<1>6. ASSUME NEW k \in 1 .. Len(c) PROVE c[k] = <<allocated[Taken], k - 1>>
  <2>1. CASE k = Len(copied) + 1
    BY <1>3, <1>4, <1>5, <2>1
  <2>2. CASE k # Len(copied) + 1
    <3>1. k \in 1 .. Len(copied)
      BY <1>3, <1>5, <2>2
    <3> QED BY <1>2, <1>5, <3>1 DEF CopyIntact
  <2> QED BY <2>1, <2>2
<1>7. Len(received) \in Nat /\ Taken = Len(received) + 1
  BY <1>1, <1>2 DEF Taken
<1>8. Taken' = Taken
  <2>1. CASE Len(c) = PACKETS
    <3>1. received' = Append(received, c) /\ reader' = NONE
      BY <1>1, <2>1
    <3>2. Len(received') = Len(received) + 1
      BY <1>2, <1>5, <3>1
    <3> QED BY <1>7, <3>1, <3>2 DEF Taken
  <2>2. CASE Len(c) # PACKETS
    BY <1>1, <2>2 DEF Taken
  <2> QED BY <2>1, <2>2
<1>9. /\ \A p \in Slot : /\ Dist(p)' = Dist(p) /\ Number(p)' = Number(p)
                         /\ At(p)' = At(p) /\ InUse(p)' = InUse(p)
      /\ Dist(write_ptr)' = Dist(write_ptr)
  BY <1>1, <1>8 DEF Dist, Number, At, InUse
<1>10. \A p \in Slot : SameSlot(p)
  BY <1>1, <1>9 DEF SameSlot
<1>11. SlotsIntact'
  BY <1>1, <1>2, <1>8, <1>9 DEF SlotsIntact
<1>12. MessageTypes' /\ CopyIntact'
  <2>1. CASE Len(c) = PACKETS
    <3>1. received' = Append(received, c) /\ copied' = <<>> /\ reader' = NONE
      BY <1>1, <2>1
    <3>2. /\ received' \in Seq(Seq(MEntry)) /\ Len(received') = Len(received) + 1
          /\ received'[Len(received) + 1] = c
          /\ \A n \in 1 .. Len(received) : received'[n] = received[n]
      BY <1>2, <1>5, <3>1
    <3>3. c = Msg!Whole(allocated[Taken])
      <4>1. DOMAIN c = 1 .. PACKETS /\ c = [k \in 1 .. PACKETS |-> c[k]]
        BY <1>5, <2>1
      <4> QED BY <1>6, <2>1, <4>1 DEF Msg!Whole
    <3>4. ASSUME NEW n \in 1 .. Len(received') PROVE received'[n] = Msg!Whole(allocated[n])
      <4>1. CASE n = Len(received) + 1
        BY <1>7, <3>2, <3>3, <4>1
      <4>2. CASE n # Len(received) + 1
        <5>1. n \in 1 .. Len(received)
          BY <1>7, <3>2, <4>2
        <5> QED BY <1>2, <3>2, <5>1 DEF CopyIntact
      <4> QED BY <4>1, <4>2
    <3>5. Len(copied') = 0 /\ copied' \in Seq(MEntry)
      BY <3>1
    <3>6. CopyIntact'
      <4>1. Len(copied') < PACKETS /\ \A k \in 1 .. Len(copied') : FALSE
        BY <3>5
      <4>2. \A n \in 1 .. Len(received') : received'[n] = Msg!Whole(allocated'[n])
        BY <1>1, <3>4
      <4> QED BY <3>1, <4>1, <4>2 DEF CopyIntact, Msg!Whole
    <3>7. MessageTypes'
      BY <1>1, <1>2, <3>1, <3>2, <3>5 DEF MessageTypes
    <3> QED BY <3>6, <3>7
  <2>2. CASE Len(c) # PACKETS
    <3>1. copied' = c /\ received' = received /\ reader' = reader
      BY <1>1, <2>2
    <3>2. Len(c) < PACKETS
      BY <1>3, <1>5, <2>2
    <3>3. Dist(reader)' = Dist(reader)
      BY <1>1, <3>1 DEF Dist
    <3>4. CopyIntact'
      BY <1>1, <1>2, <1>6, <1>8, <3>1, <3>2, <3>3 DEF CopyIntact, Msg!Whole
    <3>5. MessageTypes'
      BY <1>1, <1>2, <1>5, <3>1 DEF MessageTypes
    <3> QED BY <3>4, <3>5
  <2> QED BY <2>1, <2>2
<1>13. \A t \in Senders : InStep(t)'
  BY <1>1, <1>10, SenderKept DEF SameSender, MessagesInv
<1> QED BY <1>11, <1>12, <1>13 DEF MessagesInv

-----------------------------------------------------------------------------
LEMMA MessagesInit ==
  ASSUME PACKETS \in Nat \ {0}, Msg!Init
  PROVE  MessagesInv
<1>1. /\ created = FALSE /\ write_ptr = 0 /\ read_ptr = 0
      /\ data = [p \in Slot |-> [k \in 0 .. PACKETS - 1 |-> NONE]]
      /\ data_size \in [Slot -> {0, PACKETS}]
      /\ pc = [s \in Senders |-> "start"] /\ reply = [s \in Senders |-> NONE]
      /\ offset = [s \in Senders |-> 0] /\ count = [s \in Senders |-> 0]
      /\ request = [s \in Senders |-> <<>>] /\ response = [s \in Senders |-> <<>>]
      /\ reader = NONE /\ copied = <<>> /\ allocated = <<>> /\ received = <<>>
  BY DEF Msg!Init, Msg!Slot, Msg!Packet, Slot
<1>2. 0 \in Slot
  BY MpChannelAssumption DEF Slot
<1>3. Taken = 0 /\ Dist(write_ptr) = 0 /\ Dist(read_ptr) = 0 /\ \A p \in Slot : Dist(p) >= 0
  <2>1. \A p \in Slot : Dist(p) \in 0 .. SLOTS - 1
    BY <1>1, <1>2, Gaps DEF Dist
  <2>2. \A p \in Slot : Dist(p) >= 0
    BY <2>1
  <2>3. Dist(write_ptr) = 0 /\ Dist(read_ptr) = 0
    BY <1>1 DEF Dist, Gap
  <2> QED BY <1>1, <2>2, <2>3 DEF Taken
<1>4. MessageTypes
  <2>1. data \in [Slot -> [0 .. PACKETS - 1 -> MEntry]] /\ data_size \in [Slot -> Nat]
    BY <1>1 DEF MEntry
  <2>2. PerSender(pc) /\ PerSender(reply) /\ PerSender(request) /\ PerSender(response)
    BY <1>1 DEF PerSender
  <2>3. count \in [Senders -> Nat] /\ offset \in [Senders -> Nat]
    BY <1>1
  <2> QED BY <1>1, <1>2, <2>1, <2>2, <2>3 DEF MessageTypes
<1>5. \A s \in Senders : InStep(s)
  BY <1>1 DEF InStep, Resting
<1>6. SlotsIntact
  <2>1. \A p \in Slot : ~InUse(p)
    <3>1. ASSUME NEW p \in Slot PROVE ~InUse(p)
      <4>1. Dist(p) \in 0 .. SLOTS - 1
        BY <1>1, <1>2, Gaps DEF Dist
      <4> QED BY <1>3, <4>1 DEF InUse
    <3> QED BY <3>1
  <2>2. Len(allocated) = 0
    BY <1>1
  <2> QED BY <1>3, <2>1, <2>2 DEF SlotsIntact
<1>7. CopyIntact
  BY <1>1 DEF CopyIntact
<1> QED BY <1>4, <1>5, <1>6, <1>7 DEF MessagesInv

LEMMA MessagesStep ==
  ASSUME PACKETS \in Nat \ {0}, MessagesInv, [Msg!Next]_(Msg!vars)
  PROVE  MessagesInv'
<1>1. CASE UNCHANGED Msg!vars
  <2>1. RingSame /\ UNCHANGED <<pc, reply, offset, count, request, response>>
    BY <1>1 DEF Msg!vars, RingSame
  <2>2. MessageTypes'
    BY <2>1 DEF MessagesInv, MessageTypes, RingSame
  <2>3. SlotsIntact' /\ CopyIntact' /\ \A p \in Slot : SameSlot(p)
    BY <2>1, RingKept DEF MessagesInv
  <2>4. \A t \in Senders : InStep(t)'
    BY <2>1, <2>3, SenderKept DEF SameSender, MessagesInv
  <2> QED BY <2>2, <2>3, <2>4 DEF MessagesInv
<1>2. CASE Msg!EndpointCreate
  BY <1>2, CreateStep
<1>3. CASE Msg!MsgRecv
  BY <1>3, RecvStep
<1>4. CASE Msg!MsgCopy
  BY <1>4, CopyStep
<1>5. ASSUME NEW s \in Senders, Msg!SenderStep(s) PROVE MessagesInv'
  BY <1>5, GetEndpointStep, GotEndpointStep, MsgAllocStep, GotSlotStep, MsgDataStep, MsgCompleteStep
     DEF Msg!SenderStep
<1>6. ASSUME NEW s \in Senders, Msg!Handle(s) PROVE MessagesInv'
  BY <1>6, HandleStep
<1>7. ASSUME NEW s \in Senders, Msg!HandleReply(s) PROVE MessagesInv'
  BY <1>7, HandleReplyStep
<1> QED BY <1>1, <1>2, <1>3, <1>4, <1>5, <1>6, <1>7 DEF Msg!Next

LEMMA MessagesAgree ==
  ASSUME MessagesInv
  PROVE  Msg!MessagesIntact
<1>1. MessageTypes /\ SlotsIntact /\ CopyIntact /\ write_ptr \in Slot
  BY DEF MessagesInv, MessageTypes
<1>2. Len(received) <= Len(allocated)
  <2>1. PICK e \in Nat : e = Dist(write_ptr)
    BY <1>1, RingNumbers
  <2> QED BY <1>1, <2>1, RingNumbers
<1>3. DOMAIN received = 1 .. Len(received)
  BY DEF MessagesInv, MessageTypes
<1> QED BY <1>1, <1>2, <1>3 DEF CopyIntact, Msg!MessagesIntact

(* Messages of any number of senders are received whole, each once and in  *)
(* the order in which their slots were granted: while a sender fills its   *)
(* slot nobody else is granted it, its request that completes the message  *)
(* is handled after its packets, and the slot that is being copied is the  *)
(* one that endpoint_alloc leaves free.                                    *)
THEOREM MessagesDelivered ==
  ASSUME PACKETS \in Nat \ {0}
  PROVE  Msg!Spec => []Msg!MessagesIntact
<1>1. Msg!Init => MessagesInv
  BY MessagesInit
<1>2. MessagesInv /\ [Msg!Next]_(Msg!vars) => MessagesInv'
  BY MessagesStep
<1>3. MessagesInv => Msg!MessagesIntact
  BY MessagesAgree
<1> QED BY <1>1, <1>2, <1>3, PTL DEF Msg!Spec
=============================================================================
