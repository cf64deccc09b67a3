------------------------------ MODULE MpChannel ------------------------------
(***************************************************************************)
(* Channels of libmp (mp.c, control.c, endpoints.c): one endpoint sends to *)
(* another on a different tile under a credit.  A message is written       *)
(* packet by packet into the slot at the write pointer of the receiver,    *)
(* which advances with the last packet; nothing but the credit keeps the   *)
(* sender from overrunning the ring.  On both tiles the control handler    *)
(* runs in the message interrupt, between any two steps of the thread.     *)
(***************************************************************************)
EXTENDS Integers, Sequences

CONSTANTS
  SLOTS,     \* buffer_size of the receiving endpoint
  SIZE,      \* bytes of a message
  WPP,       \* wordsperpacket
  MESSAGES,  \* bound: messages sent
  NONE

VARIABLES
  write_ptr, read_ptr, data, data_size,  \* ring of the receiver
  sender,        \* the sending thread: where it is in connect or send
  i,             \* first word of the next packet, in control_channel_send
  old,           \* credit loaded by channel_send_i to be decremented
  remotecredit,
  sent,          \* messages sent, numbered from 1
  request,       \* packets on the way to the receiver
  response,      \* credits and the connection's reply on the way back
  reader,        \* the receiving thread: slot being copied, or NONE
  copied,        \* packets copied so far
  received       \* history: what the thread received, with its size

channelvars == <<write_ptr, read_ptr, data, data_size, sender, i, old, remotecredit, sent,
                 request, response, reader, copied, received>>
ringVars == <<write_ptr, read_ptr, data, data_size>>
readerVars == <<reader, copied, received>>

Slot == 0 .. SLOTS - 1

words == (SIZE + 3) \div 4

Packets == 0 .. (words - 1) \div WPP

(* The sender subtracts i * wordsperpacket from the size in bytes, which   *)
(* is right for packets of four words (maxpacketsize is 8) and in the only *)
(* packet of a message.                                                    *)
ASSUME MpChannelAssumption ==
  /\ SLOTS \in Nat \ {0} /\ SIZE \in Nat \ {0} /\ WPP \in Nat \ {0}
  /\ WPP = 4 \/ words <= WPP
  /\ NONE \notin Slot

ChannelInit ==
  /\ write_ptr = 0 /\ read_ptr = 0
  /\ data = [p \in Slot |-> [k \in Packets |-> NONE]]
  /\ data_size = [p \in Slot |-> 0]
  /\ sender = "start" /\ i = 0 /\ old = 0
  /\ remotecredit = 0
  /\ sent = 0
  /\ request = <<>> /\ response = <<>>
  /\ reader = NONE /\ copied = <<>> /\ received = <<>>

next_ptr(p) == (p + 1) % SLOTS

(* As many slots as are free; one always stays empty.                      *)
endpoint_channel_get_credit ==
  IF write_ptr >= read_ptr THEN SLOTS - 1 - write_ptr + read_ptr
                           ELSE read_ptr - 1 - write_ptr

(* optimsoc_mp_channel_connect, called by the sender.                      *)
Connect ==
  /\ sender = "start"
  /\ request' = Append(request, [type |-> "connect"])
  /\ sender' = "connect"
  /\ UNCHANGED <<ringVars, i, old, remotecredit, sent, response, readerVars>>

(* optimsoc_mp_channel_send waits for credit and takes one.                *)
Send ==
  /\ sender = "idle" /\ sent < MESSAGES
  /\ remotecredit > 0
  /\ remotecredit' = remotecredit - 1
  /\ sent' = sent + 1
  /\ sender' = "send"
  /\ UNCHANGED <<ringVars, i, old, request, response, readerVars>>

(* optimsoc_mp_channel_send_i returns -1 without credit; otherwise it      *)
(* sends first and takes the credit afterwards, by a load and a store.     *)
SendI ==
  /\ sender = "idle" /\ sent < MESSAGES
  /\ remotecredit > 0
  /\ sent' = sent + 1
  /\ sender' = "send_i"
  /\ UNCHANGED <<ringVars, i, old, remotecredit, request, response, readerVars>>

(* control_channel_send, one packet.  The last packet carries the size     *)
(* that is left, from which the receiver computes the size of the message. *)
SendPacket ==
  /\ sender \in {"send", "send_i"}
  /\ LET last == i + WPP >= words
     IN  /\ request' = Append(request,
              [type |-> "data", offset |-> i, msg |-> sent,
               eom |-> IF last THEN SIZE - i * WPP ELSE 0])
         /\ i' = IF last THEN 0 ELSE i + WPP
         /\ sender' = IF ~last THEN sender ELSE IF sender = "send" THEN "idle" ELSE "load"
  /\ UNCHANGED <<ringVars, old, remotecredit, sent, response, readerVars>>

LoadCredit ==
  /\ sender = "load"
  /\ old' = remotecredit /\ sender' = "store"
  /\ UNCHANGED <<ringVars, i, remotecredit, sent, request, response, readerVars>>

(* Mutation: the credit loaded is stored as it was.                        *)
StoreCredit_Same ==
  /\ sender = "store"
  /\ remotecredit' = old /\ old' = 0 /\ sender' = "idle"
  /\ UNCHANGED <<ringVars, i, sent, request, response, readerVars>>

StoreCredit ==
  /\ sender = "store"
  /\ remotecredit' = old - 1 /\ old' = 0 /\ sender' = "idle"
  /\ UNCHANGED <<ringVars, i, sent, request, response, readerVars>>

(* control_msg_handler of the receiver.                                    *)
Handle ==
  LET m == Head(request)
  IN  /\ request # <<>>
      /\ request' = Tail(request)
      /\ \/ /\ m.type = "connect"
            /\ response' = Append(response, [type |-> "connect", credit |-> endpoint_channel_get_credit])
            /\ UNCHANGED ringVars
         \/ /\ m.type = "data"
            /\ data' = [data EXCEPT ![write_ptr][m.offset \div WPP] = <<m.msg, m.offset>>]
            /\ IF m.eom # 0
               THEN /\ data_size' = [data_size EXCEPT ![write_ptr] = m.offset * 4 + m.eom]
                    /\ write_ptr' = next_ptr(write_ptr)
               ELSE UNCHANGED <<data_size, write_ptr>>
            /\ UNCHANGED <<read_ptr, response>>
      /\ UNCHANGED <<sender, i, old, remotecredit, sent, readerVars>>

(* control_msg_handler of the sender: new credit, or the initial one.      *)
HandleCredit ==
  /\ response # <<>>
  /\ response' = Tail(response)
  /\ remotecredit' = remotecredit + Head(response).credit
  /\ sender' = IF Head(response).type = "connect" THEN "idle" ELSE sender
  /\ UNCHANGED <<ringVars, i, old, sent, request, readerVars>>

(* optimsoc_mp_channel_recv frees the slot ...                             *)
Recv ==
  /\ reader = NONE
  /\ write_ptr # read_ptr /\ data_size[read_ptr] # 0
  /\ reader' = read_ptr
  /\ read_ptr' = next_ptr(read_ptr)
  /\ UNCHANGED <<write_ptr, data, data_size, sender, i, old, remotecredit, sent, request, response,
                 copied, received>>

(* ... copies the message ...                                              *)
Copy ==
  /\ reader # NONE /\ Len(copied) \in Packets
  /\ copied' = Append(copied, data[reader][Len(copied)])
  /\ UNCHANGED <<ringVars, sender, i, old, remotecredit, sent, request, response, reader, received>>

(* ... and returns the credit.                                             *)
ReturnCredit ==
  /\ reader # NONE /\ Len(copied) \notin Packets
  /\ received' = Append(received, [packets |-> copied, size |-> data_size[reader]])
  /\ response' = Append(response, [type |-> "credit", credit |-> 1])
  /\ reader' = NONE /\ copied' = <<>>
  /\ UNCHANGED <<ringVars, sender, i, old, remotecredit, sent, request>>

ChannelNext ==
  \/ Connect \/ Send \/ SendI \/ SendPacket \/ LoadCredit \/ StoreCredit
  \/ Handle \/ HandleCredit \/ Recv \/ Copy \/ ReturnCredit

(* Programs run on, and packets that have arrived cause an interrupt; the  *)
(* sender need not send.  With a bounded number of messages it is enough   *)
(* that some of these steps is taken while one can be.                     *)
Progress == SendPacket \/ Handle \/ HandleCredit \/ Recv \/ Copy \/ ReturnCredit

ChannelFairness == WF_channelvars(Progress)

ChannelSpec == ChannelInit /\ [][ChannelNext]_channelvars /\ ChannelFairness

-----------------------------------------------------------------------------
Whole(n) ==
  [packets |-> [k \in 1 .. (words - 1) \div WPP + 1 |-> <<n, (k - 1) * WPP>>], size |-> SIZE]

(* A packet that arrives finds room: the slot it is written to is neither  *)
(* in use nor being copied, nor would the ring become full by it.          *)
SlotIsFree ==
  request # <<>> /\ Head(request).type = "data" =>
    write_ptr # reader /\ next_ptr(write_ptr) \notin {read_ptr, reader}

(* The channel delivers the messages sent, whole, in order and with their  *)
(* size; the credit keeps the sender off the slots in use and off the one  *)
(* that is being copied, although a race between send_i and the handler    *)
(* may lose credit.  (control_channel_send, control_msg_handler,           *)
(* optimsoc_mp_channel_recv)                                               *)
ChannelIntact ==
  /\ Len(received) <= sent
  /\ \A n \in DOMAIN received : received[n] = Whole(n)
  /\ SlotIsFree

(* What is reached in the end: every message sent has been received.       *)
ChannelDrained == Len(received) = sent
=============================================================================
