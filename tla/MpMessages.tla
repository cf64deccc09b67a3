----------------------------- MODULE MpMessages -----------------------------
(***************************************************************************)
(* Connection-less messages of libmp (mp.c, control.c, endpoints.c):       *)
(* several tiles send to one endpoint.  A sender asks for the endpoint,    *)
(* then for a slot of its ring buffer, writes the message packet by packet *)
(* into that slot and completes it.  The control handler of the receiving  *)
(* tile runs in the message interrupt, between any two steps of the thread *)
(* that receives.  Requests and replies take different networks; each      *)
(* keeps the order of the packets from one tile to another (NocMesh).      *)
(***************************************************************************)
EXTENDS Integers, Sequences, FiniteSets

CONSTANTS
  Senders,   \* sending tiles
  SLOTS,     \* buffer_size of the endpoint
  PACKETS,   \* packets of data per message
  MESSAGES,  \* bound: messages each tile sends
  NONE

VARIABLES
  created,    \* the endpoint is in the list of the receiving tile
  write_ptr, read_ptr,
  data,       \* per slot: the packet stored at each offset
  data_size,  \* per slot: 0 until the message is complete
  pc,         \* per sender: where it is in endpoint_get or msg_send
  reply,      \* per sender: ctrl_request, the reply to the last request
  offset,     \* per sender: next packet of the message
  count,      \* per sender: messages sent
  request,    \* per sender: requests on the way to the receiver
  response,   \* per sender: replies on the way back
  reader,     \* the receiving thread: slot being copied, or NONE
  copied,     \* packets copied so far
  allocated,  \* history: messages in the order of their slots
  received    \* history: messages the thread has received

vars == <<created, write_ptr, read_ptr, data, data_size, pc, reply, offset, count,
          request, response, reader, copied, allocated, received>>
ringVars == <<write_ptr, read_ptr, data, data_size>>
senderVars == <<pc, reply, offset, count>>
readerVars == <<reader, copied, received>>

Slot == 0 .. SLOTS - 1

Packet == 0 .. PACKETS - 1

Init ==
  /\ created = FALSE
  /\ write_ptr = 0 /\ read_ptr = 0
  /\ data = [p \in Slot |-> [i \in Packet |-> NONE]]
  /\ data_size \in [Slot -> {0, PACKETS}]  \* malloc does not clear it
  /\ pc = [s \in Senders |-> "start"]
  /\ reply = [s \in Senders |-> NONE]
  /\ offset = [s \in Senders |-> 0]
  /\ count = [s \in Senders |-> 0]
  /\ request = [s \in Senders |-> <<>>]
  /\ response = [s \in Senders |-> <<>>]
  /\ reader = NONE /\ copied = <<>>
  /\ allocated = <<>> /\ received = <<>>

next_ptr(p) == (p + 1) % SLOTS

(* All slots are used.                                                     *)
endpoint_full_All ==
  IF write_ptr >= read_ptr THEN write_ptr - read_ptr = SLOTS
                           ELSE read_ptr - write_ptr = 0

(* One slot stays free.                                                    *)
endpoint_full ==
  IF write_ptr >= read_ptr THEN write_ptr - read_ptr = SLOTS - 1
                           ELSE read_ptr - write_ptr = 1

endpoint_msg_available == write_ptr # read_ptr /\ data_size[read_ptr] # 0

Send(s, m) == request' = [request EXCEPT ![s] = Append(@, m)]

(* The message that s is sending.                                          *)
Msg(s) == <<s, count[s]>>

(* A request is sent and its reply awaited; reply = NONE is done = 0.      *)
Ask(s, m, next) ==
  /\ Send(s, m)
  /\ reply' = [reply EXCEPT ![s] = NONE]
  /\ pc' = [pc EXCEPT ![s] = next]

(* optimsoc_mp_endpoint_create on the receiving tile.                      *)
EndpointCreate ==
  /\ ~created
  /\ created' = TRUE
  /\ UNCHANGED <<ringVars, senderVars, request, response, readerVars, allocated>>

(* control_get_endpoint asks for the endpoint ...                          *)
GetEndpoint(s) ==
  /\ pc[s] = "start"
  /\ Ask(s, [type |-> "getep_req"], "getep")
  /\ UNCHANGED <<created, ringVars, offset, count, response, readerVars, allocated>>

(* ... and asks again while the reply is -1, after a delay.                *)
GotEndpoint(s) ==
  /\ pc[s] = "getep" /\ reply[s] # NONE
  /\ pc' = [pc EXCEPT ![s] = IF reply[s].ep THEN "idle" ELSE "start"]
  /\ UNCHANGED <<created, ringVars, reply, offset, count, request, response, readerVars, allocated>>

(* control_msg_alloc asks for a slot ...                                   *)
MsgAlloc(s) ==
  /\ pc[s] = "idle"
  /\ count[s] < MESSAGES
  /\ Ask(s, [type |-> "alloc_req", msg |-> Msg(s)], "alloc")
  /\ UNCHANGED <<created, ringVars, offset, count, response, readerVars, allocated>>

(* ... and asks again after a NACK.                                        *)
GotSlot(s) ==
  /\ pc[s] = "alloc" /\ reply[s] # NONE
  /\ pc' = [pc EXCEPT ![s] = IF reply[s].ack THEN "data" ELSE "idle"]
  /\ UNCHANGED <<created, ringVars, reply, offset, count, request, response, readerVars, allocated>>

(* control_msg_data: one packet of the message, ...                        *)
MsgData(s) ==
  /\ pc[s] = "data" /\ offset[s] < PACKETS
  /\ Send(s, [type |-> "data", ptr |-> reply[s].ptr, offset |-> offset[s], msg |-> Msg(s)])
  /\ offset' = [offset EXCEPT ![s] = @ + 1]
  /\ UNCHANGED <<created, ringVars, pc, reply, count, response, readerVars, allocated>>

(* ... and at the end its completion.                                      *)
MsgComplete(s) ==
  /\ pc[s] = "data" /\ offset[s] = PACKETS
  /\ Send(s, [type |-> "complete", ptr |-> reply[s].ptr, size |-> PACKETS])
  /\ offset' = [offset EXCEPT ![s] = 0]
  /\ count' = [count EXCEPT ![s] = @ + 1]
  /\ pc' = [pc EXCEPT ![s] = "idle"]
  /\ UNCHANGED <<created, ringVars, reply, response, readerVars, allocated>>

(* endpoint_alloc of a slot for message m.                                 *)
endpoint_alloc(m) ==
  /\ write_ptr' = next_ptr(write_ptr)
  /\ data_size' = [data_size EXCEPT ![write_ptr] = 0]
  /\ allocated' = Append(allocated, m)

(* control_msg_handler of the receiving tile, for the next request of s.   *)
Handle(s) ==
  LET m == Head(request[s])
      Answer(r) == response' = [response EXCEPT ![s] = Append(@, r)]
  IN  /\ request[s] # <<>>
      /\ request' = [request EXCEPT ![s] = Tail(@)]
      /\ \/ /\ m.type = "getep_req"
            /\ Answer([ep |-> created])
            /\ UNCHANGED <<ringVars, allocated>>
         \/ /\ m.type = "alloc_req" /\ endpoint_full
            /\ Answer([ack |-> FALSE])
            /\ UNCHANGED <<ringVars, allocated>>
         \/ /\ m.type = "alloc_req" /\ ~endpoint_full
            /\ endpoint_alloc(m.msg)
            /\ Answer([ack |-> TRUE, ptr |-> write_ptr])
            /\ UNCHANGED <<read_ptr, data>>
         \/ /\ m.type = "data"
            /\ data' = [data EXCEPT ![m.ptr][m.offset] = <<m.msg, m.offset>>]
            /\ UNCHANGED <<write_ptr, read_ptr, data_size, response, allocated>>
         \/ /\ m.type = "complete"
            /\ data_size' = [data_size EXCEPT ![m.ptr] = m.size]
            /\ UNCHANGED <<write_ptr, read_ptr, data, response, allocated>>
      /\ UNCHANGED <<created, senderVars, readerVars>>

(* The handler of the sending tile forwards a reply.                       *)
HandleReply(s) ==
  /\ response[s] # <<>>
  /\ reply' = [reply EXCEPT ![s] = Head(response[s])]
  /\ response' = [response EXCEPT ![s] = Tail(@)]
  /\ UNCHANGED <<created, ringVars, pc, offset, count, request, readerVars, allocated>>

(* optimsoc_mp_msg_recv waits for a message and frees its slot ...         *)
MsgRecv ==
  /\ created
  /\ reader = NONE
  /\ endpoint_msg_available
  /\ reader' = read_ptr
  /\ read_ptr' = next_ptr(read_ptr)
  /\ copied' = <<>>
  /\ UNCHANGED <<created, write_ptr, data, data_size, senderVars, request, response, received, allocated>>

(* ... before it copies the message, word by word.                         *)
MsgCopy ==
  /\ reader # NONE
  /\ LET c == Append(copied, data[reader][Len(copied)])
     IN  IF Len(c) = PACKETS
         THEN received' = Append(received, c) /\ copied' = <<>> /\ reader' = NONE
         ELSE copied' = c /\ UNCHANGED <<received, reader>>
  /\ UNCHANGED <<created, ringVars, senderVars, request, response, allocated>>

SenderStep(s) ==
  GetEndpoint(s) \/ GotEndpoint(s) \/ MsgAlloc(s) \/ GotSlot(s) \/ MsgData(s) \/ MsgComplete(s)

Next ==
  \/ EndpointCreate \/ MsgRecv \/ MsgCopy
  \/ \E s \in Senders : SenderStep(s) \/ Handle(s) \/ HandleReply(s)

(* Programs run on, and packets that have arrived cause an interrupt.      *)
Fairness ==
  /\ WF_vars(EndpointCreate) /\ WF_vars(MsgRecv) /\ WF_vars(MsgCopy)
  /\ \A s \in Senders : WF_vars(SenderStep(s)) /\ WF_vars(Handle(s)) /\ WF_vars(HandleReply(s))

Spec == Init /\ [][Next]_vars /\ Fairness

-----------------------------------------------------------------------------
Whole(m) == [i \in 1 .. PACKETS |-> <<m, i - 1>>]

(* Messages are received whole, each once and in the order in which their  *)
(* slots were granted, although the senders write concurrently, complete   *)
(* in any order, and the slot is freed before it is copied.                *)
MessagesIntact ==
  /\ Len(received) <= Len(allocated)
  /\ \A n \in DOMAIN received : received[n] = Whole(allocated[n])

(* What is reached in the end, through all retries.                        *)
EveryMessageReceived == Len(received) = MESSAGES * Cardinality(Senders)
=============================================================================
