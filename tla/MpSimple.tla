------------------------------ MODULE MpSimple ------------------------------
(***************************************************************************)
(* The driver of the message passing hardware (libbaremetal/mp_simple.c)   *)
(* as libmp uses it (control_init, control_get_endpoint,                   *)
(* control_msg_handler): on each of two tiles the program sets the driver  *)
(* up, polls until the other tile is ready and sends requests on endpoint  *)
(* 0, one at a time; the interrupt handler empties the endpoints and       *)
(* replies on endpoint 1.  An endpoint is written word by word: first the  *)
(* size of a packet, then its flits.                                       *)
(***************************************************************************)
EXTENDS Integers, Sequences

LOCAL INSTANCE FiniteSets
LOCAL INSTANCE SequencesExt

CONSTANTS
  MaxRequests,  \* requests of each tile
  Outstanding   \* probes a tile has under way at most: polling is slower than a round trip

Tiles == {0, 1}
Other(t) == 1 - t
num_endpoints == 2
Endpoints == 0 .. num_endpoints - 1
maxpacketsize == 2  \* 32 in the code
None == [class |-> "none"]

VARIABLES
  pc,       \* per tile: "init", "handler", "enable", "poll", "probe", "send", "wait" or "done"
  irq,      \* per tile: the interrupt handler runs
  ep,       \* per tile: endpoint the handler looks at
  empty,    \* per tile: endpoints found empty in this round
  handlers, \* cls_handlers, per tile: classes with a handler
  enabled,  \* per tile: endpoints enabled
  ready,    \* _domains_ready, per tile: endpoints of the other one known to be ready
  buffer,   \* _buffer, per tile: the header in it
  writing,  \* per tile and endpoint: [left, words] of the packet being written
  link,     \* per tile and endpoint: packets on their way to it
  inq,      \* per tile and endpoint: packets in its ingress buffer
  requests, \* per tile: requests sent
  handled,  \* per tile: requests the handler has got
  replies   \* per tile: replies it has got

program == <<pc, requests>>
handler == <<irq, ep, empty, ready, buffer, handled, replies>>
hardware == <<writing, link, inq>>
vars == <<program, handler, handlers, enabled, hardware>>

NoPacket == [left |-> 0, words |-> <<>>]

Init ==
  /\ pc = [t \in Tiles |-> "init"]
  /\ irq = [t \in Tiles |-> FALSE] /\ ep = [t \in Tiles |-> 0] /\ empty = [t \in Tiles |-> 0]
  /\ handlers = [t \in Tiles |-> {}] /\ enabled = [t \in Tiles |-> {}] /\ ready = [t \in Tiles |-> {}]
  /\ buffer = [t \in Tiles |-> None]
  /\ writing = [t \in Tiles |-> [e \in Endpoints |-> NoPacket]]
  /\ link = [t \in Tiles |-> [e \in Endpoints |-> <<>>]]
  /\ inq = [t \in Tiles |-> [e \in Endpoints |-> <<>>]]
  /\ requests = [t \in Tiles |-> 0] /\ handled = [t \in Tiles |-> <<>>] /\ replies = [t \in Tiles |-> <<>>]

(* Words: sizes, headers of probes, requests and replies, and payload.     *)
Size(n) == [class |-> "size", n |-> n]
Control(e, answer, up) == [class |-> "control", answer |-> answer, ready |-> up, endpoint |-> e]
Request(n) == [class |-> "mp", request |-> TRUE, n |-> n]
Reply(n) == [class |-> "mp", request |-> FALSE, n |-> n]
Payload == [class |-> "payload"]

-----------------------------------------------------------------------------
(* The hardware (external, modelled in MpBufferEndpoint).                  *)

(* A word written while no packet is open is the size of the next one;     *)
(* the packet leaves with its last flit.                                   *)
AfterWord(state, word) ==
  LET words == Append(state.words, word) IN
  CASE state.left = 0 -> [state EXCEPT !.left = IF word.class = "size" THEN word.n ELSE 1]
    [] state.left = 1 -> [left |-> 0, words |-> <<>>, packets |-> Append(state.packets, words)]
    [] OTHER -> [state EXCEPT !.left = @ - 1, !.words = words]

Write(t, e, words) ==
  LET old == [left |-> writing[t][e].left, words |-> writing[t][e].words, packets |-> <<>>]
      new == FoldLeft(AfterWord, old, words)
  IN  /\ writing' = [writing EXCEPT ![t][e] = [left |-> new.left, words |-> new.words]]
      /\ link' = [link EXCEPT ![Other(t)][e] = @ \o new.packets]

(* A probe is answered with the state of the endpoint; everything else     *)
(* goes to the ingress buffer.                                             *)
Arrive(t, e) ==
  /\ link[t][e] # <<>>
  /\ LET p == Head(link[t][e])
         rest == [link EXCEPT ![t][e] = Tail(@)]
         probe == p[1].class = "control" /\ ~p[1].answer
     IN  IF probe
         THEN /\ link' = [rest EXCEPT ![Other(t)][e] = Append(@, <<Control(p[1].endpoint, TRUE, e \in enabled[t])>>)]
              /\ UNCHANGED inq
         ELSE /\ link' = rest
              /\ inq' = [inq EXCEPT ![t][e] = Append(@, p)]
  /\ UNCHANGED <<program, handler, handlers, enabled, writing>>

-----------------------------------------------------------------------------
(* The program; it is interrupted between any two of these steps.          *)

(* optimsoc_mp_simple_init: the interrupt is enabled, no class has a       *)
(* handler.                                                                *)
MpSimpleInit(t) ==
  /\ pc[t] = "init"
  /\ pc' = [pc EXCEPT ![t] = "handler"]
  /\ UNCHANGED <<requests, handler, handlers, enabled, hardware>>

(* optimsoc_mp_simple_addhandler.                                          *)
AddHandler(t) ==
  /\ pc[t] = "handler" /\ ~irq[t]
  /\ handlers' = [handlers EXCEPT ![t] = @ \cup {"mp"}]
  /\ pc' = [pc EXCEPT ![t] = "enable"]
  /\ UNCHANGED <<requests, handler, enabled, hardware>>

(* optimsoc_mp_simple_enable, of one endpoint after the other.             *)
Enable(t) ==
  /\ pc[t] = "enable" /\ ~irq[t]
  /\ LET e == Cardinality(enabled[t]) IN
       /\ enabled' = [enabled EXCEPT ![t] = @ \cup {e}]
       /\ pc' = [pc EXCEPT ![t] = IF e = num_endpoints - 1 THEN "poll" ELSE "enable"]
  /\ UNCHANGED <<requests, handler, handlers, hardware>>

(* Probes and answers of a tile on their way.                              *)
UnderWay(t) ==
  Len(SelectSeq(link[Other(t)][0], LAMBDA p : p[1].class = "control" /\ ~p[1].answer))
    + Len(SelectSeq(link[t][0] \o inq[t][0], LAMBDA p : p[1].class = "control" /\ p[1].answer))

(* optimsoc_mp_simple_ctready: known, or a probe is sent, in two writes    *)
(* that are not protected.                                                 *)
CtReady(t) ==
  /\ pc[t] = "poll" /\ ~irq[t]
  /\ \/ /\ 0 \in ready[t]
        /\ pc' = [pc EXCEPT ![t] = "send"]
        /\ UNCHANGED <<writing, link>>
     \/ /\ 0 \notin ready[t] /\ UnderWay(t) < Outstanding
        /\ Write(t, 0, <<Size(1)>>)
        /\ pc' = [pc EXCEPT ![t] = "probe"]
  /\ UNCHANGED <<requests, handler, handlers, enabled, inq>>

SendProbe(t) ==
  /\ pc[t] = "probe" /\ ~irq[t]
  /\ Write(t, 0, <<Control(0, FALSE, FALSE)>>)
  /\ pc' = [pc EXCEPT ![t] = "poll"]
  /\ UNCHANGED <<requests, handler, handlers, enabled, inq>>

(* optimsoc_mp_simple_send, with interrupts disabled.                      *)
Send(t, e, header) == Write(t, e, <<Size(2), header, Payload>>)

(* control_get_endpoint and the other requests of libmp.                   *)
SendRequest(t) ==
  /\ pc[t] = "send" /\ ~irq[t] /\ requests[t] < MaxRequests
  /\ Send(t, 0, Request(requests[t] + 1))
  /\ requests' = [requests EXCEPT ![t] = @ + 1]
  /\ pc' = [pc EXCEPT ![t] = "wait"]
  /\ UNCHANGED <<handler, handlers, enabled, inq>>

(* control_wait_response.                                                  *)
WaitResponse(t) ==
  /\ pc[t] = "wait" /\ ~irq[t] /\ Len(replies[t]) = requests[t]
  /\ pc' = [pc EXCEPT ![t] = IF requests[t] = MaxRequests THEN "done" ELSE "send"]
  /\ UNCHANGED <<requests, handler, handlers, enabled, hardware>>

-----------------------------------------------------------------------------
(* _irq_handler; nothing else runs on its tile until it returns.           *)

Interrupt(t) ==
  /\ pc[t] # "init" /\ ~irq[t]
  /\ \E e \in Endpoints : inq[t][e] # <<>>
  /\ irq' = [irq EXCEPT ![t] = TRUE]
  /\ ep' = [ep EXCEPT ![t] = 0] /\ empty' = [empty EXCEPT ![t] = 0]
  /\ UNCHANGED <<program, ready, buffer, handled, replies, handlers, enabled, hardware>>

(* The next endpoint; a round in which all were empty was the last.        *)
NextEndpoint(t, found) ==
  LET last == ep[t] = num_endpoints - 1
      none == empty[t] + (IF found THEN 0 ELSE 1)
  IN  /\ ep' = [ep EXCEPT ![t] = IF last THEN 0 ELSE @ + 1]
      /\ empty' = [empty EXCEPT ![t] = IF last THEN 0 ELSE none]
      /\ irq' = [irq EXCEPT ![t] = ~(last /\ none = num_endpoints)]

(* libmp replies on an endpoint of its own.                                *)
ReplyEndpoint_Zero == 0

ReplyEndpoint == 1

(* control_msg_handler.                                                    *)
Handle(t, header) ==
  IF header.request
  THEN /\ handled' = [handled EXCEPT ![t] = Append(@, header.n)]
       /\ Send(t, ReplyEndpoint, Reply(header.n))
       /\ UNCHANGED replies
  ELSE /\ replies' = [replies EXCEPT ![t] = Append(@, header.n)]
       /\ UNCHANGED <<handled, writing, link>>

(* A packet is read, control messages are noted, the handler of its class  *)
(* is called.  One that is too long leaves the header of the one before.   *)
ReceivePacket(t) ==
  /\ irq[t] /\ inq[t][ep[t]] # <<>>
  /\ LET p == Head(inq[t][ep[t]])
         header == IF Len(p) > maxpacketsize THEN buffer[t] ELSE p[1]
     IN  /\ buffer' = [buffer EXCEPT ![t] = header]
         /\ ready' = IF header.class = "control" /\ header.ready
                     THEN [ready EXCEPT ![t] = @ \cup {header.endpoint}] ELSE ready
         /\ IF header.class \in handlers[t] THEN Handle(t, header)
            ELSE UNCHANGED <<handled, replies, writing, link>>
  /\ inq' = [inq EXCEPT ![t][ep[t]] = Tail(@)]
  /\ NextEndpoint(t, TRUE)
  /\ UNCHANGED <<program, handlers, enabled>>

EmptyEndpoint(t) ==
  /\ irq[t] /\ inq[t][ep[t]] = <<>>
  /\ NextEndpoint(t, FALSE)
  /\ UNCHANGED <<program, ready, buffer, handled, replies, handlers, enabled, hardware>>

Program(t) ==
  \/ MpSimpleInit(t) \/ AddHandler(t) \/ Enable(t)
  \/ CtReady(t) \/ SendProbe(t) \/ SendRequest(t) \/ WaitResponse(t)

Irq(t) == Interrupt(t) \/ ReceivePacket(t) \/ EmptyEndpoint(t)

Next == \E t \in Tiles : Program(t) \/ Irq(t) \/ \E e \in Endpoints : Arrive(t, e)

(* Cores and network go on; a core that is interrupted forever starves its *)
(* program, which a finite number of packets rules out.                    *)
Fairness ==
  \A t \in Tiles :
    /\ WF_vars(Program(t)) /\ WF_vars(Irq(t))
    /\ \A e \in Endpoints : WF_vars(Arrive(t, e))

Spec == Init /\ [][Next]_vars /\ Fairness

-----------------------------------------------------------------------------
(* Requests that have not yet got to the handler of tile t.                *)
Pending(t) ==
  SelectSeq(inq[t][0] \o link[t][0], LAMBDA p : p[1].class = "mp" /\ p[1].request)

(* No request is lost, torn, duplicated or reordered, although probes are  *)
(* written in two parts and handlers send in between: requests and replies *)
(* have endpoints of their own, and a tile is only reported ready when its *)
(* handler is there.  (optimsoc_mp_simple_ctready, _irq_handler,           *)
(* control_init)                                                           *)
RequestsHandled ==
  \A t \in Tiles :
    /\ \A e \in ready[t] : e \in enabled[Other(t)]
    /\ handled[t] \o [k \in DOMAIN Pending(t) |-> Pending(t)[k][1].n] = [k \in 1 .. requests[Other(t)] |-> k]
    /\ replies[t] = [k \in DOMAIN replies[t] |-> k] /\ Len(replies[t]) <= requests[t]
    /\ writing[t][0] # NoPacket => pc[t] = "probe"
    /\ writing[t][1] = NoPacket

(* What is reached in the end: both tiles have found each other and have   *)
(* all their replies.                                                      *)
(* (optimsoc_mp_simple_ctready, control_wait_response)                     *)
RequestsReplied == \A t \in Tiles : pc[t] = "done"
=============================================================================
