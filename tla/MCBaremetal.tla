----------------------------- MODULE MCBaremetal -----------------------------
(* The baremetal libraries on small instances, each part by itself: a      *)
(* behaviour picks one part and runs only that one.                        *)
EXTENDS RuntimeSched, MpChannel

VARIABLE part

(* A list of libruntime with up to three entries.                          *)
CONSTANTS ListData, NULL
VARIABLES head, tail, entry, live, ret, usage
listvars == <<head, tail, entry, live, ret, usage>>
List == INSTANCE RuntimeList WITH Data <- ListData, Capacity <- 3, Usages <- {"queue", "set"}

(* Two tiles send three messages each to an endpoint with three slots.     *)
CONSTANT Senders
VARIABLES created, mwrite_ptr, mread_ptr, mdata, mdata_size, mpc, reply, offset, count,
          mrequest, mresponse, mreader, mcopied, allocated, mreceived
msgvars == <<created, mwrite_ptr, mread_ptr, mdata, mdata_size, mpc, reply, offset, count,
             mrequest, mresponse, mreader, mcopied, allocated, mreceived>>
Msg == INSTANCE MpMessages WITH SLOTS <- 3, PACKETS <- 2, MESSAGES <- 3,
  write_ptr <- mwrite_ptr, read_ptr <- mread_ptr, data <- mdata, data_size <- mdata_size, pc <- mpc,
  request <- mrequest, response <- mresponse, reader <- mreader, copied <- mcopied, received <- mreceived

(* Two tiles set up the message passing driver and send two requests each. *)
VARIABLES dpc, irq, ep, empty, handlers, enabled, ready, buffer, writing, link, inq, requests,
          handled, replies
drivervars == <<dpc, irq, ep, empty, handlers, enabled, ready, buffer, writing, link, inq, requests,
                handled, replies>>
Driver == INSTANCE MpSimple WITH pc <- dpc, MaxRequests <- 2, Outstanding <- 2

(* Three threads share two DMA slots.                                      *)
VARIABLES initialized, flag, regs, unit, tpc, slot, transfers, tcopied, shared
dmavars == <<initialized, flag, regs, unit, tpc, slot, transfers, tcopied, shared>>
Dma == INSTANCE DmaDriver WITH
  Threads <- 1 .. 3, DMA_SLOTS <- 2, MaxTransfers <- 1, pc <- tpc, count <- transfers, copied <- tcopied

(* What is not initialised matters only in its own part.                   *)
MCInit ==
  /\ part \in {"scheduler", "list", "messages", "channel", "driver", "dma"}
  /\ Init
  /\ part # "list" => usage = "queue"
  /\ List!Init /\ ChannelInit
  /\ part # "messages" => mdata_size = [p \in 0 .. 2 |-> 0]
  /\ Msg!Init /\ Driver!Init /\ Dma!Init

MCNext ==
  \/ part = "scheduler" /\ Next
     /\ UNCHANGED <<part, listvars, msgvars, channelvars, drivervars, dmavars>>
  \/ part = "list" /\ List!Next
     /\ UNCHANGED <<part, vars, msgvars, channelvars, drivervars, dmavars>>
  \/ part = "messages" /\ Msg!Next
     /\ UNCHANGED <<part, vars, listvars, channelvars, drivervars, dmavars>>
  \/ part = "channel" /\ ChannelNext
     /\ UNCHANGED <<part, vars, listvars, msgvars, drivervars, dmavars>>
  \/ part = "driver" /\ Driver!Next
     /\ UNCHANGED <<part, vars, listvars, msgvars, channelvars, dmavars>>
  \/ part = "dma" /\ Dma!Next
     /\ UNCHANGED <<part, vars, listvars, msgvars, channelvars, drivervars>>

(* The fairness of each part.                                              *)
MCFairness ==
  /\ WF_vars(part = "scheduler" /\ Tick)
  /\ WF_msgvars(part = "messages" /\ Msg!EndpointCreate)
  /\ WF_msgvars(part = "messages" /\ Msg!MsgRecv)
  /\ WF_msgvars(part = "messages" /\ Msg!MsgCopy)
  /\ \A s \in Senders :
       /\ WF_msgvars(part = "messages" /\ Msg!SenderStep(s))
       /\ WF_msgvars(part = "messages" /\ Msg!Handle(s))
       /\ WF_msgvars(part = "messages" /\ Msg!HandleReply(s))
  /\ WF_channelvars(part = "channel" /\ Progress)
  /\ \A t \in Driver!Tiles :
       /\ WF_drivervars(part = "driver" /\ Driver!Program(t))
       /\ WF_drivervars(part = "driver" /\ Driver!Irq(t))
       /\ \A e \in Driver!Endpoints : WF_drivervars(part = "driver" /\ Driver!Arrive(t, e))
  /\ WF_dmavars(part = "dma" /\ Dma!DmaInit)
  /\ \A t \in 1 .. 3 : WF_dmavars(part = "dma" /\ Dma!Thread(t))
  /\ \A s \in Dma!Slots : WF_dmavars(part = "dma" /\ Dma!Copy(s))

MCSpec ==
  /\ MCInit
  /\ [][MCNext]_<<part, vars, listvars, msgvars, channelvars, drivervars, dmavars>>
  /\ MCFairness

-----------------------------------------------------------------------------
(* A list behaves as the sequence it promises to be, with the effects and  *)
(* the results of its operations, although remove_head leaves a dangling   *)
(* prev pointer.  (list.c)                                                 *)
ListImplementsQueue == List!ListImplementsQueue

(* Messages are received whole, once and in the order in which their slots *)
(* were granted, although senders write concurrently, complete in any      *)
(* order, and the slot is freed before it is copied.  (control_msg_handler, *)
(* endpoint_alloc, optimsoc_mp_msg_recv)                                   *)
MessagesIntact == Msg!MessagesIntact

(* No request is lost, torn, duplicated or reordered between the tiles,    *)
(* although probes are written in two parts and handlers send in between.  *)
(* (optimsoc_mp_simple_ctready, _irq_handler, control_init)                *)
RequestsHandled == Driver!RequestsHandled

(* A DMA transfer that returns has been carried out, unless two threads    *)
(* were given the same slot.  (optimsoc_dma_transfer, dma_alloc_slot)      *)
TransfersComplete == Dma!TransfersComplete

(* In the end every message is received: those to an endpoint through all retries for *)
(* the endpoint and for a slot, those on a channel although it must wait   *)
(* for credit; tiles find each other and get their        *)
(* replies; every DMA transfer returns.  (control_get_endpoint,            *)
(* control_msg_alloc, optimsoc_mp_simple_ctready, optimsoc_dma_transfer)   *)
SentIsReceived ==
  <>[](/\ part = "messages" => Msg!EveryMessageReceived
       /\ part = "channel" => ChannelDrained
       /\ part = "driver" => Driver!RequestsReplied
       /\ part = "dma" => Dma!TransfersReturn)
=============================================================================
