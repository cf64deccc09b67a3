------------------------------ MODULE DmaDriver -----------------------------
(***************************************************************************)
(* The DMA driver (libbaremetal/dma.c) below optimsoc_dma_transfer         *)
(* (libruntime/dma.c): threads, which the timer may preempt at any point,  *)
(* share the slots of the unit.  A transfer searches a free slot, takes    *)
(* it, writes the registers, starts the unit, polls and frees the slot.    *)
(***************************************************************************)
EXTENDS Integers

CONSTANTS
  Threads,
  DMA_SLOTS,    \* 4 in the code
  MaxTransfers  \* transfers of each thread

Slots == 0 .. DMA_SLOTS - 1

VARIABLES
  initialized,  \* _optimsoc_dma_initialized
  flag,         \* per slot: "FREE" or "ALLOC"
  regs,         \* per slot: the transfer in its registers
  unit,         \* per slot: "idle", "busy" or "done"
  pc,           \* per thread: "idle", "search", "take", "setup", "go", "wait" or "free"
  slot,         \* per thread: slot looked at or used
  count,        \* per thread: transfers begun
  copied,       \* history: transfers carried out
  shared        \* history: a slot was taken by two threads

vars == <<initialized, flag, regs, unit, pc, slot, count, copied, shared>>

Init ==
  /\ initialized = FALSE
  /\ flag = [s \in Slots |-> "FREE"] /\ regs = [s \in Slots |-> <<>>] /\ unit = [s \in Slots |-> "idle"]
  /\ pc = [t \in Threads |-> "idle"] /\ slot = [t \in Threads |-> 0] /\ count = [t \in Threads |-> 0]
  /\ copied = {} /\ shared = FALSE

Goto(t, place) == pc' = [pc EXCEPT ![t] = place]

(* dma_init.                                                               *)
DmaInit ==
  /\ ~initialized
  /\ initialized' = TRUE
  /\ UNCHANGED <<flag, regs, unit, pc, slot, count, copied, shared>>

(* optimsoc_dma_transfer, dma_alloc: before dma_init the thread yields and *)
(* tries again.                                                            *)
Transfer(t) ==
  /\ pc[t] = "idle" /\ count[t] < MaxTransfers /\ initialized
  /\ count' = [count EXCEPT ![t] = @ + 1]
  /\ slot' = [slot EXCEPT ![t] = 0]
  /\ Goto(t, "search")
  /\ UNCHANGED <<initialized, flag, regs, unit, copied, shared>>

(* dma_alloc_slot: the first free slot; without one the thread yields and  *)
(* starts over.                                                            *)
Search(t) ==
  /\ pc[t] = "search"
  /\ IF flag[slot[t]] = "FREE"
     THEN Goto(t, "take") /\ UNCHANGED slot
     ELSE slot' = [slot EXCEPT ![t] = (@ + 1) % DMA_SLOTS] /\ UNCHANGED pc
  /\ UNCHANGED <<initialized, flag, regs, unit, count, copied, shared>>

(* The flag was read before, perhaps in another time slice.                *)
Take(t) ==
  /\ pc[t] = "take"
  /\ flag' = [flag EXCEPT ![slot[t]] = "ALLOC"]
  /\ shared' = (shared \/ flag[slot[t]] = "ALLOC"
                       \/ \E u \in Threads \ {t} : slot[u] = slot[t] /\ pc[u] \in {"setup", "go", "wait", "free"})
  /\ Goto(t, "setup")
  /\ UNCHANGED <<initialized, regs, unit, slot, count, copied>>

(* dma_transfer: the registers first, "go" last.                           *)
Setup(t) ==
  /\ pc[t] = "setup"
  /\ regs' = [regs EXCEPT ![slot[t]] = <<t, count[t]>>]
  /\ Goto(t, "go")
  /\ UNCHANGED <<initialized, flag, unit, slot, count, copied, shared>>

Go(t) ==
  /\ pc[t] = "go"
  /\ unit' = [unit EXCEPT ![slot[t]] = "busy"]
  /\ Goto(t, "wait")
  /\ UNCHANGED <<initialized, flag, regs, slot, count, copied, shared>>

(* The slot is freed as soon as the transfer has been started.             *)
Wait_Not(t) ==
  /\ pc[t] = "wait"
  /\ Goto(t, "free")
  /\ UNCHANGED <<initialized, flag, regs, unit, slot, count, copied, shared>>

(* dma_wait, dma_poll.                                                     *)
Wait(t) ==
  /\ pc[t] = "wait" /\ unit[slot[t]] = "done"
  /\ Goto(t, "free")
  /\ UNCHANGED <<initialized, flag, regs, unit, slot, count, copied, shared>>

(* dma_free: a slot that is already free stays so.                         *)
Free(t) ==
  /\ pc[t] = "free"
  /\ flag' = [flag EXCEPT ![slot[t]] = "FREE"]
  /\ Goto(t, "idle")
  /\ UNCHANGED <<initialized, regs, unit, slot, count, copied, shared>>

(* The unit (external): it carries out what its registers say.             *)
Copy(s) ==
  /\ unit[s] = "busy"
  /\ unit' = [unit EXCEPT ![s] = "done"]
  /\ copied' = copied \cup {regs[s]}
  /\ UNCHANGED <<initialized, flag, regs, pc, slot, count, shared>>

Thread(t) == Transfer(t) \/ Search(t) \/ Take(t) \/ Setup(t) \/ Go(t) \/ Wait(t) \/ Free(t)

Next == DmaInit \/ (\E t \in Threads : Thread(t)) \/ \E s \in Slots : Copy(s)

(* The scheduler gives every thread its turn, the unit finishes.           *)
Fairness ==
  /\ WF_vars(DmaInit)
  /\ \A t \in Threads : WF_vars(Thread(t))
  /\ \A s \in Slots : WF_vars(Copy(s))

Spec == Init /\ [][Next]_vars /\ Fairness

-----------------------------------------------------------------------------
(* When optimsoc_dma_transfer returns, its own transfer has been carried   *)
(* out, however threads, slots and the unit interleave, unless two threads *)
(* were given the same slot between reading its flag and setting it; and a *)
(* slot in use is never marked free.  (optimsoc_dma_transfer,              *)
(* dma_alloc_slot)                                                         *)
TransfersComplete ==
  ~shared =>
    \A t \in Threads :
      /\ pc[t] = "free" => <<t, count[t]>> \in copied
      /\ pc[t] \in {"setup", "go", "wait", "free"} => flag[slot[t]] = "ALLOC"

(* What is reached in the end: every transfer has returned, also where     *)
(* threads wait for a slot.                                                *)
(* (optimsoc_dma_transfer)                                                 *)
TransfersReturn ==
  \A t \in Threads : pc[t] = "idle" /\ count[t] = MaxTransfers
=============================================================================
