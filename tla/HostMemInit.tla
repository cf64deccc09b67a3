---------------------------- MODULE HostMemInit -----------------------------
(***************************************************************************)
(* Initialising the memories of a running system from the host             *)
(* (optimsoc_mem_init of liboptimsochost.c over backend_dbgnoc.c): the     *)
(* CPUs are stalled, the image is written packet by packet to each memory, *)
(* the CPUs are reset and go on.  A transfer can fail with any number of   *)
(* its packets already written; the call then returns at once.             *)
(* Addresses and lengths count 16 bit flits of payload.                    *)
(***************************************************************************)
EXTENDS Integers, Sequences

LOCAL INSTANCE SequencesExt

CONSTANTS
  Memories,
  FLITS_PER_PKG,  \* payload flits per packet: (32 - 6) / 2 rounded down to words
  Lens,           \* lengths of images
  Size,           \* flits per memory
  UINT,           \* data_len is unsigned: 2^32 bytes in the code
  MaxCalls,       \* bound on the calls of mem_init
  MaxFaults       \* bound on failed transfers

VARIABLES
  memory,   \* the target's memories: the image each flit came from
  cpus,     \* "running" or "stalled"
  fresh,    \* the CPUs were reset after the last write
  pc,       \* "idle", "stall", "write", "reset" or "unstall"
  todo,     \* memories still to write
  len,      \* length of the image
  image,    \* number of the image, 0 before the first
  ids,      \* memories of the last call that stalled the CPUs
  expected, \* history: what the memories should hold after the complete writes
  damaged,  \* history: memories whose last write broke off
  faults

history == <<ids, expected, damaged>>
vars == <<memory, cpus, fresh, pc, todo, len, image, history, faults>>

Init ==
  /\ memory = [m \in Memories |-> [a \in 0 .. Size - 1 |-> 0]]
  /\ cpus = "running" /\ fresh = TRUE
  /\ pc = "idle" /\ todo = <<>> /\ len = 0 /\ image = 0 /\ faults = 0
  /\ ids = {} /\ expected = memory /\ damaged = {}

(* 1 + (data_len - 1) / bytes_per_pkg in unsigned arithmetic.              *)
number_of_pkgs(n) == 1 + (((n - 1) % UINT) \div FLITS_PER_PKG)

(* The packets of a write of n flits from base on: addresses they write.   *)
mem_write(base, n) ==
  [k \in 1 .. number_of_pkgs(n) |->
     LET first == base + (k - 1) * FLITS_PER_PKG
         left == n - (k - 1) * FLITS_PER_PKG
         flits == IF left < FLITS_PER_PKG THEN left ELSE FLITS_PER_PKG
     IN  first .. first + flits - 1]

(* The first p packets of the write take effect on memory m.               *)
Written(m, p) ==
  LET addrs == UNION {mem_write(0, len)[k] : k \in 1 .. p}
  IN  [memory EXCEPT ![m] = [a \in DOMAIN @ |-> IF a \in addrs THEN image ELSE @[a]]]

(* optimsoc_mem_init: lengths are whole words (two flits).                 *)
MemInit ==
  /\ pc = "idle" /\ image < MaxCalls
  /\ \E n \in Lens, ms \in SUBSET Memories \ {{}} :
       /\ n % 2 = 0
       /\ len' = n
       /\ todo' \in SetToSeqs(ms)
  /\ image' = image + 1
  /\ pc' = "stall"
  /\ UNCHANGED <<memory, cpus, fresh, history, faults>>

Stall ==
  /\ pc = "stall"
  /\ cpus' = "stalled"
  /\ ids' = {todo[k] : k \in DOMAIN todo}
  /\ pc' = "write"
  /\ UNCHANGED <<memory, fresh, todo, len, image, expected, damaged, faults>>

Write ==
  /\ pc = "write" /\ todo # <<>>
  /\ memory' = Written(Head(todo), number_of_pkgs(len))
  /\ fresh' = FALSE
  /\ LET m == Head(todo)
         old == IF m \in damaged THEN memory[m] ELSE expected[m]
     IN  expected' = [expected EXCEPT ![m] = [a \in DOMAIN @ |-> IF a < len THEN image ELSE old[a]]]
  /\ damaged' = damaged \ {Head(todo)}
  /\ todo' = Tail(todo)
  /\ UNCHANGED <<cpus, pc, len, image, ids, faults>>

Reset ==
  /\ pc = "write" /\ todo = <<>>
  /\ fresh' = TRUE
  /\ pc' = "unstall"
  /\ UNCHANGED <<memory, cpus, todo, len, image, history, faults>>

Unstall ==
  /\ pc = "unstall"
  /\ cpus' = "running"
  /\ pc' = "idle"
  /\ UNCHANGED <<memory, fresh, todo, len, image, history, faults>>

(* The failed call lets the CPUs go on.                                    *)
WriteFails_Unstalls ==
  /\ pc = "write" /\ todo # <<>> /\ faults < MaxFaults
  /\ \E p \in 0 .. number_of_pkgs(len) - 1 : memory' = Written(Head(todo), p)
  /\ fresh' = FALSE
  /\ faults' = faults + 1
  /\ cpus' = "running"
  /\ pc' = "idle"
  /\ damaged' = damaged \cup {Head(todo)}
  /\ UNCHANGED <<todo, len, image, ids, expected>>

(* The transfer fails after p packets: "CPUs remain stalled!"              *)
WriteFails ==
  /\ pc = "write" /\ todo # <<>> /\ faults < MaxFaults
  /\ \E p \in 0 .. number_of_pkgs(len) - 1 : memory' = Written(Head(todo), p)
  /\ fresh' = FALSE
  /\ faults' = faults + 1
  /\ pc' = "idle"
  /\ damaged' = damaged \cup {Head(todo)}
  /\ UNCHANGED <<cpus, todo, len, image, ids, expected>>

(* The write to the TCM fails in any of the other steps.                   *)
ControlFails ==
  /\ pc \in {"stall", "unstall"} \/ (pc = "write" /\ todo = <<>>)
  /\ faults < MaxFaults
  /\ faults' = faults + 1
  /\ pc' = "idle"
  /\ UNCHANGED <<memory, cpus, fresh, todo, len, image, history>>

Next == MemInit \/ Stall \/ Write \/ Reset \/ Unstall \/ WriteFails \/ ControlFails

Spec == Init /\ [][Next]_vars

-----------------------------------------------------------------------------
(* The CPUs only run on whole images, also after transfers that broke off  *)
(* and calls that were repeated: while they run they have been reset since *)
(* the last write, no memory of the last call is half written, and every   *)
(* other one that is not holds the images written to it, each over the one *)
(* before and no flit beyond its end.                                      *)
(* (optimsoc_mem_init, ob_dbgnoc_mem_write)                                *)
RunsWholeImages ==
  cpus = "running" =>
    /\ fresh
    /\ ids \cap damaged = {}
    /\ \A m \in Memories \ damaged : memory[m] = expected[m]
=============================================================================
