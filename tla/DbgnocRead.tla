----------------------------- MODULE DbgnocRead -----------------------------
(***************************************************************************)
(* Register reads of liboptimsochost over the Debug NoC (backend_dbgnoc.c) *)
(* and the operations built from them: system discovery, refreshing the    *)
(* configuration of a trace module, clock statistics.  Two threads share   *)
(* one packet buffer: the receive thread fills it and, while a read is     *)
(* under way, hands it over with two semaphores.                           *)
(* Each debug module answers its reads in the order it gets them, and the  *)
(* target sends trace packets of its own accord; a read is given up after  *)
(* a timeout or after REGISTER_READ_MAXPKGS packets that do not match.     *)
(***************************************************************************)
EXTENDS Integers, Sequences, FiniteSets

CONSTANTS
  Type,                  \* the module types at the addresses after the TCM
  REGISTER_READ_MAXPKGS,
  MaxCalls,              \* bound on the calls of the client
  MaxTraces,             \* bound on the trace packets
  MaxFaults              \* bound on timeouts and failed transfers

ASSUME DbgnocAssumption ==
  /\ Type \in Seq({"ITM", "STM", "NCM", "MAM", "NRM"})
  /\ REGISTER_READ_MAXPKGS \in Nat \ {0}
  /\ MaxCalls \in Nat /\ MaxTraces \in Nat /\ MaxFaults \in Nat

VARIABLES
  signal,     \* signal_rcv_lisnoc16_pkg
  available,  \* semaphore sem_rcv_lisnoc16_pkg_available
  processed,  \* semaphore sem_rcv_lisnoc16_pkg_processed
  pkg,        \* rcv_lisnoc16_pkg
  rx,         \* receive thread: "off", "read", "filled" or "posted"
  reqs,       \* per debug module: requests under way to it
  net,        \* packets under way to the host
  sampled,    \* the target's samples of its clock counters
  pc,         \* client thread: "idle", "arm", "send", "wait", "late", "check" or "post"
  job,        \* the call under way: its name and its register reads still to do
  i,          \* packets seen by this register_read
  next,       \* where the client goes from "post": "wait", "done" or "fail"
  data,       \* the answer copied by register_read
  found,      \* the modules found by the discovery under way
  sysinfo,    \* what the last complete discovery found
  config,     \* itm_config, stm_config and mam_config by address
  clkstats,   \* the last clock statistics read
  calls, traces,
  faults      \* history: reads that ended without their answer

wire == <<reqs, net, sampled>>
results == <<found, sysinfo, config, clkstats>>
shared == <<signal, available, processed>>
vars == <<shared, pkg, rx, wire, pc, job, i, next, data, results, calls, traces, faults>>

TCM == 1
Addrs == TCM + 1 .. TCM + Len(Type)
TypeAt(a) == Type[a - TCM]
None == <<>>
Clock == "clock"

(* The target's registers: register 0 of a module is its type, register 1  *)
(* its configuration; the TCM has the system information and the clocks.   *)
Register(r) ==
  IF r.addr = TCM THEN (IF r.reg = 0 THEN <<"sysinfo">> ELSE <<Clock, sampled>>)
  ELSE IF r.reg = 0 THEN <<"type", TypeAt(r.addr)>> ELSE <<"config", r.addr>>

(* A request to read n words from register r; a write is one with n = 0.   *)
Read(a, r, n) == [addr |-> a, reg |-> r, len |-> n]
Write(a, r) == Read(a, r, 0)

Init ==
  /\ signal = 0 /\ available = 0 /\ processed = 0
  /\ pkg = None /\ rx = "off"
  /\ reqs = [a \in {TCM} \cup Addrs |-> <<>>] /\ net = <<>> /\ sampled = 0
  /\ pc = "idle" /\ job = [name |-> "none", reads |-> <<>>]
  /\ i = 0 /\ next = "done" /\ data = None
  /\ found = None /\ sysinfo = None
  /\ config = [a \in Addrs |-> None] /\ clkstats = None
  /\ calls = 0 /\ traces = 0 /\ faults = 0

-----------------------------------------------------------------------------
(* The receive thread.                                                     *)

(* A packet is copied from the stream to rcv_lisnoc16_pkg; the callbacks   *)
(* take the trace packets.                                                 *)
Fill ==
  /\ rx = "read" /\ net # <<>>
  /\ pkg' = Head(net)
  /\ net' = Tail(net)
  /\ rx' = "filled"
  /\ UNCHANGED <<shared, reqs, sampled, pc, job, i, next, data, results, calls, traces, faults>>

(* The consumer is informed if it asked for it.                            *)
Offer ==
  /\ rx = "filled"
  /\ IF signal = 1 THEN rx' = "posted" /\ available' = available + 1
                   ELSE rx' = "read" /\ UNCHANGED available
  /\ UNCHANGED <<signal, processed, pkg, wire, pc, job, i, next, data, results, calls, traces, faults>>

(* sem_wait(sem_rcv_lisnoc16_pkg_processed) returns.                       *)
Resume ==
  /\ rx = "posted" /\ processed > 0
  /\ processed' = processed - 1
  /\ rx' = "read"
  /\ UNCHANGED <<signal, available, pkg, wire, pc, job, i, next, data, results, calls, traces, faults>>

-----------------------------------------------------------------------------
(* The target and the transport below glip.                                *)

Answer(a) ==
  /\ reqs[a] # <<>>
  /\ LET r == Head(reqs[a]) IN
       IF r.len = 0 THEN
         /\ sampled' = sampled + (IF r = Write(TCM, 3) THEN 1 ELSE 0)
         /\ UNCHANGED net
       ELSE /\ net' = Append(net, [class |-> "resp", len |-> r.len + 1, words |-> Register(r)])
            /\ UNCHANGED sampled
  /\ reqs' = [reqs EXCEPT ![a] = Tail(@)]
  /\ UNCHANGED <<shared, pkg, rx, pc, job, i, next, data, results, calls, traces, faults>>

(* Instruction and software trace packets have six flits, those of a       *)
(* router monitor with four links five.                                    *)
TraceLens == {5, 6}

Trace ==
  /\ rx # "off" /\ traces < MaxTraces
  /\ \E n \in TraceLens : net' = Append(net, [class |-> "trace", len |-> n, words |-> <<"trace">>])
  /\ traces' = traces + 1
  /\ UNCHANGED <<shared, pkg, rx, reqs, sampled, pc, job, i, next, data, results, calls, faults>>

-----------------------------------------------------------------------------
(* The client thread: calls.                                               *)

(* connect: fresh semaphores and a new receive thread.                     *)
Connect ==
  /\ rx = "off" /\ pc = "idle"
  /\ signal' = 0 /\ available' = 0 /\ processed' = 0
  /\ rx' = "read"
  /\ UNCHANGED <<pkg, wire, pc, job, i, next, data, results, calls, traces, faults>>

(* disconnect cancels the receive thread and closes the transport.         *)
Disconnect ==
  /\ rx # "off" /\ pc = "idle"
  /\ signal' = 0 /\ available' = 0 /\ processed' = 0
  /\ rx' = "off"
  /\ net' = <<>>
  /\ UNCHANGED <<pkg, reqs, sampled, pc, job, i, next, data, results, calls, traces, faults>>

Call(name, reads) ==
  /\ rx # "off" /\ pc = "idle" /\ calls < MaxCalls
  /\ calls' = calls + 1
  /\ pc' = "arm"
  /\ job' = [name |-> name, reads |-> reads]

(* discover_system starts with the system information of the TCM.          *)
Discover ==
  /\ Call("discover", <<Read(TCM, 0, 3)>>)
  /\ found' = None
  /\ UNCHANGED <<shared, pkg, rx, wire, i, next, data, sysinfo, config, clkstats, traces, faults>>

(* itm_refresh_config and stm_refresh_config of a module found before.     *)
RefreshConfig ==
  /\ sysinfo # None
  /\ \E k \in DOMAIN sysinfo :
       sysinfo[k] \in {"ITM", "STM"} /\ Call("refresh", <<Read(TCM + k, 1, 1)>>)
  /\ UNCHANGED <<shared, pkg, rx, wire, i, next, data, results, traces, faults>>

(* read_clkstats makes the TCM sample its counters, then reads them.       *)
ReadClkstats ==
  /\ Call("clkstats", <<Read(TCM, 4, 4)>>)
  /\ reqs' = [reqs EXCEPT ![TCM] = Append(@, Write(TCM, 3))]
  /\ UNCHANGED <<shared, pkg, rx, net, sampled, i, next, data, results, traces, faults>>

(* nrm_set_sample_interval writes a register of every router monitor.      *)
NrmSetSampleInterval ==
  /\ rx # "off" /\ pc = "idle" /\ calls < MaxCalls /\ sysinfo # None
  /\ reqs' = [a \in DOMAIN reqs |->
                IF a \in Addrs /\ sysinfo[a - TCM] = "NRM" THEN Append(reqs[a], Write(a, 2)) ELSE reqs[a]]
  /\ calls' = calls + 1
  /\ UNCHANGED <<shared, pkg, rx, net, sampled, pc, job, i, next, data, results, traces, faults>>

-----------------------------------------------------------------------------
(* The client thread: register_read of Head(job.reads).                    *)

Op == Head(job.reads)

(* The receive thread is told first: an answer cannot slip past.           *)
Arm ==
  /\ pc = "arm"
  /\ signal' = 1
  /\ i' = 0
  /\ pc' = "send"
  /\ UNCHANGED <<available, processed, pkg, rx, wire, job, next, data, results, calls, traces, faults>>

Send ==
  /\ pc = "send"
  /\ reqs' = [reqs EXCEPT ![Op.addr] = Append(@, Op)]
  /\ pc' = "wait"
  /\ UNCHANGED <<shared, pkg, rx, net, sampled, job, i, next, data, results, calls, traces, faults>>

(* A failed transfer ends the read and leaves the signal set.              *)
SendFails ==
  /\ pc = "send" /\ faults < MaxFaults
  /\ faults' = faults + 1
  /\ pc' = "idle"
  /\ UNCHANGED <<shared, pkg, rx, wire, job, i, next, data, results, calls, traces>>

(* The buffer is released before it is looked at.                          *)
Wait_PostsFirst ==
  /\ pc = "wait" /\ available > 0
  /\ available' = available - 1
  /\ processed' = processed + 1
  /\ pc' = "check"
  /\ UNCHANGED <<signal, pkg, rx, wire, job, i, next, data, results, calls, traces, faults>>

Wait ==
  /\ pc = "wait" /\ available > 0
  /\ available' = available - 1
  /\ pc' = "check"
  /\ UNCHANGED <<signal, processed, pkg, rx, wire, job, i, next, data, results, calls, traces, faults>>

(* sem_timedwait times out, and only then is the signal cleared: the       *)
(* receive thread may post in between.                                     *)
TimedOut ==
  /\ pc = "wait" /\ available = 0 /\ faults < MaxFaults
  /\ faults' = faults + 1
  /\ pc' = "late"
  /\ UNCHANGED <<shared, pkg, rx, wire, job, i, next, data, results, calls, traces>>

GiveUp ==
  /\ pc = "late"
  /\ signal' = 0
  /\ pc' = "idle"
  /\ UNCHANGED <<available, processed, pkg, rx, wire, job, i, next, data, results, calls, traces, faults>>

(* A packet of the right length is taken, whatever its class.              *)
Matches_Len == pkg.len = Op.len + 1

(* An answer is recognised by its class and its length.                    *)
Matches == pkg.class = "resp" /\ pkg.len = Op.len + 1

(* The packet is copied and nothing more is wanted, or it is skipped; the  *)
(* last packet of a read clears the signal before it is released.          *)
Check ==
  /\ pc = "check"
  /\ IF Matches THEN data' = pkg.words /\ signal' = 0 /\ next' = "done"
     ELSE /\ next' = IF i = REGISTER_READ_MAXPKGS - 1 THEN "fail" ELSE "wait"
          /\ signal' = IF i = REGISTER_READ_MAXPKGS - 1 THEN 0 ELSE signal
          /\ UNCHANGED data
  /\ i' = i + 1
  /\ pc' = "post"
  /\ UNCHANGED <<available, processed, pkg, rx, wire, job, results, calls, traces, faults>>

-----------------------------------------------------------------------------
(* The client thread: what a call does with an answer.                     *)

(* An NCM is asked for its address, an ITM gets its trigger range cleared. *)
Reads(a, t) == IF t = "NCM" THEN <<Read(a, 1, 1)>> ELSE <<>>
Writes(a, t) == IF t = "ITM" THEN <<Write(a, 2), Write(a, 4)>> ELSE <<>>

(* The reads of mam_get_config for the modules m.                          *)
MamReads(m) ==
  LET mams == SelectSeq([k \in DOMAIN m |-> Read(TCM + k, IF m[k] = "MAM" THEN 1 ELSE 0, 1)],
                        LAMBDA r : r.reg = 1)
  IN  mams

(* The type read from a module (a word that is no type counts as unknown). *)
TypeIn(w) == IF w[1] = "type" THEN w[2] ELSE "unknown"

(* discover_system after a read: the TCM tells how many modules there are, *)
(* each is asked for its type; then the new sysinfo replaces the old one   *)
(* and the MAMs are asked for their memory.                                *)
Discovered(rest) ==
  IF Op.addr = TCM THEN
    /\ found' = <<>>
    /\ job' = [job EXCEPT !.reads = <<Read(TCM + 1, 0, 1)>>]
    /\ UNCHANGED <<reqs, sysinfo, config>>
  ELSE IF job.name = "mam" THEN
    /\ config' = [config EXCEPT ![Op.addr] = data]
    /\ job' = [job EXCEPT !.reads = rest]
    /\ UNCHANGED <<reqs, found, sysinfo>>
  ELSE
    LET m == IF Op.reg = 0 THEN Append(found, TypeIn(data)) ELSE found
        more == IF Op.reg = 0 THEN Reads(Op.addr, TypeIn(data)) ELSE <<>>
        all == Len(m) = Len(Type)
    IN  /\ found' = m
        /\ reqs' = [reqs EXCEPT ![Op.addr] =
                      @ \o (IF Op.reg = 0 THEN Writes(Op.addr, TypeIn(data)) ELSE <<>>)]
        /\ IF more # <<>> THEN job' = [job EXCEPT !.reads = more] /\ UNCHANGED <<sysinfo, config>>
           ELSE IF ~all THEN
             /\ job' = [job EXCEPT !.reads = <<Read(Op.addr + 1, 0, 1)>>]
             /\ UNCHANGED <<sysinfo, config>>
           ELSE
             /\ sysinfo' = m
             /\ config' = [a \in Addrs |-> None]
             /\ job' = [name |-> "mam", reads |-> MamReads(m)]

(* register_read posts the semaphore and returns or waits for more; its    *)
(* caller goes on.                                                         *)
Post ==
  /\ pc = "post"
  /\ processed' = processed + 1
  /\ faults' = faults + (IF next = "fail" THEN 1 ELSE 0)
  /\ CASE next = "wait" -> pc' = "wait" /\ UNCHANGED <<reqs, job, results>>
       [] next = "fail" -> pc' = "idle" /\ UNCHANGED <<reqs, job, results>>
       [] next = "done" ->
            /\ CASE job.name = "refresh" ->
                      /\ config' = [config EXCEPT ![Op.addr] = data]
                      /\ job' = [job EXCEPT !.reads = <<>>]
                      /\ UNCHANGED <<reqs, found, sysinfo, clkstats>>
                 [] job.name = "clkstats" ->
                      /\ clkstats' = data
                      /\ job' = [job EXCEPT !.reads = <<>>]
                      /\ UNCHANGED <<reqs, found, sysinfo, config>>
                 [] OTHER -> Discovered(Tail(job.reads)) /\ UNCHANGED clkstats
            /\ pc' = IF job'.reads = <<>> THEN "idle" ELSE "arm"
  /\ UNCHANGED <<signal, available, pkg, rx, net, sampled, i, next, data, calls, traces>>

Receive == Fill \/ Offer \/ Resume

Client == Arm \/ Send \/ Wait \/ GiveUp \/ Check \/ Post

Next ==
  \/ Receive \/ Trace \/ \E a \in DOMAIN reqs : Answer(a)
  \/ Connect \/ Disconnect
  \/ Discover \/ RefreshConfig \/ ReadClkstats \/ NrmSetSampleInterval
  \/ Client \/ SendFails \/ TimedOut

(* The two threads are scheduled fairly and the target answers.            *)
Fairness ==
  WF_vars(Receive) /\ WF_vars(Client) /\ \A a \in {TCM} \cup Addrs : WF_vars(Answer(a))

Spec == Init /\ [][Next]_vars /\ Fairness

-----------------------------------------------------------------------------
(* While register_read looks at the shared packet, the receive thread is   *)
(* blocked in sem_wait with nothing posted, so the packet cannot change    *)
(* under the reader; and the semaphores never hold more than the one       *)
(* packet that was handed over (register_read and receive_thread), also    *)
(* after timeouts and failed transfers.                                    *)
PacketHandedOver ==
  /\ pc \in {"check", "post"} => rx = "posted" /\ available = 0 /\ processed = 0
  /\ available + processed <= (IF rx = "posted" THEN 1 ELSE 0)

(* What the client knows of the system is true: modules, configurations    *)
(* and clock statistics taken after the request, as long as no earlier     *)
(* read was given up.  (register_read, discover_system, *_refresh_config,  *)
(* read_clkstats)                                                          *)
KnowledgeTrue ==
  faults = 0 =>
    /\ sysinfo # None => sysinfo = Type
    /\ \A a \in Addrs : config[a] # None => config[a] = <<"config", a>>
    /\ job.name = "clkstats" /\ pc = "idle" => clkstats = <<Clock, sampled>>

(* Every call returns, and as long as no read was given up every packet    *)
(* from the target gets to the callbacks: the receive thread is not left   *)
(* waiting for a reader that is gone.  (register_read, receive_thread)     *)
CallsReturn ==
  /\ (pc # "idle") ~> (pc = "idle")
  /\ (net # <<>>) ~> (net = <<>> \/ faults > 0)
=============================================================================
