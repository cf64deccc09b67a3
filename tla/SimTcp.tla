------------------------------- MODULE SimTcp -------------------------------
(***************************************************************************)
(* The simulation backend of liboptimsochost (backend_simtcp.c): control   *)
(* requests are sent by the caller, which holds ctrl_msg_mutex and waits   *)
(* on ctrl_msg_cond; the receive thread stores the payload of an answer    *)
(* and signals.  The wait has no predicate, so the answer must not come    *)
(* before the wait has begun.  A discovery that times out returns with the *)
(* mutex locked; every other failure is an assertion.                      *)
(***************************************************************************)
EXTENDS Integers, Sequences

CONSTANTS
  MaxCalls,   \* bound on the calls
  MaxTraces,  \* bound on the trace messages
  MaxFaults   \* bound on timeouts

VARIABLES
  socketfd,  \* connected?
  mutex,     \* ctrl_msg_mutex: "free", "client" or "rx"
  pc,        \* client: "idle", "lock", "write", "wait" (enters the wait), "cond", "woken", "parse"
  want,      \* the message type whose answer the client waits for
  todo,      \* requests of the call that follow it
  rx,        \* receive thread: "off", "read", "lock" or "store"
  msg,       \* the message it is handling
  ctrl_msg,  \* ctrl_msg_data: the type of the message it came with
  reqs, net, \* requests and answers under way
  sysinfo,   \* what discovery stored
  abort,     \* an assertion failed
  calls, traces, faults

wire == <<reqs, net>>
client == <<pc, want, todo>>
receiver == <<rx, msg>>
bounds == <<calls, traces, faults>>
vars == <<socketfd, mutex, client, receiver, ctrl_msg, wire, sysinfo, abort, bounds>>

Init ==
  /\ socketfd = FALSE
  /\ mutex = "free"
  /\ pc = "idle" /\ want = "none" /\ todo = <<>>
  /\ rx = "off" /\ msg = "none"
  /\ ctrl_msg = "none"
  /\ reqs = <<>> /\ net = <<>>
  /\ sysinfo = <<>>
  /\ abort = FALSE
  /\ calls = 0 /\ traces = 0 /\ faults = 0

Connect ==
  /\ ~socketfd /\ rx = "off" /\ pc = "idle" /\ calls < MaxCalls
  /\ calls' = calls + 1
  /\ socketfd' = TRUE
  /\ rx' = "read"
  /\ UNCHANGED <<mutex, client, msg, ctrl_msg, wire, sysinfo, abort, traces, faults>>

(* disconnect: the socket is closed and the receive thread cancelled; it   *)
(* stops at its next read.                                                 *)
Disconnect ==
  /\ socketfd /\ pc = "idle"
  /\ socketfd' = FALSE
  /\ rx' = IF rx = "read" THEN "off" ELSE rx
  /\ reqs' = <<>> /\ net' = <<>>
  /\ UNCHANGED <<mutex, client, msg, ctrl_msg, sysinfo, abort, bounds>>

Call(types) ==
  /\ socketfd /\ pc = "idle" /\ calls < MaxCalls
  /\ calls' = calls + 1
  /\ pc' = "lock" /\ want' = Head(types) /\ todo' = Tail(types)
  /\ UNCHANGED <<socketfd, mutex, receiver, ctrl_msg, wire, sysinfo, abort, traces, faults>>

CpuStart == Call(<<"start">>)

DiscoverSystem == Call(<<"discover", "enumerate">>)

(* The request is sent without the mutex.                                  *)
Lock_Missing ==
  /\ pc = "lock"
  /\ pc' = "write"
  /\ UNCHANGED <<socketfd, mutex, want, todo, receiver, ctrl_msg, wire, sysinfo, abort, bounds>>

(* The mutex is held from before the request is sent.                      *)
Lock ==
  /\ pc = "lock" /\ mutex = "free"
  /\ mutex' = "client"
  /\ pc' = "write"
  /\ UNCHANGED <<socketfd, want, todo, receiver, ctrl_msg, wire, sysinfo, abort, bounds>>

Write ==
  /\ pc = "write"
  /\ reqs' = Append(reqs, want)
  /\ pc' = "wait"
  /\ UNCHANGED <<socketfd, mutex, want, todo, receiver, ctrl_msg, net, sysinfo, abort, bounds>>

(* pthread_cond_timedwait gives up the mutex and waits, in one step ...    *)
BeginWait ==
  /\ pc = "wait"
  /\ mutex' = "free"
  /\ pc' = "cond"
  /\ UNCHANGED <<socketfd, want, todo, receiver, ctrl_msg, wire, sysinfo, abort, bounds>>

(* ... and returns with the mutex, signalled or timed out.                 *)
Wake ==
  /\ pc = "woken" /\ mutex = "free"
  /\ mutex' = "client"
  /\ pc' = "parse"
  /\ UNCHANGED <<socketfd, want, todo, receiver, ctrl_msg, wire, sysinfo, abort, bounds>>

Timeout ==
  /\ pc = "cond" /\ mutex = "free" /\ faults < MaxFaults
  /\ faults' = faults + 1
  /\ mutex' = "client"
  /\ IF want = "discover" THEN pc' = "idle" /\ UNCHANGED abort
                          ELSE abort' = TRUE /\ UNCHANGED pc
  /\ UNCHANGED <<socketfd, want, todo, receiver, ctrl_msg, wire, sysinfo, calls, traces>>

(* The answer is used; discovery goes on with the enumeration, under the   *)
(* same lock.                                                              *)
Parse ==
  /\ pc = "parse"
  /\ sysinfo' = IF want = "start" THEN sysinfo ELSE Append(IF want = "discover" THEN <<>> ELSE sysinfo, ctrl_msg)
  /\ IF todo = <<>> THEN pc' = "idle" /\ mutex' = "free" /\ UNCHANGED <<want, todo>>
     ELSE pc' = "write" /\ want' = Head(todo) /\ todo' = Tail(todo) /\ UNCHANGED mutex
  /\ UNCHANGED <<socketfd, receiver, ctrl_msg, wire, abort, bounds>>

-----------------------------------------------------------------------------
(* The simulation and the receive thread.                                  *)

Answer ==
  /\ reqs # <<>>
  /\ net' = Append(net, Head(reqs))
  /\ reqs' = Tail(reqs)
  /\ UNCHANGED <<socketfd, mutex, client, receiver, ctrl_msg, sysinfo, abort, bounds>>

Trace ==
  /\ socketfd /\ traces < MaxTraces
  /\ traces' = traces + 1
  /\ net' = Append(net, "trace")
  /\ UNCHANGED <<socketfd, mutex, client, receiver, ctrl_msg, reqs, sysinfo, abort, calls, faults>>

(* A trace message goes to the callback, an answer is to be stored.        *)
RxRead ==
  /\ rx = "read" /\ net # <<>>
  /\ msg' = Head(net)
  /\ net' = Tail(net)
  /\ rx' = IF Head(net) = "trace" THEN "read" ELSE "lock"
  /\ UNCHANGED <<socketfd, mutex, client, ctrl_msg, reqs, sysinfo, abort, bounds>>

RxLock ==
  /\ rx = "lock" /\ mutex = "free"
  /\ mutex' = "rx"
  /\ rx' = "store"
  /\ UNCHANGED <<socketfd, client, msg, ctrl_msg, wire, sysinfo, abort, bounds>>

RxStore ==
  /\ rx = "store"
  /\ ctrl_msg' = msg
  /\ pc' = IF pc = "cond" THEN "woken" ELSE pc
  /\ mutex' = "free"
  /\ rx' = IF socketfd THEN "read" ELSE "off"
  /\ UNCHANGED <<socketfd, want, todo, msg, wire, sysinfo, abort, bounds>>

Client == Lock \/ Write \/ BeginWait \/ Wake \/ Parse
Receive == RxRead \/ RxLock \/ RxStore

Next ==
  /\ ~abort
  /\ \/ Connect \/ Disconnect \/ CpuStart \/ DiscoverSystem
     \/ Client \/ Timeout \/ Receive \/ Answer \/ Trace

(* The threads are scheduled fairly and the simulation answers.            *)
Fairness == WF_vars(~abort /\ Client) /\ WF_vars(~abort /\ Receive) /\ WF_vars(~abort /\ Answer)

Spec == Init /\ [][Next]_vars /\ Fairness

-----------------------------------------------------------------------------
(* As long as nothing timed out, the client reads the answer to its own    *)
(* request, and what discovery stored are the answers to its two requests  *)
(* in their order.  (ob_simtcp_receive_thread, ob_simtcp_discover_system)  *)
AnswerIsMine ==
  faults = 0 =>
    /\ pc = "parse" => ctrl_msg = want
    /\ pc = "idle" => sysinfo \in {<<>>, <<"discover", "enumerate">>}

(* The wake-up for an answer is never lost: without timeouts every call    *)
(* returns.  (ob_simtcp_cpu_start, ob_simtcp_discover_system)              *)
SimCallsReturn == (pc # "idle") ~> (pc = "idle" \/ faults > 0)
=============================================================================
