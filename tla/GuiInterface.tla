---------------------------- MODULE GuiInterface ----------------------------
(***************************************************************************)
(* The link between the OpTiMSoC GUI and the target (optimsocgui:          *)
(* systeminterface.cpp, systeminterfaceworker.cpp and the views that use   *)
(* them).  The GUI thread queues commands for a worker thread; the worker  *)
(* holds m_octx_mutex while it runs one and answers with signals, which    *)
(* the GUI thread takes from its event queue one by one between the        *)
(* presses of the user.  What a button does and whether it is enabled      *)
(* depends on the last signal handled, not on the target.                  *)
(***************************************************************************)
EXTENDS Integers, Sequences

LOCAL INSTANCE SequencesExt

CONSTANTS
  Memories,
  MaxPresses,  \* bound on the user's actions
  MaxFaults    \* bound on failing calls of a connected backend

VARIABLES
  octx,                \* the context: its backend, open link, discovered system
  cpus,                \* the target's CPUs: started, stalled
  commands,            \* queue of the worker
  worker,              \* the command it runs, or <<>>
  signals,             \* events for the GUI thread
  m_connectionStatus, m_systemStatus,
  start, stall,        \* actionStartCpus and actionStallCpus enabled
  system,              \* a system was discovered
  upload,              \* memories still to write; <<>> when the UI is enabled
  listening,           \* the Memory object of the upload still exists
  abort,               \* an assertion or a NULL pointer ended the program
  rash,                \* history: "connect", "control" pressed on a stale display; "close" failed
  presses, faults

target == <<octx, cpus>>
view == <<m_connectionStatus, m_systemStatus, start, stall, system, upload, listening>>
bounds == <<presses, faults>>
vars == <<target, commands, worker, signals, view, abort, rash, bounds>>

Held == [started |-> FALSE, stalled |-> FALSE]

Init ==
  /\ octx = [backend |-> "none", conn |-> FALSE, known |-> FALSE] /\ cpus = Held
  /\ commands = <<>> /\ worker = <<>> /\ signals = <<>>
  /\ m_connectionStatus = "Disconnected" /\ m_systemStatus = "Unknown"
  /\ start = FALSE /\ stall = FALSE /\ system = FALSE
  /\ upload = <<>> /\ listening = FALSE
  /\ abort = FALSE /\ rash = {}
  /\ presses = 0 /\ faults = 0

Busy == commands # <<>> \/ worker # <<>> \/ signals # <<>>

-----------------------------------------------------------------------------
(* The user, in the GUI thread.                                            *)

Press == ~abort /\ presses < MaxPresses /\ presses' = presses + 1

Invoke(c) == commands' = Append(commands, c)

(* doConnect: configure frees the context, which a connected one refuses   *)
(* (it is lost then), makes a new one and queues the connect.              *)
DoConnect ==
  /\ Press
  /\ m_connectionStatus = "Disconnected" /\ worker = <<>>
  /\ \E b \in {"dbgnoc", "simtcp"} : octx' = [backend |-> b, conn |-> FALSE, known |-> FALSE]
  /\ Invoke(<<"connect">>)
  /\ rash' = IF Busy THEN rash \cup {"connect"} ELSE rash
  /\ UNCHANGED <<cpus, worker, signals, view, abort, faults>>

DoDisconnect ==
  /\ Press
  /\ m_connectionStatus = "Connected"
  /\ Invoke(<<"disconnect">>)
  /\ UNCHANGED <<target, worker, signals, view, abort, rash, faults>>

ResetSystem ==
  /\ Press
  /\ m_connectionStatus = "Connected"
  /\ Invoke(<<"reset">>)
  /\ UNCHANGED <<target, worker, signals, view, abort, rash, faults>>

(* The choice is made on the status as displayed.                          *)
StartCpus ==
  /\ Press
  /\ start /\ m_connectionStatus = "Connected"
  /\ Invoke(IF m_systemStatus = "Stalled" THEN <<"stall", FALSE>> ELSE <<"start">>)
  /\ rash' = IF Busy THEN rash \cup {"control"} ELSE rash
  /\ UNCHANGED <<target, worker, signals, view, abort, faults>>

StallCpus ==
  /\ Press
  /\ stall /\ m_connectionStatus = "Connected"
  /\ Invoke(<<"stall", TRUE>>)
  /\ rash' = IF Busy THEN rash \cup {"control"} ELSE rash
  /\ UNCHANGED <<target, worker, signals, view, abort, faults>>

(* writeMemory: the UI is disabled and the first memory written.           *)
WriteMemory ==
  /\ Press
  /\ m_connectionStatus = "Connected" /\ system /\ upload = <<>>
  /\ \E ms \in SUBSET Memories \ {{}} : upload' \in SetToSeqs(ms)
  /\ listening' = TRUE
  /\ Invoke(<<"write", Head(upload')>>)
  /\ UNCHANGED <<target, worker, signals, m_connectionStatus, m_systemStatus, start, stall, system,
                 abort, rash, faults>>

-----------------------------------------------------------------------------
(* The GUI thread handles a signal of the worker.                          *)

(* workerConnectionStatusChanged, showConnectionStatus and, on a           *)
(* connection, systemDiscovered: the Memory objects of the old system go.  *)
ConnectionStatusChanged(s) ==
  /\ s # m_connectionStatus
  /\ s = "Connected" => worker = <<>>
  /\ m_connectionStatus' = s
  /\ IF s \in {"Disconnected", "Disconnecting"}
     THEN start' = FALSE /\ stall' = FALSE
     ELSE UNCHANGED <<start, stall>>
  /\ IF s = "Connected" /\ octx.known
     THEN system' = TRUE /\ listening' = FALSE
     ELSE UNCHANGED <<system, listening>>
  /\ UNCHANGED <<m_systemStatus, upload, commands>>

(* workerSystemStatusChanged and showSystemStatus.                         *)
SystemStatusChanged(s) ==
  /\ s # m_systemStatus
  /\ m_systemStatus' = s
  /\ start' = (s # "Running") /\ stall' = (s = "Running")
  /\ UNCHANGED <<m_connectionStatus, system, upload, listening, commands>>

(* writeNextMemory: the upload ends with a failure or the last memory;     *)
(* the next write is dropped without a word when no longer connected.      *)
MemoryWriteFinished(m, ok) ==
  /\ upload # <<>> /\ listening /\ Head(upload) = m
  /\ upload' = IF ok THEN Tail(upload) ELSE <<>>
  /\ listening' = (upload' # <<>>)
  /\ IF upload' # <<>> /\ m_connectionStatus = "Connected"
     THEN Invoke(<<"write", Head(upload')>>)
     ELSE UNCHANGED commands
  /\ UNCHANGED <<m_connectionStatus, m_systemStatus, start, stall, system>>

Ignored(s) ==
  /\ \/ s[1] = "conn" /\ s[2] = m_connectionStatus
     \/ s[1] = "sys" /\ s[2] = m_systemStatus
     \/ s[1] = "finished" /\ (upload = <<>> \/ ~listening \/ Head(upload) # s[2])
  /\ UNCHANGED <<view, commands>>

HandleSignal ==
  /\ ~abort /\ signals # <<>>
  /\ LET s == Head(signals) IN
       \/ s[1] = "conn" /\ ConnectionStatusChanged(s[2])
       \/ s[1] = "sys" /\ SystemStatusChanged(s[2])
       \/ s[1] = "finished" /\ MemoryWriteFinished(s[2], s[3])
       \/ Ignored(s)
  /\ signals' = Tail(signals)
  /\ UNCHANGED <<target, worker, abort, rash, bounds>>

-----------------------------------------------------------------------------
(* The worker thread.                                                      *)

Conn(s) == <<"conn", s>>
Sys(s) == <<"sys", s>>

(* It takes a command and the mutex; the two calls that change the link    *)
(* announce themselves.                                                    *)
Take ==
  /\ ~abort /\ worker = <<>> /\ commands # <<>>
  /\ worker' = Head(commands) /\ commands' = Tail(commands)
  /\ signals' = CASE worker'[1] = "connect" -> Append(signals, Conn("Connecting"))
                  [] worker'[1] = "disconnect" -> Append(signals, Conn("Disconnecting"))
                  [] OTHER -> signals
  /\ UNCHANGED <<target, view, abort, rash, bounds>>

(* The call of the library returns and the worker emits its signals.       *)
Return(ss) ==
  /\ signals' = signals \o ss
  /\ worker' = <<>>
  /\ UNCHANGED <<commands, view, abort, presses>>

Fault == faults < MaxFaults /\ faults' = faults + 1

(* connectToSystem: the target comes up reset; a failed discovery leaves   *)
(* the link open.                                                          *)
Connect ==
  /\ ~abort /\ worker = <<"connect">>
  /\ \/ /\ octx' = [octx EXCEPT !.conn = TRUE, !.known = TRUE]
        /\ cpus' = Held
        /\ Return(<<Sys("Ready"), Conn("Connected")>>)
        /\ UNCHANGED faults
     \/ /\ Fault
        /\ octx' \in {octx, [octx EXCEPT !.conn = TRUE]}
        /\ cpus' = IF octx'.conn THEN Held ELSE cpus
        /\ Return(<<Conn("Disconnected")>>)
  /\ UNCHANGED rash

(* The signals come in the wrong order.                                    *)
Disconnect_StatusLast ==
  /\ ~abort /\ worker = <<"disconnect">>
  /\ \/ /\ octx.conn \/ octx.backend = "dbgnoc"
        /\ octx' = [octx EXCEPT !.conn = FALSE]
        /\ Return(<<Conn("Disconnected"), Sys("Unknown")>>)
        /\ UNCHANGED <<rash, faults>>
     \/ /\ IF octx.conn THEN Fault ELSE UNCHANGED faults
        /\ octx' \in {octx, [octx EXCEPT !.conn = FALSE]}
        /\ Return(<<Conn("Connected")>>)
        /\ rash' = rash \cup {"close"}
  /\ UNCHANGED cpus

(* disconnectFromSystem: closing the socket of simtcp twice always fails.  *)
Disconnect ==
  /\ ~abort /\ worker = <<"disconnect">>
  /\ \/ /\ octx.conn \/ octx.backend = "dbgnoc"
        /\ octx' = [octx EXCEPT !.conn = FALSE]
        /\ Return(<<Sys("Unknown"), Conn("Disconnected")>>)
        /\ UNCHANGED <<rash, faults>>
     \/ /\ IF octx.conn THEN Fault ELSE UNCHANGED faults
        /\ octx' \in {octx, [octx EXCEPT !.conn = FALSE]}
        /\ Return(<<Conn("Connected")>>)
        /\ rash' = rash \cup {"close"}
  /\ UNCHANGED cpus

(* What the three control calls do to the CPUs and the status they emit.   *)
Controlled ==
  CASE worker[1] = "reset" -> Held
    [] worker[1] = "start" -> [cpus EXCEPT !.started = TRUE]
    [] worker[1] = "stall" -> [cpus EXCEPT !.stalled = worker[2]]

Emitted ==
  CASE worker[1] = "reset" -> "Ready"
    [] worker[1] = "start" -> "Running"
    [] worker[1] = "stall" -> IF worker[2] THEN "Stalled" ELSE "Running"

(* resetSystem, startCpus, stallCpus: a failure is only logged; simtcp     *)
(* cannot stall, and asserts that its requests go out.                     *)
Control ==
  /\ ~abort /\ worker # <<>> /\ worker[1] \in {"reset", "start", "stall"}
  /\ \/ /\ octx.conn
        /\ octx.backend = "simtcp" => worker[1] # "stall"
        /\ cpus' = Controlled
        /\ Return(<<Sys(Emitted)>>)
        /\ UNCHANGED faults
     \/ /\ octx.backend = "simtcp" => worker[1] = "stall"
        /\ IF octx.conn /\ octx.backend = "dbgnoc" THEN Fault ELSE UNCHANGED faults
        /\ Return(<<>>)
        /\ UNCHANGED cpus
     \/ /\ ~octx.conn /\ octx.backend = "simtcp" /\ worker[1] # "stall"
        /\ abort' = TRUE
        /\ UNCHANGED <<cpus, signals, worker, commands, view, bounds>>
  /\ UNCHANGED <<octx, rash>>

(* writeToMemory reports success and failure; simtcp cannot write, and     *)
(* the memory is looked up in a system that must have been discovered.     *)
Write ==
  /\ ~abort /\ worker # <<>> /\ worker[1] = "write"
  /\ \/ /\ octx.conn /\ octx.backend = "dbgnoc"
        /\ Return(<<<<"finished", worker[2], TRUE>>>>)
        /\ UNCHANGED faults
     \/ /\ octx.backend = "dbgnoc" => octx.known
        /\ IF octx.conn /\ octx.backend = "dbgnoc" THEN Fault ELSE UNCHANGED faults
        /\ Return(<<<<"finished", worker[2], FALSE>>>>)
     \/ /\ octx.backend = "dbgnoc" /\ ~octx.known
        /\ abort' = TRUE
        /\ UNCHANGED <<signals, worker, commands, view, bounds>>
  /\ UNCHANGED <<target, rash>>

User == DoConnect \/ DoDisconnect \/ ResetSystem \/ StartCpus \/ StallCpus \/ WriteMemory
Worker == Take \/ Connect \/ Disconnect \/ Control \/ Write

Next == User \/ HandleSignal \/ Worker

(* Both threads run; the user need not press anything.                     *)
Fairness == WF_vars(HandleSignal) /\ WF_vars(Worker)

Spec == Init /\ [][Next]_vars /\ Fairness

-----------------------------------------------------------------------------
(* When everything is handled the display is true: it shows a final        *)
(* status, Connected only with an open link, no CPU can be controlled      *)
(* without one, and unless a control was pressed on a stale display the    *)
(* system status is that of the CPUs and the right button is enabled.      *)
(* The failed disconnect and the Connect pressed on a stale display are    *)
(* left out: the code does not recover from them.                          *)
(* (workerConnectionStatusChanged, showConnectionStatus, showSystemStatus) *)
DisplayTrue ==
  ~Busy /\ ~abort /\ "close" \notin rash =>
    /\ m_connectionStatus \in {"Connected", "Disconnected"}
    /\ m_connectionStatus = "Connected" => octx.conn
    /\ m_connectionStatus = "Disconnected" /\ "connect" \notin rash => ~start /\ ~stall
    /\ m_connectionStatus = "Connected" /\ "connect" \notin rash =>
         /\ start = ~stall
         /\ stall = (m_systemStatus = "Running")
         /\ "control" \notin rash =>
              m_systemStatus = CASE ~cpus.started -> "Ready"
                                 [] cpus.started /\ cpus.stalled -> "Stalled"
                                 [] OTHER -> "Running"

(* An upload ends and gives the UI back, whatever the user presses         *)
(* meanwhile, with the same exceptions.  (writeNextMemory, writeToMemory)  *)
UploadEnds ==
  upload # <<>> ~> (upload = <<>> \/ abort \/ rash \cap {"close", "connect"} # {})
=============================================================================
