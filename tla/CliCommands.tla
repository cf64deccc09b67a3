---------------------------- MODULE CliCommands -----------------------------
(***************************************************************************)
(* The interactive mode of optimsoc_cli (tools/optimsoc_cli.c) over the    *)
(* library's context (liboptimsochost.c): options, connecting, the         *)
(* commands of the user and leaving, while the receive thread writes the   *)
(* trace records that come in to the files the commands have opened.       *)
(* A command is its name and its arguments; an argument is a number, a     *)
(* range of numbers or a word, and a file that opens or does not.          *)
(***************************************************************************)
EXTENDS Integers, Sequences

LOCAL INSTANCE FiniteSetsExt
LOCAL INSTANCE SequencesExt

CONSTANTS
  Modules,      \* the debug modules: sequence of [type, core]
  Commands,     \* the lines the user may enter: [name, args]
  MaxCommands,  \* bound on the commands entered
  MaxRecords,   \* bound on the records of each core
  MaxFaults     \* bound on the calls that fail

NULL == 0
Cores == {Modules[k].core : k \in DOMAIN Modules}

VARIABLES
  pc,           \* what main does: "options", a call of connect, "read" a command, a command, "exit", "crash"
  mode,         \* "none", "interactive", "script" or "auto"
  backend,      \* "dbgnoc" or "simtcp"
  ctx,          \* "none", "created", "connected", "disconnected" or "freed"
  max_core_id,
  module,       \* modules looked at by connect
  cmd,          \* the command being executed
  itm_sinks,    \* per core: the sink, or NoSink
  nrm_stat_file, stm_trace_file,
  itm_callback_registered,
  cbs,          \* callbacks known to the backend: subset of {"itm", "nrm", "stm"}
  errno,        \* errno is set
  stalled,      \* the CPUs are stalled
  made,         \* memories the last mem_init has initialised
  files,        \* files opened so far: sequence of [core, from, to, recs, open]
  dis,          \* disassemblies in memory
  twice,        \* something was closed or freed twice
  arrived,      \* per core: records received
  reckless,     \* a trace was opened while records come, or not at all, or something unknown was met
  commands, faults

link == <<mode, backend>>
sinks == <<itm_sinks, nrm_stat_file, stm_trace_file, itm_callback_registered, cbs>>
memory == <<files, dis, twice>>
bounds == <<commands, faults>>
vars == <<pc, link, ctx, max_core_id, module, cmd, sinks, errno, stalled, made, memory, arrived,
          reckless, bounds>>

NoSink == [trace_file |-> NULL, add_disassembly |-> FALSE, dis |-> NULL, dis_instr_count |-> 0, used |-> FALSE]
NoCommand == [name |-> "", args |-> <<>>]

Init ==
  /\ pc = "options" /\ mode = "none" /\ backend = "dbgnoc"
  /\ ctx = "none" /\ max_core_id = 0 /\ module = 0 /\ cmd = NoCommand
  /\ itm_sinks = [c \in Cores |-> NoSink]
  /\ nrm_stat_file = NULL /\ stm_trace_file = NULL
  /\ itm_callback_registered = FALSE /\ cbs = {}
  /\ errno = FALSE /\ stalled = FALSE /\ made = {}
  /\ files = <<>> /\ dis = {} /\ twice = FALSE
  /\ arrived = [c \in Cores |-> 0] /\ reckless = FALSE
  /\ commands = 0 /\ faults = 0

-----------------------------------------------------------------------------
(* Calls of the library go through to the backend; the simulation has only *)
(* some of them.                                                           *)

Supported(call) ==
  backend = "simtcp" =>
    call \notin {"cpu_stall", "cpu_reset", "mem_write", "mem_init", "nrm_set_sample_interval",
                 "read_clkstats", "itm_refresh_config"}

Succeeds(call) == Supported(call) /\ UNCHANGED faults

Fails(call) ==
  \/ ~Supported(call) /\ UNCHANGED faults
  \/ Supported(call) /\ faults < MaxFaults /\ faults' = faults + 1

(* The simulation has no other modules than STMs, one per core.            *)
Listed == IF backend = "simtcp" THEN SelectSeq(Modules, LAMBDA m : m.type = "STM") ELSE Modules

-----------------------------------------------------------------------------
(* main: the options, then connect.                                        *)

(* The modes exclude each other in this order; -h and -v end the program.  *)
Options ==
  /\ pc = "options"
  /\ \/ /\ \E interactive, script, auto \in BOOLEAN :
             mode' = CASE auto -> "auto"
                       [] ~auto /\ interactive -> "interactive"
                       [] ~auto /\ ~interactive /\ script -> "script"
                       [] OTHER -> "none"
        /\ backend' \in {"dbgnoc", "simtcp"}
        /\ pc' = "optimsoc_new"
     \/ pc' = "exit" /\ UNCHANGED link
  /\ UNCHANGED <<ctx, max_core_id, module, cmd, sinks, errno, stalled, made, memory, arrived, reckless, bounds>>

(* optimsoc_new, optimsoc_connect, optimsoc_reset and                      *)
(* optimsoc_discover_system, in this order; the program ends at the first  *)
(* that fails, with the target still connected.                            *)
Connecting ==
  <<[pc |-> "optimsoc_new", ctx |-> "created", then |-> "optimsoc_connect"],
    [pc |-> "optimsoc_connect", ctx |-> "connected", then |-> "optimsoc_reset"],
    [pc |-> "optimsoc_reset", ctx |-> "connected", then |-> "optimsoc_discover_system"],
    [pc |-> "optimsoc_discover_system", ctx |-> "connected", then |-> "modules"]>>

Connect ==
  \E k \in DOMAIN Connecting :
    LET c == Connecting[k] IN
    /\ pc = c.pc
    /\ \/ Succeeds(c.pc) /\ ctx' = c.ctx /\ pc' = c.then
       \/ Fails(c.pc) /\ pc' = "exit" /\ UNCHANGED ctx
    /\ UNCHANGED <<link, max_core_id, module, cmd, sinks, errno, stalled, made, memory, arrived,
                   reckless, commands>>

(* optimsoc_itm_get_config, optimsoc_stm_get_config: a configuration that  *)
(* could not be read is a null pointer, which is followed; the simulation  *)
(* takes the address of an STM for its core.                               *)
GetConfig ==
  /\ pc = "modules" /\ module < Len(Listed)
  /\ module' = module + 1
  /\ LET m == Listed[module + 1]
         call == IF m.type = "ITM" THEN "itm_refresh_config" ELSE "stm_refresh_config"
         id == IF backend = "simtcp" THEN module ELSE m.core
     IN  IF m.type \notin {"ITM", "STM"}
         THEN UNCHANGED <<pc, max_core_id, reckless, faults>>
         ELSE \/ /\ Succeeds(call)
                 /\ max_core_id' = Max({max_core_id, id})
                 /\ UNCHANGED <<pc, reckless>>
              \/ Fails(call) /\ pc' = "crash" /\ reckless' = TRUE /\ UNCHANGED max_core_id
  /\ UNCHANGED <<link, ctx, cmd, sinks, errno, stalled, made, memory, arrived, commands>>

(* optimsoc_get_modules is through; the program goes on in its mode.       *)
Connected ==
  /\ pc = "modules" /\ module = Len(Listed)
  /\ pc' = CASE mode = "interactive" -> "read" [] mode = "auto" -> "auto" [] OTHER -> "exit"
  /\ UNCHANGED <<link, ctx, max_core_id, module, cmd, sinks, errno, stalled, made, memory, arrived,
                 reckless, bounds>>

-----------------------------------------------------------------------------
(* Arguments, as strtok and strtol see them.                               *)

(* strtol takes the digits in front.                                       *)
IsNumber(a) == a.kind \in {"number", "range"}
Number(a) == IF a.kind = "range" THEN a.lo ELSE a.n

(* The memories mem_init takes from its argument; none if it refuses it.   *)
(* The two ends of a range are parsed without resetting errno.             *)
MemoryIds(a) ==
  CASE a.kind = "number" -> {a.n}
    [] a.kind = "range" /\ ~errno /\ a.hi >= a.lo -> a.lo .. a.hi
    [] OTHER -> {}

(* The command is complete; otherwise the help is shown.  exec looks for   *)
(* the script of the command line, which the interactive mode has not.     *)
Complete(c) ==
  LET a == c.args IN
  CASE c.name \in {"log_stm_trace", "log_noc_stats"} -> Len(a) >= 1
    [] c.name = "log_raw_instruction_trace" -> Len(a) >= 2 /\ IsNumber(a[1])
    [] c.name = "log_dis_instruction_trace" -> Len(a) >= 3 /\ IsNumber(a[1])
    [] c.name = "mem_write" -> Len(a) >= 2 /\ IsNumber(a[2]) /\ (Len(a) >= 3 => IsNumber(a[3]))
    [] c.name = "mem_init" -> Len(a) >= 2 /\ MemoryIds(a[2]) # {}
    [] c.name = "nrm_set_sample_interval" -> Len(a) >= 1 /\ IsNumber(a[1])
    [] c.name = "exec" -> FALSE
    [] OTHER -> c.name \in {"start", "cpureset", "reset", "clkstat", "quit"}

(* errno is reset before most numbers are parsed.                          *)
ErrnoAfter(c) ==
  LET a == c.args IN
  CASE c.name \in {"log_raw_instruction_trace", "log_dis_instruction_trace", "nrm_set_sample_interval"} ->
         errno /\ Len(a) = 0
    [] c.name = "mem_write" -> errno /\ Len(a) < 2
    [] c.name = "mem_init" -> errno /\ ~(Len(a) >= 2 /\ a[2].kind = "number")
    [] OTHER -> errno

(* A line is read; what is incomplete or unknown has no effect.  The trace *)
(* commands have a core the system has.                                    *)
ReadLine ==
  /\ pc = "read" /\ commands < MaxCommands
  /\ commands' = commands + 1
  /\ \E c \in Commands :
       /\ errno' = ErrnoAfter(c)
       /\ cmd' = c
       /\ pc' = IF Complete(c) THEN c.name ELSE "read"
       /\ made' = {}
  /\ UNCHANGED <<link, ctx, max_core_id, module, sinks, stalled, memory, arrived, reckless, faults>>

-----------------------------------------------------------------------------
(* Commands that only call the library.                                    *)

(* start, cpureset, reset, nrm_set_sample_interval: the result is ignored. *)
Call(call) ==
  /\ pc = call
  /\ Succeeds(call) \/ Fails(call)
  /\ pc' = "read"
  /\ UNCHANGED <<link, ctx, max_core_id, module, cmd, sinks, errno, stalled, made, memory, arrived,
                 reckless, commands>>

(* mem_write: the file is read, then written; a file that cannot be found  *)
(* sets errno.                                                             *)
MemWrite ==
  /\ pc = "mem_write"
  /\ IF cmd.args[1].exists
     THEN (Succeeds("mem_write") \/ Fails("mem_write")) /\ UNCHANGED errno
     ELSE errno' = TRUE /\ UNCHANGED faults
  /\ pc' = "read"
  /\ UNCHANGED <<link, ctx, max_core_id, module, cmd, sinks, stalled, made, memory, arrived,
                 reckless, commands>>

(* mem_init: a call that fails leaves the CPUs stalled.                    *)
MemInit ==
  /\ pc = "mem_init"
  /\ \/ /\ ~cmd.args[1].exists
        /\ errno' = TRUE
        /\ UNCHANGED <<made, stalled, faults>>
     \/ /\ cmd.args[1].exists
        /\ \/ Succeeds("mem_init") /\ made' = MemoryIds(cmd.args[2]) /\ stalled' = FALSE
           \/ Fails("mem_init") /\ stalled' = Supported("mem_init") /\ UNCHANGED made
        /\ UNCHANGED errno
  /\ pc' = "read"
  /\ UNCHANGED <<link, ctx, max_core_id, module, cmd, sinks, memory, arrived, reckless, commands>>

(* display_clkstat: the CPUs are stalled, the registers read, the CPUs go  *)
(* on; if the registers cannot be read they do not.                        *)
ClkStall ==
  /\ pc = "clkstat"
  /\ \/ Succeeds("cpu_stall") /\ stalled' = TRUE
     \/ Fails("cpu_stall") /\ UNCHANGED stalled
  /\ pc' = "clkstat_read"
  /\ UNCHANGED <<link, ctx, max_core_id, module, cmd, sinks, errno, made, memory, arrived, reckless, commands>>

ClkRead ==
  /\ pc = "clkstat_read"
  /\ \/ Succeeds("read_clkstats") /\ pc' = "clkstat_go"
     \/ Fails("read_clkstats") /\ pc' = "read"
  /\ UNCHANGED <<link, ctx, max_core_id, module, cmd, sinks, errno, stalled, made, memory, arrived,
                 reckless, commands>>

ClkGo ==
  /\ pc = "clkstat_go"
  /\ \/ Succeeds("cpu_stall") /\ stalled' = FALSE
     \/ Fails("cpu_stall") /\ UNCHANGED stalled
  /\ pc' = "read"
  /\ UNCHANGED <<link, ctx, max_core_id, module, cmd, sinks, errno, made, memory, arrived, reckless, commands>>

-----------------------------------------------------------------------------
(* Files and disassemblies.                                                *)

(* fclose of a set of files.                                               *)
Closed(fs) ==
  [f \in DOMAIN files |->
     IF f \in fs THEN [files[f] EXCEPT !.open = FALSE, !.to = arrived[files[f].core]] ELSE files[f]]

CloseTwice(fs) == \E f \in fs : ~files[f].open

Opened(c) == [core |-> c, from |-> arrived[c], to |-> -1, recs |-> <<>>, raw |-> TRUE, open |-> TRUE]

(* free_disassembly: with no instructions counted nothing is freed.        *)
Freed(s) == IF s.dis # NULL /\ s.dis_instr_count > 0 THEN {s.dis} ELSE {}

(* The count of the old disassembly stays.                                 *)
ReuseSink_KeepsCount ==
  /\ pc \in {"log_raw_instruction_trace", "log_dis_instruction_trace"}
  /\ LET c == Number(cmd.args[1])
         s == itm_sinks[c]
         fs == {s.trace_file} \ {NULL}
     IN  /\ files' = Closed(fs)
         /\ dis' = dis \ Freed(s)
         /\ twice' = (twice \/ CloseTwice(fs) \/ ~(Freed(s) \subseteq dis))
         /\ itm_sinks' = [itm_sinks EXCEPT ![c] = [s EXCEPT !.trace_file = NULL, !.used = TRUE]]
         /\ reckless' = (reckless \/ "itm" \in cbs)
  /\ pc' = "open"
  /\ UNCHANGED <<link, ctx, max_core_id, module, cmd, nrm_stat_file, stm_trace_file,
                 itm_callback_registered, cbs, errno, stalled, made, arrived, bounds>>

(* register_itm_trace: a new sink, or the old one with its file closed and *)
(* its disassembly freed.                                                  *)
ReuseSink ==
  /\ pc \in {"log_raw_instruction_trace", "log_dis_instruction_trace"}
  /\ LET c == Number(cmd.args[1])
         s == itm_sinks[c]
         fs == {s.trace_file} \ {NULL}
     IN  /\ files' = Closed(fs)
         /\ dis' = dis \ Freed(s)
         /\ twice' = (twice \/ CloseTwice(fs) \/ ~(Freed(s) \subseteq dis))
         /\ itm_sinks' = [itm_sinks EXCEPT ![c] =
                            [s EXCEPT !.trace_file = NULL, !.dis_instr_count = 0, !.used = TRUE]]
         /\ reckless' = (reckless \/ "itm" \in cbs)
  /\ pc' = "open"
  /\ UNCHANGED <<link, ctx, max_core_id, module, cmd, nrm_stat_file, stm_trace_file,
                 itm_callback_registered, cbs, errno, stalled, made, arrived, bounds>>

(* new_disassembly: it is there, or an error leaves the sink's as it was.  *)
Disassembled(s, ok) ==
  LET new == Len(files) + 1 IN
  CASE cmd.name = "log_raw_instruction_trace" ->
         [s EXCEPT !.add_disassembly = FALSE, !.dis = NULL, !.dis_instr_count = 0]
    [] cmd.name = "log_dis_instruction_trace" /\ ok ->
         [s EXCEPT !.add_disassembly = TRUE, !.dis = new, !.dis_instr_count = 1]
    [] OTHER -> [s EXCEPT !.add_disassembly = FALSE]

(* The trace file is opened, the disassembly made and the callback         *)
(* registered once; without the file the sink stays, without it.           *)
RegisterItmTrace ==
  /\ pc = "open"
  /\ LET c == Number(cmd.args[1])
         new == Len(files) + 1
         s == itm_sinks[c]
     IN  IF cmd.args[Len(cmd.args)].exists
         THEN \E ok \in BOOLEAN :
                LET t == Disassembled([s EXCEPT !.trace_file = new], ok) IN
                /\ itm_sinks' = [itm_sinks EXCEPT ![c] = t]
                /\ files' = Append(files, [Opened(c) EXCEPT !.raw = ~t.add_disassembly])
                /\ dis' = IF t.dis = new THEN dis \cup {new} ELSE dis
                /\ itm_callback_registered' = TRUE
                /\ cbs' = IF itm_callback_registered \/ backend = "simtcp" THEN cbs ELSE cbs \cup {"itm"}
                /\ UNCHANGED <<errno, reckless>>
         ELSE /\ errno' = TRUE
              /\ reckless' = TRUE
              /\ UNCHANGED <<itm_sinks, files, dis, itm_callback_registered, cbs>>
  /\ pc' = "read"
  /\ UNCHANGED <<link, ctx, max_core_id, module, cmd, nrm_stat_file, stm_trace_file, stalled, made,
                 twice, arrived, bounds>>

(* log_stm_trace and log_noc_stats: the old file is closed, the new one    *)
(* opened and the callback registered.                                     *)
Reopen(old, callback) ==
  LET fs == {old} \ {NULL} IN
  /\ twice' = (twice \/ CloseTwice(fs))
  /\ IF cmd.args[1].exists
     THEN /\ files' = Append(Closed(fs), [Opened(Min(Cores)) EXCEPT !.raw = FALSE])
          /\ cbs' = IF callback = "nrm" /\ backend = "simtcp" THEN cbs ELSE cbs \cup {callback}
          /\ UNCHANGED <<errno, reckless>>
     ELSE /\ files' = Closed(fs)
          /\ errno' = TRUE
          /\ reckless' = TRUE
          /\ UNCHANGED cbs

LogStmTrace ==
  /\ pc = "log_stm_trace"
  /\ Reopen(stm_trace_file, "stm")
  /\ stm_trace_file' = IF cmd.args[1].exists THEN Len(files) + 1 ELSE NULL
  /\ pc' = "read"
  /\ UNCHANGED <<link, ctx, max_core_id, module, cmd, itm_sinks, nrm_stat_file,
                 itm_callback_registered, stalled, made, dis, arrived, bounds>>

LogNocStats ==
  /\ pc = "log_noc_stats"
  /\ Reopen(nrm_stat_file, "nrm")
  /\ nrm_stat_file' = IF cmd.args[1].exists THEN Len(files) + 1 ELSE NULL
  /\ pc' = "read"
  /\ UNCHANGED <<link, ctx, max_core_id, module, cmd, itm_sinks, stm_trace_file,
                 itm_callback_registered, stalled, made, dis, arrived, bounds>>

-----------------------------------------------------------------------------
(* The receive thread.                                                     *)

(* write_itm_trace_to_file: the highest core is left out; a record outside *)
(* of the disassembly is dropped, one in a hole of it ends the program, as *)
(* does one for a sink without a file.                                     *)
WriteItmTrace(c) ==
  /\ ctx = "connected" /\ pc \notin {"exit", "crash", "auto"} /\ arrived[c] < MaxRecords
  /\ arrived' = [arrived EXCEPT ![c] = @ + 1]
  /\ LET s == itm_sinks[c]
         Written == files' = [files EXCEPT ![s.trace_file].recs = Append(@, arrived[c] + 1)]
     IN  CASE "itm" \notin cbs \/ c >= max_core_id \/ ~s.used -> UNCHANGED <<files, pc, reckless>>
           [] "itm" \in cbs /\ c < max_core_id /\ s.used /\ s.trace_file = NULL ->
                pc' = "crash" /\ UNCHANGED <<files, reckless>>
           [] "itm" \in cbs /\ c < max_core_id /\ s.used /\ s.trace_file # NULL ->
                \/ Written /\ UNCHANGED <<pc, reckless>>
                \/ s.add_disassembly /\ UNCHANGED <<files, pc, reckless>>
                \/ s.add_disassembly /\ pc' = "crash" /\ reckless' = TRUE /\ UNCHANGED files
  /\ UNCHANGED <<link, ctx, max_core_id, module, cmd, sinks, errno, stalled, made, dis, twice, bounds>>

(* write_noc_stats_to_file, write_stm_trace_to_file: the file is written   *)
(* without a look whether it is open.                                      *)
WriteTrace(callback, file) ==
  /\ ctx = "connected" /\ pc \notin {"exit", "crash", "auto"}
  /\ callback \in cbs /\ file = NULL
  /\ pc' = "crash"
  /\ UNCHANGED <<link, ctx, max_core_id, module, cmd, sinks, errno, stalled, made, memory, arrived,
                 reckless, bounds>>

-----------------------------------------------------------------------------
(* disconnect, on quit or on SIGINT.                                       *)

(* optimsoc_disconnect, then optimsoc_free, which refuses a context that   *)
(* is connected.  After an error nothing is cleaned up.                    *)
Quit ==
  /\ pc = "quit"
  /\ \/ Succeeds("disconnect") /\ ctx' = "disconnected" /\ pc' = "free"
     \/ Fails("disconnect") /\ pc' = "exit" /\ UNCHANGED ctx
  /\ UNCHANGED <<link, max_core_id, module, cmd, sinks, errno, stalled, made, memory, arrived,
                 reckless, commands>>

(* SIGINT while the program waits for a command.                           *)
Sighandler ==
  /\ pc = "read"
  /\ pc' = "quit"
  /\ UNCHANGED <<link, ctx, max_core_id, module, cmd, sinks, errno, stalled, made, memory, arrived,
                 reckless, bounds>>

OptimsocFree ==
  /\ pc = "free" /\ ctx # "connected"
  /\ ctx' = "freed"
  /\ pc' = "close"
  /\ UNCHANGED <<link, max_core_id, module, cmd, sinks, errno, stalled, made, memory, arrived,
                 reckless, bounds>>

(* Files are closed, disassemblies and sinks freed.                        *)
Disconnect ==
  /\ pc = "close"
  /\ LET all == {itm_sinks[c] : c \in Cores}
         fs == ({nrm_stat_file, stm_trace_file} \cup {s.trace_file : s \in all}) \ {NULL}
         ds == UNION {Freed(s) : s \in all}
     IN  /\ files' = Closed(fs)
         /\ dis' = dis \ ds
         /\ twice' = (twice \/ CloseTwice(fs) \/ ~(ds \subseteq dis))
  /\ itm_sinks' = [c \in Cores |-> NoSink]
  /\ nrm_stat_file' = NULL /\ stm_trace_file' = NULL
  /\ pc' = "exit"
  /\ UNCHANGED <<link, ctx, max_core_id, module, cmd, itm_callback_registered, cbs, errno, stalled,
                 made, arrived, reckless, bounds>>

Command ==
  \/ \E call \in {"start", "cpureset", "reset", "nrm_set_sample_interval"} : Call(call)
  \/ MemWrite \/ MemInit \/ ClkStall \/ ClkRead \/ ClkGo
  \/ ReuseSink \/ RegisterItmTrace \/ LogStmTrace \/ LogNocStats

Receive ==
  \/ \E c \in Cores : WriteItmTrace(c)
  \/ WriteTrace("nrm", nrm_stat_file)
  \/ WriteTrace("stm", stm_trace_file)

Leave == Quit \/ Sighandler \/ OptimsocFree \/ Disconnect

Next == Options \/ Connect \/ GetConfig \/ Connected \/ ReadLine \/ Command \/ Receive \/ Leave

Spec == Init /\ [][Next]_vars

-----------------------------------------------------------------------------
(* The files in use: those the sinks and the two logs hold.                *)
Held ==
  ({nrm_stat_file, stm_trace_file} \cup {itm_sinks[c].trace_file : c \in Cores}) \ {NULL}

(* Whatever traces are opened, reopened, refused and left: every open file *)
(* is held and every held one open, nothing is closed or freed twice, and  *)
(* after quitting all are closed; a raw trace holds exactly the records of *)
(* its core from its opening to its end.  The program only crashes after a *)
(* trace was opened while records come or was not opened, or on code       *)
(* without disassembly or a module without configuration.                  *)
(* (register_itm_trace, log_noc_stats, write_itm_trace_to_file, disconnect)*)
TraceFilesTrue ==
  /\ ~twice
  /\ {f \in DOMAIN files : files[f].open} = Held
  /\ ctx = "freed" /\ pc = "exit" => Held = {} /\ \A c \in Cores : ~itm_sinks[c].used
  /\ \A f \in DOMAIN files :
       files[f].raw /\ files[f].core < max_core_id /\ "itm" \in cbs =>
         LET end == IF files[f].open THEN arrived[files[f].core] ELSE files[f].to
         IN  files[f].recs = [k \in 1 .. end - files[f].from |-> files[f].from + k]
  /\ pc = "crash" => reckless

(* A complete mem_init that succeeds reaches exactly the memories of its   *)
(* line, unless a command before it has left errno behind; the CPUs are    *)
(* only left stalled by a call that failed.  (main, mem_init,              *)
(* display_clkstat)                                                        *)
CommandsHonoured ==
  /\ pc = "read" /\ cmd.name = "mem_init" /\ ~errno /\ faults = 0 /\ backend = "dbgnoc" =>
       made = IF Len(cmd.args) < 2 THEN {}
              ELSE CASE cmd.args[2].kind = "number" -> {cmd.args[2].n}
                     [] cmd.args[2].kind = "range" -> cmd.args[2].lo .. cmd.args[2].hi
                     [] OTHER -> {}
  /\ pc = "read" /\ stalled => faults > 0
=============================================================================
