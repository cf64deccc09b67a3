-------------------------------- MODULE MCHost --------------------------------
(* The host software on small instances, each part by itself: a behaviour  *)
(* picks one part and runs only that one.                                  *)
EXTENDS DbgnocRead, TLC

VARIABLE part

(* The target has three debug modules behind the TCM.                      *)
ThreeModules == <<"ITM", "NCM", "MAM">>

(* Blocks of four words, NCM packets of one 32 bit flit, four packets.     *)
VARIABLES stream, buffer_rx, read_pos, mode, ssent, got
streamvars == <<stream, buffer_rx, read_pos, mode, ssent, got>>
Stream == INSTANCE DbgnocStream WITH
  NUM_SAMPLES_PER_TRANSFER <- 4, NCM_MAX_LISNOC32_FLITS_PER_PKG <- 1, MaxPackets <- 4, sent <- ssent

(* The simulation backend: four calls, a trace message, a timeout.         *)
VARIABLES socketfd, mutex, tpc, want, todo, trx, msg, ctrl_msg, treqs, tnet, tsysinfo, abort,
          tcalls, ttraces, tfaults
tcpvars == <<socketfd, mutex, tpc, want, todo, trx, msg, ctrl_msg, treqs, tnet, tsysinfo, abort,
             tcalls, ttraces, tfaults>>
Tcp == INSTANCE SimTcp WITH
  MaxCalls <- 4, MaxTraces <- 1, MaxFaults <- 1, pc <- tpc, rx <- trx, reqs <- treqs, net <- tnet,
  sysinfo <- tsysinfo, calls <- tcalls, traces <- ttraces, faults <- tfaults

(* Two memories, packets of four flits, images of no, half a, one, one and *)
(* a half and two packets; a counter of 16 in place of 2^32.               *)
CONSTANT Memories
VARIABLES memory, cpus, fresh, mpc, mtodo, len, image, ids, expected, damaged, mfaults
memvars == <<memory, cpus, fresh, mpc, mtodo, len, image, ids, expected, damaged, mfaults>>
Mem == INSTANCE HostMemInit WITH
  FLITS_PER_PKG <- 4, Lens <- {0, 2, 4, 6, 8}, Size <- 10, UINT <- 16, MaxCalls <- 3, MaxFaults <- 1,
  pc <- mpc, todo <- mtodo, faults <- mfaults

(* Two cores print up to three characters each; a line takes one.          *)
VARIABLES main, status, stm_cb, stm_printf_buf, stm_count_exit, stm_exit_success, lines, cb, value,
          cnet, running, csent, result
clivars == <<main, status, stm_cb, stm_printf_buf, stm_count_exit, stm_exit_success, lines, cb, value,
             cnet, running, csent, result>>
Cli == INSTANCE CliTrace WITH
  max_core_id <- 1, stm_print_width <- 5, MaxText <- 3, net <- cnet, sent <- csent

(* The GUI's link to the target: four presses, a failing call.             *)
VARIABLES octx, gcpus, commands, worker, signals, m_connectionStatus, m_systemStatus, start, stall,
          system, upload, listening, gabort, rash, presses, gfaults
guivars == <<octx, gcpus, commands, worker, signals, m_connectionStatus, m_systemStatus, start, stall,
             system, upload, listening, gabort, rash, presses, gfaults>>
Gui == INSTANCE GuiInterface WITH
  MaxPresses <- 4, MaxFaults <- 1, cpus <- gcpus, abort <- gabort, faults <- gfaults

(* The chart: two cores, each of which runs one of three traces; the user  *)
(* event is a number and a string; the system is discovered again.         *)
User == <<<<"user", 7>>, <<"user", 5>>, <<"user", 0>>, <<"user", 8>>>>
Traces ==
  (0 :> {User,
         <<<<"define", 1>>, <<"name", 65>>, <<"active", 1>>, <<"exit", 0>>>>,
         <<<<"handle", 0>>, <<"exception", 8>>, <<"active", 1>>, <<"handle", 0>>>>}) @@
  (1 :> {User,
         <<<<"define", 1>>, <<"global", 65>>, <<"active", 1>>>>,
         <<<<"exception", 13>>, <<"return", 0>>, <<"active", 1>>>>})
VARIABLES script, queue, lock, tiles, systems, crash, m_currentMaximum, m_globalSectionNames, creator,
          sections, item, events, arrived, shown
chartvars == <<script, queue, lock, tiles, systems, crash, m_currentMaximum, m_globalSectionNames,
               creator, sections, item, events, arrived, shown>>
Chart == INSTANCE GuiChart WITH
  Cores <- {0, 1}, Scripts <- Traces, Format <- <<"d", "s">>, MaxSystems <- 2

(* The interactive CLI: two commands of the user, two cores with two trace *)
(* records each, a failing call.                                           *)
Num(n) == [kind |-> "number", n |-> n, exists |-> FALSE]
MemRange(a, b) == [kind |-> "range", lo |-> a, hi |-> b, exists |-> FALSE]
Word(exists) == [kind |-> "word", exists |-> exists]
Line(name, args) == [name |-> name, args |-> args]
Lines ==
  {Line(n, <<>>) : n \in {"start", "cpureset", "reset", "clkstat", "quit", "exec"}} \cup
  {Line(n, <<Word(e)>>) : n \in {"log_stm_trace", "log_noc_stats"}, e \in BOOLEAN} \cup
  {Line("log_raw_instruction_trace", <<Num(0), Word(e)>>) : e \in BOOLEAN} \cup
  {Line("mem_init", <<Word(TRUE), a>>) : a \in {Num(1), MemRange(0, 2), MemRange(2, 1), Word(FALSE)}} \cup
  {Line("mem_init", <<Word(FALSE), Num(1)>>), Line("mem_init", <<Word(TRUE)>>),
   Line("log_raw_instruction_trace", <<Num(1), Word(TRUE)>>),
   Line("log_dis_instruction_trace", <<Num(0), Word(TRUE), Word(TRUE)>>),
   Line("mem_write", <<Word(TRUE), Num(0)>>), Line("nrm_set_sample_interval", <<Num(9)>>)}
DebugModules ==
  <<[type |-> "STM", core |-> 0], [type |-> "ITM", core |-> 0], [type |-> "ITM", core |-> 1],
    [type |-> "MAM", core |-> 0]>>
VARIABLES kpc, kmode, kbackend, ctx, kmax_core_id, kmodule, cmd, itm_sinks, nrm_stat_file,
          stm_trace_file, itm_callback_registered, cbs, errno, stalled, made, files,
          dis, twice, karrived, reckless, kcommands, kfaults
cmdvars == <<kpc, kmode, kbackend, ctx, kmax_core_id, kmodule, cmd, itm_sinks, nrm_stat_file,
            stm_trace_file, itm_callback_registered, cbs, errno, stalled, made,
            files, dis, twice, karrived, reckless, kcommands, kfaults>>
Cmd == INSTANCE CliCommands WITH
  Modules <- DebugModules, Commands <- Lines, MaxCommands <- 2, MaxRecords <- 2, MaxFaults <- 1,
  pc <- kpc, mode <- kmode, backend <- kbackend, max_core_id <- kmax_core_id, module <- kmodule,
  arrived <- karrived, commands <- kcommands, faults <- kfaults

(* The VMEM converter: rows of two words of two bytes, images of up to ten *)
(* bytes, up to two options in all orders.                                 *)
Arg(opt, val) == [opt |-> opt, val |-> val]
Args ==
  {Arg("synfmt", 0), Arg("bpw", 0), Arg("bpw", 1), Arg("bpw", 3), Arg("row", 3), Arg("addr", 7), Arg("addr", 16)}
CommandLines ==
  {<<a, b, Arg("file", 0)>> : a \in Args, b \in Args} \cup
  {<<Arg("file", 0), a>> : a \in Args \cup {Arg("row", -1), Arg("addr", -1), Arg("bpw", -1)}} \cup
  {<<Arg("file", -1)>>, <<Arg("row", 3)>>, <<Arg("file", 0)>>,
   <<Arg("file", 0), Arg("row", 2), Arg("addr", 14), Arg("synfmt", 0)>>}
VARIABLES vpc, args, fd, size, pos, bytes_per_word, bytes_per_word_tmp, words_per_line,
          printing_addr, pad_row_end, pad_row_number, pad_addr_end, pad_addr_number,
          current_word_addr, word_counter, byte_counter, total_byte_counter,
          row_counter, starting_new_line, vout
vmemvars == <<vpc, args, fd, size, pos, bytes_per_word, bytes_per_word_tmp, words_per_line,
             printing_addr, pad_row_end, pad_row_number, pad_addr_end,
             pad_addr_number, current_word_addr, word_counter, byte_counter,
             total_byte_counter, row_counter, starting_new_line, vout>>
Vmem == INSTANCE Bin2Vmem WITH
  WORDS_PER_LINE_DEFAULT <- 2, BYTES_PER_WORD_DEFAULT <- 2, Images <- {0, 1, 4, 7, 10},
  pc <- vpc, out <- vout

(* The parts that do not run stay in one initial state.                    *)
MCInit ==
  /\ part \in {"read", "stream", "simtcp", "meminit", "cli", "gui", "chart", "commands", "vmem"}
  /\ Init /\ Stream!Init /\ Tcp!Init /\ Mem!Init /\ Cli!Init /\ Gui!Init
  /\ Chart!Init
  /\ Cmd!Init
  /\ part # "vmem" => args = <<Arg("file", 0)>> /\ size = 0 /\ bytes_per_word_tmp = 0
  /\ Vmem!Init
  /\ part # "chart" => \A c \in {0, 1} : Head(script[c]).id = "user"

MCNext ==
  \/ part = "read" /\ Next
     /\ UNCHANGED <<part, streamvars, tcpvars, memvars, clivars, guivars, chartvars, cmdvars, vmemvars>>
  \/ part = "stream" /\ Stream!Next
     /\ UNCHANGED <<part, vars, tcpvars, memvars, clivars, guivars, chartvars, cmdvars, vmemvars>>
  \/ part = "simtcp" /\ Tcp!Next
     /\ UNCHANGED <<part, vars, streamvars, memvars, clivars, guivars, chartvars, cmdvars, vmemvars>>
  \/ part = "meminit" /\ Mem!Next
     /\ UNCHANGED <<part, vars, streamvars, tcpvars, clivars, guivars, chartvars, cmdvars, vmemvars>>
  \/ part = "cli" /\ Cli!Next
     /\ UNCHANGED <<part, vars, streamvars, tcpvars, memvars, guivars, chartvars, cmdvars, vmemvars>>
  \/ part = "gui" /\ Gui!Next
     /\ UNCHANGED <<part, vars, streamvars, tcpvars, memvars, clivars, chartvars, cmdvars, vmemvars>>
  \/ part = "chart" /\ Chart!Next
     /\ UNCHANGED <<part, vars, streamvars, tcpvars, memvars, clivars, guivars, cmdvars, vmemvars>>
  \/ part = "commands" /\ Cmd!Next
     /\ UNCHANGED <<part, vars, streamvars, tcpvars, memvars, clivars, guivars, chartvars, vmemvars>>
  \/ part = "vmem" /\ Vmem!Next
     /\ UNCHANGED <<part, vars, streamvars, tcpvars, memvars, clivars, guivars, chartvars, cmdvars>>

(* The fairness of each part.                                              *)
MCFairness ==
  /\ WF_vars(part = "read" /\ Receive)
  /\ WF_vars(part = "read" /\ Client)
  /\ \A a \in {TCM} \cup Addrs : WF_vars(part = "read" /\ Answer(a))
  /\ WF_tcpvars(part = "simtcp" /\ ~abort /\ Tcp!Client)
  /\ WF_tcpvars(part = "simtcp" /\ ~abort /\ Tcp!Receive)
  /\ WF_tcpvars(part = "simtcp" /\ ~abort /\ Tcp!Answer)
  /\ WF_clivars(part = "cli" /\ Cli!Main)
  /\ WF_clivars(part = "cli" /\ Cli!Receive)
  /\ \A c \in Cli!Cores : WF_clivars(part = "cli" /\ Cli!Core(c))
  /\ WF_guivars(part = "gui" /\ Gui!HandleSignal)
  /\ WF_guivars(part = "gui" /\ Gui!Worker)

MCSpec ==
  /\ MCInit
  /\ [][MCNext]_<<part, vars, streamvars, tcpvars, memvars, clivars, guivars, chartvars, cmdvars,
                 vmemvars>>
  /\ MCFairness

-----------------------------------------------------------------------------
(* What a client knows of the system is true as long as no request was     *)
(* given up: modules, configurations and clock statistics over the debug   *)
(* NoC; over the simulation backend it reads the answers to its own        *)
(* requests, in their order.  (register_read, discover_system,             *)
(* read_clkstats, ob_simtcp_receive_thread)                                *)
AnswersTrue == KnowledgeTrue /\ Tcp!AnswerIsMine

(* The automatic mode of the CLI ends, and not before every core has       *)
(* exited.  (main)                                                         *)
AutoModeEnds ==
  part = "cli" => /\ <>(main = "exit")
                  /\ [](main = "exit" => \A c \in Cli!Cores : result[c] # -1)

(* Calls return: no wake-up is lost in either backend, and without given   *)
(* up reads all packets of the target get to the callbacks; an upload from *)
(* the GUI ends and gives the controls back, and the automatic mode of the *)
(* CLI ends when every core has exited.  (register_read,                   *)
(* ob_simtcp_cpu_start, ob_simtcp_discover_system, writeNextMemory, main)  *)
HostCallsReturn == CallsReturn /\ Tcp!SimCallsReturn /\ Gui!UploadEnds /\ AutoModeEnds

(* The receive thread handles exactly the packets the target sent, whole   *)
(* and in order wherever they lie in the blocks, never stops, and hands    *)
(* each answer to the call that waits for it.  (receive_thread,            *)
(* register_read)                                                          *)
PacketsHandedOver == PacketHandedOver /\ Stream!StreamIntact

(* The CPUs only run on whole images, also after transfers that broke off  *)
(* and calls that were repeated; the commands of the CLI reach exactly the *)
(* memories they name, and only a failed call leaves the CPUs stalled.     *)
(* (optimsoc_mem_init, mem_write, mem_init, display_clkstat)               *)
RunsWholeImages == Mem!RunsWholeImages /\ Cmd!CommandsHonoured

(* Every character a core prints gets to the trace file or its line        *)
(* buffer, once and in order; an instruction trace holds exactly the       *)
(* records of its core; no file or disassembly is closed, freed or left    *)
(* open wrongly.  (write_stm_trace_to_file, register_itm_trace,            *)
(* write_itm_trace_to_file, disconnect)                                    *)
TraceFilesTrue == Cli!TextComplete /\ Cmd!TraceFilesTrue

(* A loader finds in every VMEM file the image at its addresses, followed  *)
(* by exactly the padding asked for.  (bin2vmem)                           *)
VmemFaithful == Vmem!VmemFaithful

(* When all commands and signals are handled, the GUI shows the link and   *)
(* the CPUs as they are, and enables the right controls, unless it was     *)
(* used on a stale display or a disconnect failed.                         *)
(* (workerConnectionStatusChanged, showConnectionStatus, showSystemStatus) *)
DisplayTrue == Gui!DisplayTrue

(* The chart shows every trace event once: sections without gaps up to the *)
(* right edge, user events with exactly the values of their core.          *)
(* (softwareTraceTimer, addTraceEvent, createSection)                      *)
ChartComplete == Chart!ChartComplete
=============================================================================
