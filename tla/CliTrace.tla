------------------------------ MODULE CliTrace ------------------------------
(***************************************************************************)
(* The automatic mode of optimsoc_cli (tools/optimsoc_cli.c): the main     *)
(* thread opens the software trace, starts the CPUs and spins until every  *)
(* core has reported its exit; the receive thread runs the callback for    *)
(* the trace messages: text printed by a core comes character by character *)
(* and is put together to lines, an exit is counted.                       *)
(***************************************************************************)
EXTENDS Integers, Sequences

LOCAL INSTANCE SequencesExt

CONSTANTS
  max_core_id,      \* cores are 0 .. max_core_id
  stm_print_width,  \* 72 in the code
  MaxText           \* bound on the characters a core prints

Cores == 0 .. max_core_id
Newline == 0

VARIABLES
  main,              \* "log", "start", "spin" or "exit"
  status,            \* exit status, or -1
  stm_cb,            \* callback registered?
  stm_printf_buf,    \* per core: the line so far
  stm_count_exit, stm_exit_success,
  lines,             \* per core: lines in the trace file, with the mark of a forced break
  cb,                \* receive thread: "read" or "exit" (in the callback, exit counted)
  value,             \* the value of the exit being handled
  net,               \* trace messages under way
  running,           \* CPUs started?
  sent, result       \* history, per core: text printed; value of its exit, or -1

cli == <<main, status, stm_cb>>
trace == <<stm_printf_buf, stm_count_exit, stm_exit_success, lines, cb, value>>
target == <<net, running, sent, result>>
vars == <<cli, trace, target>>

Init ==
  /\ main = "log" /\ status = -1 /\ stm_cb = FALSE
  /\ stm_printf_buf = [c \in Cores |-> <<>>]
  /\ stm_count_exit = 0 /\ stm_exit_success = TRUE
  /\ lines = [c \in Cores |-> <<>>]
  /\ cb = "read" /\ value = 0
  /\ net = <<>> /\ running = FALSE
  /\ sent = [c \in Cores |-> <<>>] /\ result = [c \in Cores |-> -1]

-----------------------------------------------------------------------------
(* The main thread.                                                        *)

(* log_stm_trace: the buffers exist before the callback is registered.     *)
LogStmTrace ==
  /\ main = "log"
  /\ stm_cb' = TRUE
  /\ main' = "start"
  /\ UNCHANGED <<status, trace, target>>

(* optimsoc_cpu_start.                                                     *)
CpuStart ==
  /\ main = "start"
  /\ running' = TRUE
  /\ main' = "spin"
  /\ UNCHANGED <<status, stm_cb, trace, net, sent, result>>

(* The loop ends when all cores are counted; the status is what is known   *)
(* at that moment.                                                         *)
Finish ==
  /\ main = "spin" /\ stm_count_exit = max_core_id + 1
  /\ status' = IF stm_exit_success THEN 0 ELSE 1
  /\ main' = "exit"
  /\ UNCHANGED <<stm_cb, trace, target>>

-----------------------------------------------------------------------------
(* The cores (external): a core prints text and exits once.                *)

Alive(c) == running /\ result[c] = -1

PrintChar(c) ==
  /\ Alive(c) /\ Len(sent[c]) < MaxText
  /\ \E x \in {Newline, Len(sent[c]) + 1} :
       /\ net' = Append(net, [core |-> c, id |-> 4, value |-> x])
       /\ sent' = [sent EXCEPT ![c] = Append(@, x)]
  /\ UNCHANGED <<cli, trace, running, result>>

CoreExit(c) ==
  /\ Alive(c)
  /\ \E v \in {0, 1} :
       /\ net' = Append(net, [core |-> c, id |-> 1, value |-> v])
       /\ result' = [result EXCEPT ![c] = v]
  /\ UNCHANGED <<cli, trace, running, sent>>

-----------------------------------------------------------------------------
(* The receive thread and write_stm_trace_to_file.                         *)

Line(text, forced) == [text |-> text, forced |-> forced]

(* A character is put at the end of the line; near the width of the buffer *)
(* the line is printed, marked with three dots.                            *)
Simprint(c, x) ==
  LET buf == stm_printf_buf[c]
      text == IF x = Newline THEN buf ELSE Append(buf, x)
      full == x # Newline /\ Len(buf) = stm_print_width - 4
  IN  IF x = Newline \/ full
      THEN /\ lines' = [lines EXCEPT ![c] = Append(@, Line(text, full))]
           /\ stm_printf_buf' = [stm_printf_buf EXCEPT ![c] = <<>>]
      ELSE /\ stm_printf_buf' = [stm_printf_buf EXCEPT ![c] = text]
           /\ UNCHANGED lines

(* A message is taken; without a callback it is dropped.                   *)
Take ==
  /\ cb = "read" /\ net # <<>> /\ main # "exit"
  /\ net' = Tail(net)
  /\ LET m == Head(net) IN
       CASE ~stm_cb -> UNCHANGED trace
         [] stm_cb /\ m.id = 4 ->
              Simprint(m.core, m.value) /\ UNCHANGED <<stm_count_exit, stm_exit_success, cb, value>>
         [] stm_cb /\ m.id = 1 ->
              /\ stm_count_exit' = stm_count_exit + 1
              /\ value' = m.value
              /\ cb' = "exit"
              /\ UNCHANGED <<stm_printf_buf, stm_exit_success, lines>>
  /\ UNCHANGED <<cli, running, sent, result>>

(* The value is looked at after the exit has been counted.                 *)
ExitValue ==
  /\ cb = "exit" /\ main # "exit"
  /\ stm_exit_success' = (stm_exit_success /\ value = 0)
  /\ cb' = "read"
  /\ UNCHANGED <<cli, stm_printf_buf, stm_count_exit, lines, value, target>>

Main == LogStmTrace \/ CpuStart \/ Finish
Receive == Take \/ ExitValue
Core(c) == PrintChar(c) \/ CoreExit(c)

Next == Main \/ Receive \/ \E c \in Cores : Core(c)

(* Both threads are scheduled fairly and every program ends.               *)
Fairness == WF_vars(Main) /\ WF_vars(Receive) /\ \A c \in Cores : WF_vars(Core(c))

Spec == Init /\ [][Next]_vars /\ Fairness

-----------------------------------------------------------------------------
(* What a core printed: its lines joined again, a newline after each that  *)
(* was not broken by force.                                                *)
Text(c) ==
  FlattenSeq([k \in DOMAIN lines[c] |->
                lines[c][k].text \o (IF lines[c][k].forced THEN <<>> ELSE <<Newline>>)])
    \o stm_printf_buf[c]

(* Every character a core printed is in the trace file or in its line      *)
(* buffer, in order, nothing twice, whichever cores print in between, and  *)
(* no line outgrows its buffer.  (write_stm_trace_to_file)                 *)
TextComplete ==
  \A c \in Cores :
    /\ Len(stm_printf_buf[c]) <= stm_print_width - 4
    /\ Text(c) = SubSeq(sent[c], 1, Len(Text(c)))
    /\ net = <<>> => Text(c) = sent[c]

=============================================================================
