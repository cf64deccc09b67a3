---------------------------- MODULE RuntimeSched ----------------------------
(***************************************************************************)
(* Threads, scheduler and timers of libruntime on one core (thread.c,      *)
(* scheduler.c, timer.c).  The timer interrupt may strike between any two  *)
(* operations of the running thread, except in its critical sections.      *)
(* The queues are the lists of RuntimeList, whose operations are taken as  *)
(* atomic here; the ready queue is used with remove_head and with remove,  *)
(* so the model keeps whether the prev pointer of its head is stale.  A    *)
(* failed assertion stops the core; after an access to freed memory        *)
(* nothing is known of the state any more, and the model stops there too.  *)
(***************************************************************************)
EXTENDS Integers, Sequences, FiniteSets, SequencesExt

CONSTANTS
  Threads,    \* thread control blocks
  Kernel,     \* those with OPTIMSOC_THREAD_FLAG_KERNEL; others run in user space
  InitThread, \* the thread of init(), which boots the system
  Idle,       \* the idle thread of the core
  Goals,      \* arguments of optimsoc_timer_wait_ticks
  TICKS,      \* 2^32 in the code: the tick counter of a timer wraps here
  MaxReady    \* bound on the length of the ready queue

ASSUME SchedAssumption ==
  /\ Kernel \subseteq Threads /\ InitThread \in Kernel /\ Idle \notin Threads
  /\ TICKS \in Nat \ {0} /\ Goals \subseteq 0 .. TICKS - 1
  /\ MaxReady \in Nat

VARIABLES
  active,   \* the active thread of the core
  ready_q,  \* runnable threads
  stale,    \* the head of ready_q has a dangling prev pointer
  wait_q,   \* suspended threads
  all_threads,
  state,    \* per thread: THREAD_RUNNABLE or THREAD_SUSPENDED
  pc,       \* per thread: "run", "yield" (inside thread_yield) or "exit"
  timers,   \* _optimsoc_timers
  clock,    \* history: ticks so far, modulo TICKS
  status    \* "up", "assert" (an assertion failed) or "freed" (freed memory used)

vars == <<active, ready_q, stale, wait_q, all_threads, state, pc, timers, clock, status>>

Init ==
  /\ active = InitThread
  /\ ready_q = <<>>
  /\ stale = FALSE
  /\ wait_q = <<>>
  /\ all_threads = {InitThread}
  /\ state = [t \in Threads |-> "runnable"]
  /\ pc = [t \in Threads |-> "run"]
  /\ timers = <<>>
  /\ clock = 0
  /\ status = "up"

(* The functions below are called by kernel threads.                       *)
Running == status = "up" /\ active \in Kernel /\ pc[active] = "run"

Timed(ts) == {ts[i].thread : i \in DOMAIN ts}

(* The entries of q at the positions I, in their order: what is left of a  *)
(* list after list_remove of the others.                                   *)
Kept(q, I) ==
  [k \in 1 .. Cardinality(I) |-> q[CHOOSE i \in I : Cardinality({j \in I : j <= i}) = k]]

(* The thread at the tail is scheduled: last in, first out.                *)
schedule_Lifo(r, ts) ==
  /\ active' = IF r = <<>> THEN Idle ELSE Last(r)
  /\ ready_q' = IF r = <<>> THEN r ELSE Front(r)
  /\ stale' = (Len(r) > 1)
  /\ status' = IF active' \in Timed(ts) THEN "freed" ELSE "up"

(* _optimsoc_schedule with the ready queue r and the timers ts: the head   *)
(* of the queue becomes active, or the idle thread.  A thread that runs on *)
(* while its timer is pending leaves the timer on a dead stack frame.      *)
schedule(r, ts) ==
  /\ active' = IF r = <<>> THEN Idle ELSE Head(r)
  /\ ready_q' = IF r = <<>> THEN r ELSE Tail(r)
  /\ stale' = (Len(r) > 1)
  /\ status' = IF active' \in Timed(ts) THEN "freed" ELSE "up"

(* list_remove on the ready queue touches freed memory if the entry is the *)
(* head, has a successor and a stale prev pointer.                         *)
RemoveBreaks(t) == stale /\ Len(ready_q) > 1 /\ Head(ready_q) = t

(* The queue without the first entry for t, and the state of its head.     *)
ready_remove(t) ==
  IF RemoveBreaks(t) THEN status' = "freed" /\ UNCHANGED <<ready_q, stale>>
  ELSE /\ ready_q' = RemoveFirst(ready_q, t)
       /\ stale' = (stale /\ Head(ready_q) # t)
       /\ UNCHANGED status

(* optimsoc_thread_create, with or without CREATE_SUSPENDED.               *)
Create(t, suspended) ==
  /\ Running
  /\ t \notin all_threads /\ pc[t] = "run"
  /\ Len(ready_q) < MaxReady
  /\ state' = [state EXCEPT ![t] = IF suspended THEN "suspended" ELSE "runnable"]
  /\ wait_q' = IF suspended THEN Append(wait_q, t) ELSE wait_q
  /\ ready_q' = IF suspended THEN ready_q ELSE Append(ready_q, t)
  /\ all_threads' = all_threads \cup {t}
  /\ UNCHANGED <<active, stale, pc, timers, clock, status>>

(* optimsoc_thread_yield of the current thread: first the queue is         *)
(* changed, with interrupts enabled ...                                    *)
Yield ==
  /\ Running
  /\ Len(ready_q) < MaxReady
  /\ IF Contains(ready_q, active) /\ RemoveBreaks(active)
     THEN status' = "freed" /\ UNCHANGED <<ready_q, stale>>
     ELSE /\ ready_q' = Append(RemoveFirst(ready_q, active), active)
          /\ stale' = (stale /\ Head(ready_q) # active)
          /\ UNCHANGED status
  /\ pc' = [pc EXCEPT ![active] = "yield"]
  /\ UNCHANGED <<active, wait_q, all_threads, state, timers, clock>>

(* ... then the critical section schedules the next thread.                *)
YieldSwitch ==
  /\ status = "up" /\ active # Idle /\ pc[active] = "yield"
  /\ pc' = [pc EXCEPT ![active] = "run"]
  /\ schedule(ready_q, timers)
  /\ UNCHANGED <<wait_q, all_threads, state, timers, clock>>

(* optimsoc_thread_suspend of the current thread.                          *)
SuspendSelf ==
  /\ Running
  /\ IF state[active] = "runnable"
     THEN /\ wait_q' = Append(wait_q, active)
          /\ state' = [state EXCEPT ![active] = "suspended"]
          /\ schedule(ready_q, timers)
     ELSE status' = "assert" /\ UNCHANGED <<wait_q, state, active, ready_q, stale>>
  /\ UNCHANGED <<all_threads, pc, timers, clock>>

(* ... and of another thread, which must be runnable and in the queue.     *)
SuspendOther(t) ==
  /\ Running
  /\ t \in all_threads \ {active}
  /\ IF state[t] = "runnable" /\ Contains(ready_q, t)
     THEN /\ ready_remove(t)
          /\ wait_q' = Append(wait_q, t)
          /\ state' = [state EXCEPT ![t] = "suspended"]
     ELSE status' = "assert" /\ UNCHANGED <<wait_q, state, ready_q, stale>>
  /\ UNCHANGED <<active, all_threads, pc, timers, clock>>

(* The thread leaves the wait queue and is not put anywhere.               *)
Resume_NotQueued(t) ==
  /\ Running
  /\ Contains(wait_q, t) /\ t \notin Timed(timers)
  /\ wait_q' = RemoveFirst(wait_q, t)
  /\ state' = [state EXCEPT ![t] = "runnable"]
  /\ UNCHANGED <<active, ready_q, stale, all_threads, pc, timers, clock, status>>

(* optimsoc_thread_resume of a thread that was suspended.                  *)
Resume(t) ==
  /\ Running
  /\ Contains(wait_q, t) /\ t \notin Timed(timers)
  /\ Len(ready_q) < MaxReady
  /\ IF state[t] = "suspended"
     THEN /\ wait_q' = RemoveFirst(wait_q, t)
          /\ ready_q' = Append(ready_q, t)
          /\ state' = [state EXCEPT ![t] = "runnable"]
          /\ UNCHANGED status
     ELSE status' = "assert" /\ UNCHANGED <<wait_q, ready_q, state>>
  /\ UNCHANGED <<active, stale, all_threads, pc, timers, clock>>

(* optimsoc_thread_exit, in the critical section of _optimsoc_kthread_     *)
(* handle or in the system call handler.                                   *)
Exit ==
  /\ status = "up" /\ active # Idle /\ pc[active] = "run"
  /\ all_threads' = all_threads \ {active}
  /\ pc' = [pc EXCEPT ![active] = "exit"]
  /\ schedule(ready_q, timers)
  /\ UNCHANGED <<wait_q, state, timers, clock>>

(* optimsoc_thread_remove: a thread is about to move to another tile.      *)
(* Only threads in user space are moved.                                   *)
ThreadRemove(t) ==
  /\ Running
  /\ t \in all_threads \ Kernel
  /\ IF Contains(ready_q, t)
     THEN ready_remove(t) /\ all_threads' = all_threads \ {t}
     ELSE status' = "assert" /\ UNCHANGED <<ready_q, stale, all_threads>>
  /\ UNCHANGED <<active, wait_q, state, pc, timers, clock>>

(* optimsoc_thread_add: a thread that was copied from another tile.        *)
ThreadAdd(t) ==
  /\ Running
  /\ t \notin all_threads \cup Kernel /\ pc[t] = "run" /\ state[t] = "runnable"
  /\ Len(ready_q) < MaxReady
  /\ all_threads' = all_threads \cup {t}
  /\ ready_q' = Append(ready_q, t)
  /\ UNCHANGED <<active, stale, wait_q, state, pc, timers, clock, status>>

(* optimsoc_timer_wait_ticks: the timer lives on the stack of the thread,  *)
(* which is suspended.                                                     *)
WaitTicks(n) ==
  /\ Running
  /\ LET tm == [thread |-> active, ticks |-> 0, goal |-> n, start |-> clock]
     IN  IF state[active] = "runnable"
         THEN /\ timers' = Append(timers, tm)
              /\ wait_q' = Append(wait_q, active)
              /\ state' = [state EXCEPT ![active] = "suspended"]
              /\ schedule(ready_q, timers')
         ELSE status' = "assert" /\ UNCHANGED <<timers, wait_q, state, active, ready_q, stale>>
  /\ UNCHANGED <<all_threads, pc, clock>>

(* The iterator steps over the successor of a timer that is removed.       *)
advanced_Skips ==
  [i \in DOMAIN timers |->
     IF i > 1 /\ (timers[i - 1].ticks + 1) % TICKS = timers[i - 1].goal THEN timers[i]
     ELSE [timers[i] EXCEPT !.ticks = (@ + 1) % TICKS]]

(* _optimsoc_timer_tick advances every timer in the list; the threads of   *)
(* those that reach their goal are resumed.                                *)
advanced == [i \in DOMAIN timers |-> [timers[i] EXCEPT !.ticks = (@ + 1) % TICKS]]

expired == Kept(advanced, {i \in DOMAIN timers : advanced[i].ticks = advanced[i].goal})

pending == Kept(advanced, {i \in DOMAIN timers : advanced[i].ticks # advanced[i].goal})

resumed == [i \in DOMAIN expired |-> expired[i].thread]

(* _optimsoc_scheduler_tick, the timer interrupt.                          *)
Tick ==
  /\ status = "up"
  /\ clock' = (clock + 1) % TICKS
  /\ timers' = pending
  /\ IF \E t \in Timed(expired) : state[t] # "suspended"
     THEN status' = "assert" /\ UNCHANGED <<active, ready_q, stale, wait_q, state>>
     ELSE /\ wait_q' = Kept(wait_q, {i \in DOMAIN wait_q : wait_q[i] \notin Timed(expired)})
          /\ state' = [t \in Threads |->
                         IF t \in Timed(expired) \cup {active} THEN "runnable" ELSE state[t]]
          /\ schedule(ready_q \o resumed \o (IF active = Idle THEN <<>> ELSE <<active>>), pending)
  /\ UNCHANGED <<all_threads, pc>>

Operation ==
  \/ \E t \in Threads :
       \/ \E suspended \in BOOLEAN : Create(t, suspended)
       \/ SuspendOther(t) \/ Resume(t) \/ ThreadRemove(t) \/ ThreadAdd(t)
  \/ Yield \/ SuspendSelf \/ Exit
  \/ \E n \in Goals : WaitTicks(n)

Next == Operation \/ YieldSwitch \/ Tick

(* The tick timer is never turned off.                                     *)
Spec == Init /\ [][Next]_vars /\ WF_vars(Tick)

-----------------------------------------------------------------------------
Copies(q, t) == Cardinality({i \in DOMAIN q : q[i] = t})

(* No thread is lost or run twice, whatever the interrupts do to the       *)
(* queues: a thread is active, in the ready queue or in the wait queue,    *)
(* exactly once, and once more while it is inside thread_yield, which      *)
(* enqueues it before it gives up the processor.  A thread that has ended  *)
(* or was moved away is nowhere.                                           *)
OnePlaceEach ==
  status = "up" =>
    \A t \in Threads :
      Copies(ready_q, t) + Copies(wait_q, t) + Copies(<<active>>, t) =
        IF t \notin all_threads THEN 0 ELSE IF pc[t] = "yield" THEN 2 ELSE 1

(* Timers count every tick, also in the ticks in which others expire, and  *)
(* none is left in the list at its goal (a goal of 0 is reached by a wrap).*)
TimersInStep ==
  status = "up" =>
    \A i \in DOMAIN timers :
      /\ timers[i].ticks = (clock - timers[i].start) % TICKS
      /\ timers[i].ticks = timers[i].goal => timers[i].goal = 0

(* A thread in the ready queue runs eventually, or is taken out of it.     *)
NoStarvation ==
  \A t \in Threads : Contains(ready_q, t) ~> (active = t \/ ~Contains(ready_q, t) \/ status # "up")

(* The assertions of thread.c on the state of a thread hold: a thread that *)
(* is suspended stays so until it is resumed.                              *)
SuspendedUntilResumed ==
  status = "up" => \A t \in Threads : Contains(wait_q, t) <=> state[t] = "suspended"
=============================================================================
