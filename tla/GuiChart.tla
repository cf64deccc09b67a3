------------------------------ MODULE GuiChart ------------------------------
(***************************************************************************)
(* The execution chart of the OpTiMSoC GUI (optimsocgui): the receive      *)
(* thread of the library queues software trace events under                *)
(* m_softwareTraceMutex (systeminterface.cpp), a timer of the GUI thread   *)
(* empties the queue (traceevents.cpp), and per core two creators turn the *)
(* events into sections and into user events put together from several     *)
(* values (executionchart.cpp, -plots.cpp, -creators.cpp).  Every event    *)
(* moves the right edge of all plots.  Trace identifiers have names here:  *)
(* exit 0x1, exception 0x10, return 0x11, define 0x20, name 0x21,          *)
(* active 0x22, handle 0x23, global 0x25; "user" is one of events.d.       *)
(***************************************************************************)
EXTENDS Integers, Sequences, FiniteSets

LOCAL INSTANCE SequencesExt

CONSTANTS
  Cores,      \* 0 .. n - 1
  Scripts,    \* per core, what it may trace: sequences of <<id, value>>
  Format,     \* of the user event: "d" a number, "s" a string ended by 0
  MaxSystems  \* bound on the discoveries of the system

VARIABLES
  script,            \* per core: events under way to the host
  queue, lock,       \* m_softwareTraceQueue; "free", "emit" or "clear"
  tiles, systems,    \* plots per discovery, discoveries
  crash,             \* a NULL plot was used
  m_currentMaximum,
  m_globalSectionNames,
  creator,           \* per core: state of its section creator
  sections,          \* per core: its sections
  item,              \* per core: the user event being put together
  events,            \* per core: the complete ones
  arrived, shown     \* history: the events pushed; those the chart took

source == <<script, queue, lock, arrived>>
system == <<tiles, systems>>
elements == <<creator, sections, item, events>>
chart == <<m_currentMaximum, m_globalSectionNames, elements, crash, shown>>
vars == <<source, system, chart>>

(* Timestamps grow along a core's events; those of other cores lie between *)
(* them, and the order in which two cores' events arrive is free.          *)
Stamped(s, c) ==
  [k \in DOMAIN s |->
     [core |-> c, timestamp |-> Cardinality(Cores) * k + c, id |-> s[k][1], value |-> s[k][2]]]

NewCreator ==
  [names |-> {}, definition |-> 0, active |-> -1, handle |-> FALSE, inException |-> FALSE]
NewItem == [at |-> 1, timestamp |-> 0, parts |-> [k \in DOMAIN Format |-> <<>>]]

NewPlots ==
  /\ creator' = [c \in Cores |-> NewCreator] /\ sections' = [c \in Cores |-> <<>>]
  /\ item' = [c \in Cores |-> NewItem] /\ events' = [c \in Cores |-> <<>>]

Init ==
  /\ script \in [Cores -> UNION {{Stamped(s, c) : s \in Scripts[c]} : c \in Cores}]
  /\ \A c \in Cores : script[c] \in {Stamped(s, c) : s \in Scripts[c]}
  /\ queue = <<>> /\ lock = "free" /\ arrived = <<>> /\ shown = <<>>
  /\ tiles = 0 /\ systems = 0 /\ crash = FALSE
  /\ m_currentMaximum = 0 /\ m_globalSectionNames = {}
  /\ creator = [c \in Cores |-> NewCreator] /\ sections = [c \in Cores |-> <<>>]
  /\ item = [c \in Cores |-> NewItem] /\ events = [c \in Cores |-> <<>>]

(* systemChanged: new plots for all tiles.  A second discovery enlarges    *)
(* m_plotCores again but fills its first half; the rest stays NULL.        *)
SystemChanged ==
  /\ ~crash /\ lock = "free" /\ systems < MaxSystems
  /\ systems' = systems + 1
  /\ tiles' \in IF systems = 0 THEN 1 .. Cardinality(Cores) ELSE {tiles}
  /\ NewPlots
  /\ shown' = <<>>
  /\ UNCHANGED <<source, m_currentMaximum, m_globalSectionNames, crash>>

-----------------------------------------------------------------------------
(* The queue.                                                              *)

(* The callback does not take the mutex.                                   *)
SoftwareTraceCallback_NoLock(c) ==
  /\ ~crash /\ script[c] # <<>>
  /\ queue' = Append(queue, Head(script[c]))
  /\ arrived' = Append(arrived, Head(script[c]))
  /\ script' = [script EXCEPT ![c] = Tail(@)]
  /\ UNCHANGED <<lock, system, chart>>

SoftwareTraceCallback(c) ==
  /\ ~crash /\ lock = "free" /\ script[c] # <<>>
  /\ queue' = Append(queue, Head(script[c]))
  /\ arrived' = Append(arrived, Head(script[c]))
  /\ script' = [script EXCEPT ![c] = Tail(@)]
  /\ UNCHANGED <<lock, system, chart>>

SoftwareTraceTimer ==
  /\ ~crash /\ lock = "free" /\ queue # <<>>
  /\ lock' = "emit"
  /\ UNCHANGED <<script, queue, arrived, system, chart>>

-----------------------------------------------------------------------------
(* The section creator.                                                    *)

Named(c, id) == id \in creator[c].names \cup m_globalSectionNames

(* Its state after event e.  A return from an exception is not among the   *)
(* identifiers the plot registers it for; "handle" does its work, too.     *)
NextCreator(e) ==
  LET st == creator[e.core] IN
  CASE e.id = "exception" -> [st EXCEPT !.inException = TRUE]
    [] e.id = "define" -> [st EXCEPT !.definition = e.value]
    [] e.id = "name" -> [st EXCEPT !.names = @ \cup {st.definition}]
    [] e.id = "active" -> [st EXCEPT !.active = e.value]
    [] e.id = "handle" -> [st EXCEPT !.handle = TRUE, !.inException = FALSE]
    [] OTHER -> st

(* The sections it opens: none or one; -1 for exceptions and the exit.     *)
Opened(e) ==
  LET st == creator[e.core] IN
  CASE e.id = "exit" -> {-1}
    [] e.id = "exception" -> IF e.value \in 1 .. 12 THEN {-1} ELSE {}
    [] e.id = "active" ->
         {id \in {e.value} : Named(e.core, id) /\ ~(st.handle /\ st.inException)}
    [] e.id = "handle" -> {id \in {st.active} : Named(e.core, id) /\ st.inException}
    [] OTHER -> {}

updateExtend(secs, t) ==
  IF secs = <<>> THEN secs ELSE [secs EXCEPT ![Len(secs)].to = t]

(* The section before ends where the new one begins.                       *)
createSection(secs, t, ids) ==
  (IF ids = {} THEN secs ELSE updateExtend(secs, t))
    \o SetToSeq({[from |-> t, to |-> t, id |-> id] : id \in ids})

-----------------------------------------------------------------------------
(* The event creator.                                                      *)

(* occur: the awaited part takes the value; a string takes all up to 0.    *)
Occurs(c, v) ==
  LET p == item[c].at IN
  [item[c].parts EXCEPT ![p] = IF Format[p] = "d" THEN <<v>>
                               ELSE IF v # 0 THEN Append(@, v) ELSE @]

PartDone(p, v) == Format[p] = "d" \/ v = 0

(* Strings are cleared by format(), numbers overwritten later.             *)
Formatted(parts) == [k \in DOMAIN parts |-> IF Format[k] = "s" THEN <<>> ELSE parts[k]]

(* The chart event carries the time of the first part.                     *)
UserEvent(e) ==
  LET c == e.core
      it == item[c]
      parts == Occurs(c, e.value)
      at == IF PartDone(it.at, e.value) THEN it.at + 1 ELSE it.at
      time == IF it.at = 1 THEN e.timestamp ELSE it.timestamp
  IN  IF at > Len(Format)
      THEN /\ events' = [events EXCEPT ![c] = Append(@, [timestamp |-> time, parts |-> parts])]
           /\ item' = [item EXCEPT ![c] = [at |-> 1, timestamp |-> time, parts |-> Formatted(parts)]]
      ELSE /\ item' = [item EXCEPT ![c] = [at |-> at, timestamp |-> time, parts |-> parts]]
           /\ UNCHANGED events

-----------------------------------------------------------------------------
(* addTraceEvent: cores without a plot are ignored; otherwise the core's   *)
(* creators run and all plots get the new extent, which a NULL entry does  *)
(* not survive.                                                            *)
AddTraceEvent(e) ==
  \/ /\ e.core >= tiles * systems
     /\ UNCHANGED chart
  \/ /\ e.core < tiles * systems /\ systems > 1
     /\ crash' = TRUE
     /\ UNCHANGED <<m_currentMaximum, m_globalSectionNames, elements, shown>>
  \/ /\ e.core < tiles /\ systems = 1
     /\ creator' = [creator EXCEPT ![e.core] = NextCreator(e)]
     /\ m_globalSectionNames' =
          IF e.id = "global" THEN m_globalSectionNames \cup {creator[e.core].definition}
                             ELSE m_globalSectionNames
     /\ LET opened == createSection(sections[e.core], e.timestamp, Opened(e)) IN
          sections' = [c \in Cores |->
                         IF c >= tiles THEN sections[c]
                         ELSE updateExtend(IF c = e.core THEN opened ELSE sections[c], e.timestamp)]
     /\ IF e.id = "user" THEN UserEvent(e) ELSE UNCHANGED <<item, events>>
     /\ m_currentMaximum' = e.timestamp
     /\ shown' = Append(shown, e)
     /\ UNCHANGED crash

(* emitEvents: one event after the other until the queue is empty.         *)
EmitEvent ==
  /\ ~crash /\ lock = "emit"
  /\ IF queue # <<>>
     THEN AddTraceEvent(Head(queue)) /\ queue' = Tail(queue) /\ UNCHANGED lock
     ELSE lock' = "clear" /\ UNCHANGED <<queue, chart>>
  /\ UNCHANGED <<script, arrived, system>>

Clear ==
  /\ ~crash /\ lock = "clear"
  /\ queue' = <<>>
  /\ lock' = "free"
  /\ UNCHANGED <<script, arrived, system, chart>>

Timer == SoftwareTraceTimer \/ EmitEvent \/ Clear

Next == SystemChanged \/ Timer \/ \E c \in Cores : SoftwareTraceCallback(c)

Spec == Init /\ [][Next]_vars

-----------------------------------------------------------------------------
(* The values the user events of a core and the one under way were made    *)
(* of: its parts one after the other, strings with their end.              *)
Encoded(ev) ==
  FlattenSeq([k \in DOMAIN Format |-> ev.parts[k] \o (IF Format[k] = "s" THEN <<0>> ELSE <<>>)])

Begun(it) ==
  FlattenSeq([k \in 1 .. it.at |->
     IF k < it.at THEN it.parts[k] \o (IF Format[k] = "s" THEN <<0>> ELSE <<>>)
     ELSE IF Format[k] = "s" THEN it.parts[k] ELSE <<>>])

(* The trace is shown completely: an event that arrives is neither lost    *)
(* nor shown twice.  Of the sections of a core each ends where the next    *)
(* begins, none before it begins, and the last reaches the right edge      *)
(* whichever core traced last.  The user events of a core hold exactly its *)
(* values, in order, and the time of their first, whatever other cores     *)
(* trace in between.                                                       *)
(* (softwareTraceTimer, addTraceEvent, createSection, occur, format)       *)
ChartComplete ==
  systems = 1 /\ ~crash =>
    \A c \in 0 .. tiles - 1 :
      LET secs == sections[c]
          used == SelectSeq(shown, LAMBDA e : e.core = c /\ e.id = "user")
          before(k) == Len(FlattenSeq([j \in 1 .. k - 1 |-> Encoded(events[c][j])]))
      IN  /\ \A k \in 1 .. Len(secs) - 1 : secs[k].to = secs[k + 1].from /\ secs[k].from <= secs[k].to
          /\ secs # <<>> => secs[Len(secs)].to = m_currentMaximum
          /\ [k \in DOMAIN used |-> used[k].value] =
               FlattenSeq([k \in DOMAIN events[c] |-> Encoded(events[c][k])]) \o Begun(item[c])
          /\ \A k \in DOMAIN events[c] : events[c][k].timestamp = used[before(k) + 1].timestamp
          /\ LET mine(s) == SelectSeq(s, LAMBDA e : e.core = c)
             IN  IsSuffix(mine(shown) \o mine(queue), mine(arrived))
=============================================================================
