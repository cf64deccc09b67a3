-------------------------------- MODULE Gzll --------------------------------
(***************************************************************************)
(* The gzll kernel on every rank (main.c, app.c, node.c, taskdir.c,        *)
(* communication.c, node_migrate.c): boot, the start of the tasks of the   *)
(* boot mapping, the task directory that each rank keeps of all tasks, and *)
(* the migration of a task to another rank.  The init thread, the          *)
(* communication thread and the agent of a rank preempt each other; ranks  *)
(* talk through libmp, whose endpoint is a bounded queue per rank          *)
(* (MpMessages).  An assertion that fails stops its rank for good.         *)
(***************************************************************************)
EXTENDS Integers, Sequences, SequencesExt, FiniteSets

CONSTANTS
  NUMCT,       \* optimsoc_get_numct(): number of ranks
  Apps,        \* gzll_boot_apps: sequence of boot mappings; a mapping is a
               \* sequence of [rank, names, pages], names giving the instance
               \* name on each rank as its sequence of 4-byte words
  Words,       \* 4-byte words
  EndWords,    \* words that hold the terminating zero
  Stale,       \* what the buffer of the communication thread may hold at first
  FRAMES,      \* pages in the pool of each rank
  DEPTH,       \* messages that the system endpoint of a rank holds
  MIGRATIONS,  \* bound: calls of gzll_node_migrate by the agent
  ALLOCS,      \* bound: alloc_page system calls
  EVERYWHERE, ANYWHERE, INVALID

Rank == 0 .. NUMCT - 1

ASSUME GzllAssumption ==
  /\ NUMCT \in Nat \ {0} /\ FRAMES \in Nat /\ DEPTH \in Nat \ {0}
  /\ MIGRATIONS \in Nat /\ ALLOCS \in Nat
  /\ EVERYWHERE \notin Rank /\ ANYWHERE \notin Rank
  /\ EndWords \subseteq Words /\ Stale \subseteq Seq(Words)

(* Names are strings that end with their first zero byte.                  *)
Name == {name \in Seq(Words) : name # <<>> /\ \A k \in 1 .. Len(name) - 1 : name[k] \notin EndWords}

ASSUME AppsAssumption ==
  Apps \in Seq(Seq([rank : Rank \cup {EVERYWHERE, ANYWHERE}, names : [Rank -> Name], pages : Nat]))

VARIABLES
  stage,      \* per rank: progress of main() and init()
  failed,     \* ranks stopped by an assertion
  pos,        \* per rank: app, mapping index and node id offset in bootstrap
  out,        \* per rank and thread: messages the thread is sending
  queue,      \* per rank: the system endpoint
  taskdir,    \* per rank: task directory of each app created so far
  nxtid,      \* per rank: gzll_node_nxtid
  nodes,      \* per rank: gzll_node_list
  pool,       \* per rank: gzll_pagepool_local
  buffer,     \* per rank: the words behind the header in the thread's buffer
  migrations, allocs

vars == <<stage, failed, pos, out, queue, taskdir, nxtid, nodes, pool, buffer,
          migrations, allocs>>
bootVars == <<stage, pos>>
nodeVars == <<nxtid, nodes, pool>>
boundVars == <<migrations, allocs>>

Threads == {"init", "comm", "agent"}

Entry(rank, nodeid, identifier) ==
  [rank |-> rank, nodeid |-> nodeid, identifier |-> identifier]

(* main() up to optimsoc_runtime_boot: identifiers start at 1, the pool    *)
(* holds every local page.  The thread's buffer is not initialised.        *)
Init ==
  /\ stage = [r \in Rank |-> "main"]
  /\ failed = {}
  /\ pos = [r \in Rank |-> [app |-> 1, idx |-> 0, offset |-> 0, peer |-> 0]]
  /\ out = [r \in Rank |-> [t \in Threads |-> <<>>]]
  /\ queue = [r \in Rank |-> <<>>]
  /\ taskdir = [r \in Rank |-> <<>>]
  /\ nxtid = [r \in Rank |-> 1]
  /\ nodes = [r \in Rank |-> <<>>]
  /\ pool = [r \in Rank |-> [i \in 1 .. FRAMES |-> i]]
  /\ buffer \in [Rank -> Stale]
  /\ migrations = 0 /\ allocs = 0

Live(r) == r \notin failed

Fail(r) == failed' = failed \cup {r}

Send(r, t, msgs) == out' = [out EXCEPT ![r][t] = @ \o msgs]

-----------------------------------------------------------------------------
(* Boot                                                                    *)

(* optimsoc_mp_initialize: from here the rank answers other ranks.         *)
MpInitialize(r) ==
  /\ stage[r] = "main"
  /\ stage' = [stage EXCEPT ![r] = "create"]
  /\ UNCHANGED <<failed, pos, out, queue, taskdir, nodeVars, buffer, boundVars>>

(* communication_init creates the system endpoint ...                      *)
CreateEndpoint(r) ==
  /\ stage[r] = "create"
  /\ stage' = [stage EXCEPT ![r] = "getep"]
  /\ UNCHANGED <<failed, pos, out, queue, taskdir, nodeVars, buffer, boundVars>>

(* ... and fetches the endpoint of every other rank in turn.  It waits for *)
(* the other rank to be ready for messages; if the endpoint is not there   *)
(* yet, control_get_endpoint asserts.  Then the communication thread is    *)
(* created and the applications are started.                               *)
GetEndpoint(r) ==
  LET q == pos[r].peer
      next == /\ pos' = [pos EXCEPT ![r].peer = q + 1]
              /\ UNCHANGED <<stage, failed>>
  IN /\ stage[r] = "getep"
     /\ \/ q = NUMCT /\ stage' = [stage EXCEPT ![r] = "app"] /\ UNCHANGED <<failed, pos>>
        \/ q = r /\ next
        \/ /\ q \in Rank \ {r} /\ stage[q] # "main"
           /\ IF stage[q] = "create" THEN Fail(r) /\ UNCHANGED bootVars ELSE next
     /\ UNCHANGED <<out, queue, taskdir, nodeVars, buffer, boundVars>>

(* gzll_app_new, at the start of _gzll_app_bootstrap.                      *)
AppNew(r) ==
  /\ stage[r] = "app"
  /\ IF pos[r].app > Len(Apps)
     THEN stage' = [stage EXCEPT ![r] = "done"] /\ UNCHANGED <<pos, taskdir>>
     ELSE /\ stage' = [stage EXCEPT ![r] = "map"]
          /\ pos' = [pos EXCEPT ![r].idx = 0, ![r].offset = 0]
          /\ taskdir' = [taskdir EXCEPT ![r] = Append(@, <<>>)]
  /\ UNCHANGED <<failed, out, queue, nodeVars, buffer, boundVars>>

(* The ids that an EVERYWHERE mapping uses on top of its own are left out. *)
nodeid_offset_Dropped(r, m) == pos[r].offset

nodeid_offset(r, m) ==
  pos[r].offset + IF m.rank = EVERYWHERE THEN NUMCT - 1 ELSE 0

(* Task i (counted from 0) of a directory.                                 *)
Valid(dir, i) == i < Len(dir) /\ dir[i + 1] # INVALID

(* The directory grows up to the id; a used entry is left alone.           *)
taskdir_task_register(dir, taskid, entry) ==
  LET size == IF taskid >= Len(dir) THEN taskid + 1 ELSE Len(dir)
      grown == [i \in 1 .. size |-> IF i <= Len(dir) THEN dir[i] ELSE INVALID]
  IN IF grown[taskid + 1] = INVALID THEN [grown EXCEPT ![taskid + 1] = entry] ELSE grown

Node(id, app, taskid, pages) ==
  [id |-> id, app |-> app, taskid |-> taskid, pages |-> pages, ready |-> TRUE,
   task |-> <<app, taskid>>]  \* history: the task this is a node of

(* gzll_page_alloc, n times.                                               *)
Rest(p, n) == SubSeq(p, n + 1, Len(p))

(* Message sent to the ranks above only.                                   *)
message_send_node_new_Above(r, app, taskid, name) ==
  LET msg == [type |-> "node_new", source |-> r, app |-> app, taskid |-> taskid, name |-> name]
  IN [i \in 1 .. NUMCT - 1 - r |-> [to |-> r + i, msg |-> msg]]

(* The new node is announced to all other ranks; rank_nodeid stays 0.      *)
message_send_node_new(r, app, taskid, name) ==
  LET msg == [type |-> "node_new", source |-> r, app |-> app, taskid |-> taskid, name |-> name]
  IN [i \in 1 .. NUMCT - 1 |-> [to |-> IF i <= r THEN i - 1 ELSE i, msg |-> msg]]

(* gzll_node_start: pages for the image and one for the stack, a node and  *)
(* its thread, the entry in the directory, the announcement.               *)
gzll_node_start(r, app, taskid, name, pages) ==
  /\ nxtid' = [nxtid EXCEPT ![r] = @ + 1]
  /\ nodes' = [nodes EXCEPT ![r] =
                 Append(@, Node(nxtid[r], app, taskid, SubSeq(pool[r], 1, pages + 1)))]
  /\ pool' = [pool EXCEPT ![r] = Rest(@, pages + 1)]
  /\ taskdir' = [taskdir EXCEPT ![r][app] =
                   taskdir_task_register(@, taskid, Entry(r, nxtid[r], name))]
  /\ Send(r, "init", message_send_node_new(r, app, taskid, name))

(* One round of the loop over the boot mappings.                           *)
Bootstrap(r) ==
  LET app == pos[r].app
      idx == pos[r].idx
      m == Apps[app][idx + 1]
      taskid == idx + pos[r].offset + IF m.rank = EVERYWHERE THEN r ELSE 0
  IN /\ stage[r] = "map" /\ out[r]["init"] = <<>>
     /\ IF idx = Len(Apps[app])
        THEN /\ stage' = [stage EXCEPT ![r] = "app"]
             /\ pos' = [pos EXCEPT ![r].app = app + 1]
             /\ UNCHANGED <<failed, out, taskdir, nodeVars>>
        ELSE IF m.rank \in {r, EVERYWHERE} /\ Len(pool[r]) < m.pages + 1
        THEN Fail(r) /\ UNCHANGED <<bootVars, out, taskdir, nodeVars>>
        ELSE /\ pos' = [pos EXCEPT ![r].idx = idx + 1,
                                   ![r].offset = nodeid_offset(r, m)]
             /\ IF m.rank \in {r, EVERYWHERE}
                THEN gzll_node_start(r, app, taskid, m.names[r], m.pages)
                ELSE UNCHANGED <<out, taskdir, nodeVars>>
             /\ UNCHANGED <<stage, failed>>
     /\ UNCHANGED <<queue, buffer, boundVars>>

(* optimsoc_mp_msg_send blocks its thread while the endpoint is full.      *)
Deliver(r, t) ==
  /\ out[r][t] # <<>>
  /\ LET h == Head(out[r][t])
     IN /\ Len(queue[h.to]) < DEPTH
        /\ queue' = [queue EXCEPT ![h.to] = Append(@, h.msg)]
        /\ out' = [out EXCEPT ![r][t] = Tail(@)]
  /\ UNCHANGED <<bootVars, failed, taskdir, nodeVars, buffer, boundVars>>

-----------------------------------------------------------------------------
(* Communication thread                                                    *)

Booted(r) == stage[r] \in {"app", "map", "done"}

(* gzll_app_get: the list of applications must exist and hold the app.     *)
gzll_app_get(r, app) == app <= Len(taskdir[r])

(* The message is received into the buffer, over what was there before ... *)
Received(r, name) ==
  [i \in 1 .. Len(name) |-> name[i]] \o Rest(buffer[r], Len(name))

(* ... and the name is taken from there up to the first zero byte.         *)
NameIn(words) ==
  LET ends == {i \in 1 .. Len(words) : words[i] \in EndWords}
  IN IF ends = {} THEN words
     ELSE SubSeq(words, 1, CHOOSE i \in ends : \A j \in ends : i <= j)

node_new_name(r, name) == NameIn(Received(r, name))

(* gzll_message_node_new_handler                                           *)
NodeNewHandler(r, m) ==
  /\ m.type = "node_new"
  /\ gzll_app_get(r, m.app)
  /\ buffer' = [buffer EXCEPT ![r] = Received(r, m.name)]
  /\ taskdir' = [taskdir EXCEPT ![r][m.app] =
                   taskdir_task_register(@, m.taskid,
                                         Entry(m.source, 0, node_new_name(r, m.name)))]
  /\ UNCHANGED <<failed, out, nodeVars>>

(* The first node with an id.                                              *)
gzll_node_find(r, id) ==
  LET found == {i \in DOMAIN nodes[r] : nodes[r][i].id = id}
  IN CHOOSE i \in found : \A j \in found : i <= j

(* A task that is not in the ready queue is passed on without complaint.   *)
gzll_node_suspend_IfActive(r, i) ==
  nodes' = [nodes EXCEPT ![r][i].ready = FALSE] /\ UNCHANGED failed

(* ACTIVE and SUSPENDED are the same value: the thread is removed always,  *)
(* and optimsoc_thread_remove asserts that it was in the ready queue.      *)
gzll_node_suspend(r, i) ==
  IF nodes[r][i].ready
  THEN nodes' = [nodes EXCEPT ![r][i].ready = FALSE] /\ UNCHANGED failed
  ELSE Fail(r) /\ UNCHANGED nodes

(* gzll_node_migrate, called in thread t: the rank in the directory is     *)
(* asked to migrate; if it is this one, the node is suspended and the new  *)
(* rank is told to fetch it.                                               *)
gzll_node_migrate(r, t, app, taskid, dest) ==
  LET e == taskdir[r][app][taskid + 1]
      i == gzll_node_find(r, e.nodeid)
  IN IF ~ (gzll_app_get(r, app) /\ Valid(taskdir[r][app], taskid))
     THEN UNCHANGED <<failed, out, nodeVars>>
     ELSE IF e.rank # r
     THEN /\ Send(r, t, << [to |-> e.rank,
                            msg |-> [type |-> "node_migrate", app |-> app,
                                     taskid |-> taskid, dest |-> dest]] >>)
          /\ UNCHANGED <<failed, nodeVars>>
     ELSE /\ gzll_node_suspend(r, i)
          /\ IF r \in failed' THEN UNCHANGED out
             ELSE Send(r, t, << [to |-> dest,
                                 msg |-> [type |-> "node_fetch", source |-> r, node |-> i,
                                          app |-> app, taskid |-> taskid]] >>)
          /\ UNCHANGED <<nxtid, pool>>

NodeMigrateHandler(r, m) ==
  /\ m.type = "node_migrate"
  /\ gzll_node_migrate(r, "comm", m.app, m.taskid, m.dest)
  /\ UNCHANGED <<taskdir, buffer>>

(* The pages are used where they are.                                      *)
dir_copy_InPlace(r, pages) == pages

(* optimsoc_vmm_dir_copy: a fresh local page for every page of the node;   *)
(* the allocation is not checked, an empty pool gives page 0.              *)
dir_copy(r, pages) ==
  [i \in 1 .. Len(pages) |-> IF i <= Len(pool[r]) THEN pool[r][i] ELSE 0]

(* gzll_node_fetch: the copy keeps the id of the node; its task id is not  *)
(* copied.  The new node is added and its thread resumed.                  *)
NodeFetchHandler(r, m) ==
  LET remote == nodes[m.source][m.node]
      copy == [remote EXCEPT !.pages = dir_copy(r, @), !.taskid = INVALID, !.ready = TRUE]
  IN /\ m.type = "node_fetch"
     /\ nodes' = [nodes EXCEPT ![r] = Append(@, copy)]
     /\ pool' = [pool EXCEPT ![r] = Rest(@, Len(remote.pages))]
     /\ UNCHANGED <<failed, out, taskdir, nxtid, buffer>>

(* communication_thread takes a message and runs its handler.  A node of   *)
(* an unknown app trips the assertion of the handler.                      *)
CommThread(r) ==
  /\ Booted(r) /\ out[r]["comm"] = <<>> /\ queue[r] # <<>>
  /\ queue' = [queue EXCEPT ![r] = Tail(@)]
  /\ LET m == Head(queue[r])
     IN \/ NodeNewHandler(r, m)
        \/ NodeMigrateHandler(r, m)
        \/ NodeFetchHandler(r, m)
        \/ /\ m.type = "node_new" /\ ~ gzll_app_get(r, m.app)
           /\ Fail(r) /\ UNCHANGED <<out, taskdir, nodeVars, buffer>>
  /\ UNCHANGED <<bootVars, boundVars>>

-----------------------------------------------------------------------------
(* Agent and system calls                                                  *)

(* The agent of rank 0 migrates a task to a rank it does not run on.  It   *)
(* waits for two ticks, taken here as: every rank has booted.              *)
AgentMigrate(app, taskid, dest) ==
  /\ \A q \in Rank : stage[q] = "done"
  /\ out[0]["agent"] = <<>> /\ migrations < MIGRATIONS
  /\ Valid(taskdir[0][app], taskid) /\ taskdir[0][app][taskid + 1].rank # dest
  /\ migrations' = migrations + 1
  /\ gzll_node_migrate(0, "agent", app, taskid, dest)
  /\ UNCHANGED <<bootVars, queue, taskdir, buffer, allocs>>

(* gzll_syscall_alloc_page: one more page for a running task.              *)
AllocPage(r, i) ==
  /\ nodes[r][i].ready /\ allocs < ALLOCS
  /\ allocs' = allocs + 1
  /\ IF pool[r] = <<>> THEN Fail(r) /\ UNCHANGED <<nodes, pool>>
     ELSE /\ nodes' = [nodes EXCEPT ![r][i].pages = Append(@, Head(pool[r]))]
          /\ pool' = [pool EXCEPT ![r] = Tail(@)]
          /\ UNCHANGED failed
  /\ UNCHANGED <<bootVars, out, queue, taskdir, nxtid, buffer, migrations>>

(* optimsoc_thread_exit: the node and its entries stay.                    *)
ThreadExit(r, i) ==
  /\ nodes[r][i].ready
  /\ nodes' = [nodes EXCEPT ![r][i].ready = FALSE]
  /\ UNCHANGED <<bootVars, failed, out, queue, taskdir, nxtid, pool, buffer, boundVars>>

(* Mapping i of an application has an instance on rank r.                  *)
PlacedOn(a, i, r) == Apps[a][i].rank \in {r, EVERYWHERE}

(* The ids of the tasks follow the order of the mappings and, where a      *)
(* mapping has an instance everywhere, of the ranks.                       *)
FirstId(a, i) ==
  i - 1 + (NUMCT - 1) * Cardinality({j \in 1 .. i - 1 : Apps[a][j].rank = EVERYWHERE})

TaskId(a, i, r) == FirstId(a, i) + IF Apps[a][i].rank = EVERYWHERE THEN r ELSE 0

Task == UNION {{a} \X (0 .. FirstId(a, Len(Apps[a]) + 1) - 1) : a \in DOMAIN Apps}

Init1(r) == MpInitialize(r) \/ CreateEndpoint(r) \/ GetEndpoint(r) \/ AppNew(r) \/ Bootstrap(r)

Next ==
  \/ \E r \in Rank : Live(r) /\ (Init1(r) \/ CommThread(r))
  \/ \E r \in Rank, t \in Threads : Live(r) /\ Deliver(r, t)
  \/ Live(0) /\ \E k \in Task, dest \in Rank : AgentMigrate(k[1], k[2], dest)
  \/ \E r \in Rank : Live(r) /\ \E i \in DOMAIN nodes[r] : AllocPage(r, i) \/ ThreadExit(r, i)

(* The scheduler of a rank is fair to its kernel threads (RuntimeSched).   *)
Fairness ==
  \A r \in Rank :
    /\ WF_vars(Live(r) /\ Init1(r))
    /\ WF_vars(Live(r) /\ CommThread(r))
    /\ \A t \in Threads : WF_vars(Live(r) /\ Deliver(r, t))

Spec == Init /\ [][Next]_vars /\ Fairness
-----------------------------------------------------------------------------

(* Ids of boot tasks are unique over all ranks, and every rank's directory *)
(* names the same rank for a task: whatever order announcements arrive in, *)
(* an entry names the rank the mapping puts the task on, and the           *)
(* identifier is the task's name, up to what is left in the buffer behind  *)
(* a name that fills its last word.                                        *)
TaskdirTruthful ==
  \A r \in Rank : \A a \in DOMAIN taskdir[r] : \A k \in DOMAIN taskdir[r][a] :
    LET e == taskdir[r][a][k]
    IN e # INVALID =>
         /\ e.rank \in Rank
         /\ \E i \in DOMAIN Apps[a] :
              /\ PlacedOn(a, i, e.rank) /\ TaskId(a, i, e.rank) = k - 1
              /\ LET name == Apps[a][i].names[e.rank]
                 IN IF Last(name) \in EndWords THEN e.identifier = name
                    ELSE IsPrefix(name, e.identifier)

(* No page serves two purposes: on every rank the pages of all nodes, the  *)
(* fetched ones included, and the pool are disjoint.  Page 0, which is the *)
(* kernel's, is handed out only by an exhausted pool.                      *)
PagesPrivate ==
  \A r \in Rank :
    /\ \A i \in DOMAIN nodes[r] : \A k \in DOMAIN nodes[r][i].pages :
         LET page == nodes[r][i].pages[k]
         IN IF page = 0 THEN pool[r] = <<>>
            ELSE /\ ~Contains(pool[r], page)
                 /\ \A j \in DOMAIN nodes[r] : \A l \in DOMAIN nodes[r][j].pages :
                      nodes[r][j].pages[l] = page => j = i /\ l = k
    /\ \A k, l \in DOMAIN pool[r] : pool[r][k] = pool[r][l] => k = l

Pending(r) == ToSet(queue[r]) \cup UNION {{o.msg : o \in ToSet(out[r][t])} : t \in Threads}

(* The messages on the way: those in the system endpoint of a rank, and    *)
(* those that its threads are sending.                                     *)
Line == Rank \X (Threads \cup {"endpoint"})

Messages(l) ==
  IF l[2] = "endpoint" THEN queue[l[1]]
  ELSE [j \in DOMAIN out[l[1]][l[2]] |-> out[l[1]][l[2]][j].msg]

Fetches(m, k) == m.type = "node_fetch" /\ <<m.app, m.taskid>> = k

Runs(r, i, k) == nodes[r][i].ready /\ nodes[r][i].task = k

(* A task is in one place: it is runnable on one rank at most, and not at  *)
(* all while a rank is told to fetch it, which is told once; what is       *)
(* fetched is the task that was to be migrated, although nodes of          *)
(* different ranks share ids.                                              *)
TaskInOnePlace ==
  \A k \in Task :
    /\ \A r, s \in Rank : \A i \in DOMAIN nodes[r], j \in DOMAIN nodes[s] :
         Runs(r, i, k) /\ Runs(s, j, k) => r = s /\ i = j
    /\ \A l \in Line : \A x \in DOMAIN Messages(l) :
         Fetches(Messages(l)[x], k) =>
           /\ nodes[Messages(l)[x].source][Messages(l)[x].node].task = k
           /\ \A r \in Rank : \A i \in DOMAIN nodes[r] : ~Runs(r, i, k)
           /\ \A n \in Line : \A y \in DOMAIN Messages(n) :
                Fetches(Messages(n)[y], k) => l = n /\ x = y

(* Every rank gets to know every task of the boot mapping and every        *)
(* message, the fetch of a suspended task included, is handled in the end, *)
(* unless an assertion stops some rank.                                    *)
EveryoneKnows ==
  <>[](\/ failed # {}
       \/ /\ \A r \in Rank : Pending(r) = {}
          /\ \A r, q \in Rank : \A a \in DOMAIN Apps : \A i \in DOMAIN Apps[a] :
               PlacedOn(a, i, q) =>
                 a \in DOMAIN taskdir[r] /\ Valid(taskdir[r][a], TaskId(a, i, q)))

(* assert(app) in gzll_message_node_new_handler: when a node is announced, *)
(* its application exists on the rank that is told.                        *)
NodeNewFindsApp ==
  \A r \in Rank :
    Live(r) /\ Booted(r) /\ queue[r] # <<>> /\ Head(queue[r]).type = "node_new"
      => gzll_app_get(r, Head(queue[r]).app)

=============================================================================
