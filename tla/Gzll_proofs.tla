----------------------------- MODULE Gzll_proofs -----------------------------
(***************************************************************************)
(* The gzll kernels keep true directories, private pages and every task in *)
(* one place, for any number of ranks, any applications and boot mappings, *)
(* any size of the pools and the endpoints.                                *)
(***************************************************************************)
EXTENDS Gzll, FiniteSetTheorems, WellFoundedInduction, TLAPS

-----------------------------------------------------------------------------
(* Task ids.                                                               *)

LEMMA MappingFields ==
  ASSUME NEW a \in DOMAIN Apps, NEW i \in DOMAIN Apps[a]
  PROVE  /\ a \in Nat \ {0} /\ i \in Nat \ {0}
         /\ DOMAIN Apps = 1 .. Len(Apps) /\ Len(Apps) \in Nat
         /\ DOMAIN Apps[a] = 1 .. Len(Apps[a]) /\ Len(Apps[a]) \in Nat
         /\ Apps[a][i].rank \in Rank \cup {EVERYWHERE, ANYWHERE}
         /\ Apps[a][i].names \in [Rank -> Name]
         /\ Apps[a][i].pages \in Nat
<1> DEFINE M == [rank : Rank \cup {EVERYWHERE, ANYWHERE}, names : [Rank -> Name], pages : Nat]
<1>1. Apps \in Seq(Seq(M))
  BY AppsAssumption
<1> HIDE DEF M
<1>2. Apps[a] \in Seq(M)
  BY <1>1
<1>3. Apps[a][i] \in M
  BY <1>2
<1> QED BY <1>1, <1>2, <1>3 DEF M

(* The ids below mapping i, by the number of mappings that go everywhere.  *)
LEMMA FirstIds ==
  ASSUME NEW a \in DOMAIN Apps, NEW i \in 1 .. Len(Apps[a]) + 1
  PROVE  /\ FirstId(a, i) \in Nat
         /\ i = 1 => FirstId(a, i) = 0
         /\ i <= Len(Apps[a]) =>
              FirstId(a, i + 1) =
                FirstId(a, i) + 1 + (IF Apps[a][i].rank = EVERYWHERE THEN NUMCT - 1 ELSE 0)
         /\ \A j \in 1 .. i : FirstId(a, j) + (i - j) <= FirstId(a, i)
<1> DEFINE E(n) == {j \in 1 .. n - 1 : Apps[a][j].rank = EVERYWHERE}
<1>1. NUMCT - 1 \in Nat /\ i \in Nat
  BY GzllAssumption
<1>2. ASSUME NEW n \in Nat PROVE IsFiniteSet(E(n)) /\ Cardinality(E(n)) \in Nat
  <2>1. IsFiniteSet(1 .. n - 1) /\ E(n) \in SUBSET (1 .. n - 1)
    BY FS_Interval
  <2>2. IsFiniteSet(E(n))
    BY <2>1, FS_Subset
  <2> QED BY <2>2, FS_CardinalityType
<1>3. ASSUME NEW n \in Nat PROVE FirstId(a, n) = n - 1 + (NUMCT - 1) * Cardinality(E(n))
  BY DEF FirstId
<1>4. ASSUME NEW c \in Nat PROVE (NUMCT - 1) * c \in Nat
  BY <1>1
<1>5. FirstId(a, i) \in Nat
  <2> HIDE DEF E
  <2>1. Cardinality(E(i)) \in Nat
    BY <1>1, <1>2
  <2>2. (NUMCT - 1) * Cardinality(E(i)) \in Nat
    BY <1>4, <2>1
  <2> QED BY <1>1, <1>3, <2>2
<1>6. i = 1 => FirstId(a, i) = 0
  <2>1. E(1) = {}
    OBVIOUS
  <2>2. Cardinality(E(1)) = 0
    BY <2>1, FS_EmptySet
  <2> HIDE DEF E
  <2> QED BY <1>1, <1>3, <2>2
<1>7. ASSUME i <= Len(Apps[a])
      PROVE  FirstId(a, i + 1) =
               FirstId(a, i) + 1 + (IF Apps[a][i].rank = EVERYWHERE THEN NUMCT - 1 ELSE 0)
  <2>1. E(i + 1) = IF Apps[a][i].rank = EVERYWHERE THEN E(i) \cup {i} ELSE E(i)
    BY <1>1
  <2>2. i \notin E(i) /\ IsFiniteSet(E(i)) /\ Cardinality(E(i)) \in Nat
    <3>1. i \notin E(i)
      BY <1>1
    <3> HIDE DEF E
    <3> QED BY <1>1, <1>2, <3>1
  <2> HIDE DEF E
  <2>3. Cardinality(E(i + 1)) = Cardinality(E(i)) + (IF Apps[a][i].rank = EVERYWHERE THEN 1 ELSE 0)
    <3>1. Cardinality(E(i) \cup {i}) = Cardinality(E(i)) + 1
      BY <2>2, FS_AddElement
    <3>2. Cardinality(E(i)) = Cardinality(E(i)) + 0
      BY <2>2
    <3> QED BY <2>1, <3>1, <3>2
  <2>4. ASSUME NEW c \in Nat PROVE (NUMCT - 1) * (c + 1) = (NUMCT - 1) * c + (NUMCT - 1)
    BY <1>1
  <2>5. (NUMCT - 1) * Cardinality(E(i + 1)) =
          (NUMCT - 1) * Cardinality(E(i)) + (IF Apps[a][i].rank = EVERYWHERE THEN NUMCT - 1 ELSE 0)
    <3>1. CASE Apps[a][i].rank = EVERYWHERE
      BY <2>2, <2>3, <2>4, <3>1
    <3>2. CASE Apps[a][i].rank # EVERYWHERE
      <4>1. Cardinality(E(i + 1)) = Cardinality(E(i))
        BY <2>2, <2>3, <3>2
      <4> QED BY <1>4, <2>2, <3>2, <4>1
    <3> QED BY <3>1, <3>2
  <2>6. FirstId(a, i + 1) = i + (NUMCT - 1) * Cardinality(E(i + 1))
    <3>1. i + 1 \in Nat /\ (i + 1) - 1 = i
      BY <1>1
    <3> QED BY <1>3, <3>1
  <2>7. FirstId(a, i) = i - 1 + (NUMCT - 1) * Cardinality(E(i))
    BY <1>1, <1>3
  <2>8. (NUMCT - 1) * Cardinality(E(i)) \in Nat
    BY <1>4, <2>2
  <2> DEFINE p == (NUMCT - 1) * Cardinality(E(i))
             q == (NUMCT - 1) * Cardinality(E(i + 1))
             w == NUMCT - 1
  <2>9. /\ q = p + (IF Apps[a][i].rank = EVERYWHERE THEN w ELSE 0) /\ p \in Nat /\ w \in Nat
        /\ FirstId(a, i + 1) = i + q /\ FirstId(a, i) = i - 1 + p
    BY <1>1, <2>5, <2>6, <2>7, <2>8
  <2>10. FirstId(a, i + 1) = FirstId(a, i) + 1 + (IF Apps[a][i].rank = EVERYWHERE THEN w ELSE 0)
    <3> HIDE DEF p, q, w
    <3> QED BY <1>1, <2>9
  <2> QED BY <2>10
<1>8. ASSUME NEW j \in 1 .. i PROVE FirstId(a, j) + (i - j) <= FirstId(a, i)
  <2>1. j \in Nat
    OBVIOUS
  <2>2. E(j) \in SUBSET E(i)
    BY <1>1, <2>1
  <2>3. /\ IsFiniteSet(E(i)) /\ IsFiniteSet(E(j))
        /\ Cardinality(E(i)) \in Nat /\ Cardinality(E(j)) \in Nat
    BY <1>1, <1>2, <2>1
  <2> HIDE DEF E
  <2>4. Cardinality(E(j)) <= Cardinality(E(i))
    BY <2>2, <2>3, FS_Subset
  <2>5. ASSUME NEW c \in Nat, NEW d \in Nat, c <= d
        PROVE  (NUMCT - 1) * c <= (NUMCT - 1) * d
    BY <1>1, <2>5
  <2>6. /\ (NUMCT - 1) * Cardinality(E(j)) <= (NUMCT - 1) * Cardinality(E(i))
        /\ (NUMCT - 1) * Cardinality(E(j)) \in Nat /\ (NUMCT - 1) * Cardinality(E(i)) \in Nat
    BY <1>4, <2>3, <2>4, <2>5
  <2>7. /\ FirstId(a, j) = j - 1 + (NUMCT - 1) * Cardinality(E(j))
        /\ FirstId(a, i) = i - 1 + (NUMCT - 1) * Cardinality(E(i))
    BY <1>1, <1>3, <2>1
  <2> QED BY <1>1, <2>1, <2>6, <2>7
<1> QED BY <1>5, <1>6, <1>7, <1>8

(* No two instances have the same id, on whatever ranks they are.          *)
LEMMA TaskIdUnique ==
  ASSUME NEW a \in DOMAIN Apps, NEW i \in DOMAIN Apps[a], NEW j \in DOMAIN Apps[a],
         NEW q \in Rank, NEW r \in Rank, PlacedOn(a, i, q), PlacedOn(a, j, r),
         TaskId(a, i, q) = TaskId(a, j, r)
  PROVE  i = j /\ q = r
<1>1. ASSUME NEW x \in DOMAIN Apps[a], NEW y \in DOMAIN Apps[a], NEW s \in Rank, NEW t \in Rank, x < y
      PROVE  TaskId(a, x, s) < TaskId(a, y, t)
  <2>1. /\ x \in 1 .. Len(Apps[a]) /\ y \in 1 .. Len(Apps[a]) /\ Len(Apps[a]) \in Nat
        /\ x + 1 \in 1 .. y /\ y \in 1 .. Len(Apps[a]) + 1 /\ x \in 1 .. Len(Apps[a]) + 1
    BY <1>1, MappingFields
  <2>2. FirstId(a, x + 1) + (y - (x + 1)) <= FirstId(a, y)
    BY <2>1, FirstIds
  <2>3. FirstId(a, x + 1) = FirstId(a, x) + 1 + (IF Apps[a][x].rank = EVERYWHERE THEN NUMCT - 1 ELSE 0)
    <3>1. x <= Len(Apps[a]) /\ x \in 1 .. Len(Apps[a]) + 1
      BY <2>1
    <3> QED BY <3>1, FirstIds, Zenon
  <2>4. FirstId(a, x) \in Nat /\ FirstId(a, y) \in Nat
    BY <2>1, FirstIds
  <2>5. s \in 0 .. NUMCT - 1 /\ t \in 0 .. NUMCT - 1 /\ NUMCT \in Nat
    BY GzllAssumption DEF Rank
  <2>6. /\ TaskId(a, x, s) = FirstId(a, x) + (IF Apps[a][x].rank = EVERYWHERE THEN s ELSE 0)
        /\ TaskId(a, y, t) = FirstId(a, y) + (IF Apps[a][y].rank = EVERYWHERE THEN t ELSE 0)
    BY DEF TaskId
  <2>7. TaskId(a, x, s) <= FirstId(a, x + 1) - 1
    BY <2>3, <2>4, <2>5, <2>6
  <2>8. FirstId(a, y) <= TaskId(a, y, t) /\ TaskId(a, y, t) \in Nat
    BY <2>4, <2>5, <2>6
  <2>9. y - (x + 1) \in Nat /\ FirstId(a, x + 1) \in Nat /\ TaskId(a, x, s) \in Nat
    <3>1. y - (x + 1) \in Nat
      BY <2>1
    <3>2. FirstId(a, x + 1) \in Nat
      BY <2>3, <2>4, <2>5
    <3>3. TaskId(a, x, s) \in Nat
      BY <2>4, <2>5, <2>6
    <3> QED BY <3>1, <3>2, <3>3
  <2> QED BY <2>2, <2>4, <2>7, <2>8, <2>9
<1>2. /\ i \in Nat /\ j \in Nat /\ TaskId(a, i, q) \in Nat /\ TaskId(a, j, r) \in Nat
      /\ FirstId(a, i) \in Nat
  <2>1. i \in 1 .. Len(Apps[a]) + 1 /\ j \in 1 .. Len(Apps[a]) + 1 /\ i \in Nat /\ j \in Nat
    BY MappingFields
  <2>2. FirstId(a, i) \in Nat /\ FirstId(a, j) \in Nat
    BY <2>1, FirstIds
  <2>3. q \in Nat /\ r \in Nat
    BY GzllAssumption DEF Rank
  <2> QED BY <2>1, <2>2, <2>3 DEF TaskId
<1>3. i = j
  <2>1. ~(i < j) /\ ~(j < i)
    BY <1>1, <1>2
  <2> QED BY <1>2, <2>1
<1>4. q = r
  <2>1. CASE Apps[a][i].rank = EVERYWHERE
    <3>1. FirstId(a, i) + q = FirstId(a, i) + r /\ q \in Nat /\ r \in Nat
      BY <1>3, <2>1, GzllAssumption DEF TaskId, Rank
    <3> QED BY <1>2, <3>1
  <2>2. CASE Apps[a][i].rank # EVERYWHERE
    BY <1>3, <2>2 DEF PlacedOn
  <2> QED BY <2>1, <2>2
<1> QED BY <1>3, <1>4

LEMMA TaskIdType ==
  ASSUME NEW a \in DOMAIN Apps, NEW i \in DOMAIN Apps[a], NEW r \in Rank
  PROVE  TaskId(a, i, r) \in Nat
<1>1. i \in 1 .. Len(Apps[a]) + 1
  BY MappingFields
<1>2. FirstId(a, i) \in Nat
  BY <1>1, FirstIds
<1>3. r \in Nat
  BY GzllAssumption DEF Rank
<1> QED BY <1>2, <1>3 DEF TaskId

-----------------------------------------------------------------------------
(* The inductive invariant.                                                *)

(* Mapping i of application a gives task k to rank r under this name.      *)
Places(a, i, r, k, name) ==
  PlacedOn(a, i, r) /\ TaskId(a, i, r) = k /\ Apps[a][i].names[r] = name

(* Messages: announcements are true, and never come back to their sender.  *)
NewMsg ==
  {m \in [type : {"node_new"}, source : Rank, app : Nat \ {0}, taskid : Nat, name : Name] :
     m.app \in DOMAIN Apps /\ \E i \in DOMAIN Apps[m.app] : Places(m.app, i, m.source, m.taskid, m.name)}

MigrateMsg == [type : {"node_migrate"}, app : Nat \ {0}, taskid : Nat, dest : Rank]

FetchMsg == [type : {"node_fetch"}, source : Rank, node : Nat, app : Nat \ {0}, taskid : Nat]

Msg == NewMsg \cup MigrateMsg \cup FetchMsg

MsgTo(r) == {m \in Msg : m.type = "node_new" => m.source # r}

Outgoing == {o \in [to : Rank, msg : Msg] : o.msg \in MsgTo(o.to)}

DirEntry == [rank : Rank, nodeid : Nat, identifier : Seq(Words)]

NodeRecord ==
  [id : Nat, app : Nat, taskid : Nat \cup {INVALID}, pages : Seq(0 .. FRAMES), ready : BOOLEAN,
   task : (Nat \ {0}) \X Nat]

TypeOK ==
  /\ stage \in [Rank -> {"main", "create", "getep", "app", "map", "done"}]
  /\ failed \in SUBSET Rank
  /\ pos \in [Rank -> [app : Nat \ {0}, idx : Nat, offset : Nat, peer : Nat]]
  /\ out \in [Rank -> [Threads -> Seq(Outgoing)]]
  /\ queue \in [Rank -> Seq(Msg)] /\ \A r \in Rank : queue[r] \in Seq(MsgTo(r))
  /\ taskdir \in [Rank -> Seq(Seq(DirEntry \cup {INVALID}))]
  /\ nxtid \in [Rank -> Nat \ {0}]
  /\ nodes \in [Rank -> Seq(NodeRecord)]
  /\ pool \in [Rank -> Seq(1 .. FRAMES)]
  /\ buffer \in [Rank -> Seq(Words)]

(* The directories that exist, and the offset that bootstrap has reached.  *)
BootOrder ==
  \A r \in Rank :
    /\ stage[r] \notin {"map", "done"} => pos[r].app = Len(taskdir[r]) + 1
    /\ stage[r] = "map" =>
         /\ pos[r].app = Len(taskdir[r])
         /\ pos[r].idx <= Len(Apps[pos[r].app])
         /\ pos[r].idx + pos[r].offset = FirstId(pos[r].app, pos[r].idx + 1)
    /\ stage[r] = "done" => pos[r].app > Len(Apps)
    /\ Len(taskdir[r]) <= Len(Apps)

(* The nodes that a rank has started are the first in its list, with ids   *)
(* by position; nothing is migrated before the last rank has booted.       *)
OwnNodes ==
  \A r \in Rank :
    /\ nxtid[r] - 1 <= Len(nodes[r])
    /\ \A j \in 1 .. nxtid[r] - 1 : nodes[r][j].id = j

BootFirst ==
  (\E q \in Rank : stage[q] # "done") =>
    /\ \A r \in Rank : Len(nodes[r]) = nxtid[r] - 1
    /\ \A l \in Line : \A x \in DOMAIN Messages(l) : Messages(l)[x].type = "node_new"

(* An entry of a rank's own directory for the rank itself finds the node.  *)
OwnEntries ==
  \A r \in Rank : \A a \in DOMAIN taskdir[r] : \A k \in DOMAIN taskdir[r][a] :
    LET e == taskdir[r][a][k]
    IN e # INVALID /\ e.rank = r =>
         /\ e.nodeid \in 1 .. nxtid[r] - 1
         /\ nodes[r][e.nodeid].task = <<a, k - 1>>

(* Bootstrap on rank r is beyond mapping i of application a.               *)
Passed(r, a, i) ==
  a < pos[r].app \/ (a = pos[r].app /\ stage[r] = "map" /\ i <= pos[r].idx)

(* Every node is of a task that some rank has started.                     *)
NodesStarted ==
  \A r \in Rank : \A n \in DOMAIN nodes[r] :
    LET k == nodes[r][n].task
    IN k[1] \in DOMAIN Apps /\ \E q \in Rank : \E i \in DOMAIN Apps[k[1]] :
         PlacedOn(k[1], i, q) /\ TaskId(k[1], i, q) = k[2] /\ Passed(q, k[1], i)

Fetch(m) == m.type = "node_fetch"

(* Fetches name nodes that exist, of the right task.                       *)
FetchesTrue ==
  \A l \in Line : \A x \in DOMAIN Messages(l) :
    LET m == Messages(l)[x]
    IN Fetch(m) => m.node \in DOMAIN nodes[m.source] /\ nodes[m.source][m.node].task = <<m.app, m.taskid>>

(* One place for each task.                                                *)
RunsOnce ==
  \A r, s \in Rank : \A i \in DOMAIN nodes[r], j \in DOMAIN nodes[s] :
    nodes[r][i].ready /\ nodes[s][j].ready /\ nodes[r][i].task = nodes[s][j].task => r = s /\ i = j

FetchedNotRunning ==
  \A l \in Line : \A x \in DOMAIN Messages(l) :
    LET m == Messages(l)[x]
    IN Fetch(m) => \A r \in Rank : \A i \in DOMAIN nodes[r] :
                     nodes[r][i].ready => nodes[r][i].task # <<m.app, m.taskid>>

FetchedOnce ==
  \A l, n \in Line : \A x \in DOMAIN Messages(l), y \in DOMAIN Messages(n) :
    LET m == Messages(l)[x]
        o == Messages(n)[y]
    IN Fetch(m) /\ Fetch(o) /\ <<m.app, m.taskid>> = <<o.app, o.taskid>> => l = n /\ x = y

Inv ==
  /\ TypeOK /\ BootOrder /\ OwnNodes /\ BootFirst /\ OwnEntries /\ NodesStarted
  /\ FetchesTrue /\ RunsOnce /\ FetchedNotRunning /\ FetchedOnce
  /\ TaskdirTruthful /\ PagesPrivate

-----------------------------------------------------------------------------
(* Directories, names and pages.                                           *)

(* A directory grows, and at most one unused entry is filled in.           *)
Registered(new, dir, taskid, entry) ==
  /\ new \in Seq(DirEntry \cup {INVALID})
  /\ \A k \in DOMAIN new : \/ new[k] = INVALID
                           \/ k \in DOMAIN dir /\ new[k] = dir[k]
                           \/ k = taskid + 1 /\ new[k] = entry

LEMMA RegisterEntry ==
  ASSUME NEW dir \in Seq(DirEntry \cup {INVALID}), NEW taskid \in Nat, NEW entry \in DirEntry
  PROVE  Registered(taskdir_task_register(dir, taskid, entry), dir, taskid, entry)
<1> DEFINE T == DirEntry \cup {INVALID}
           size == IF taskid >= Len(dir) THEN taskid + 1 ELSE Len(dir)
           grown == [i \in 1 .. size |-> IF i <= Len(dir) THEN dir[i] ELSE INVALID]
           filled == [grown EXCEPT ![taskid + 1] = entry]
           new == taskdir_task_register(dir, taskid, entry)
<1>1. dir \in Seq(T) /\ entry \in T /\ INVALID \in T
  OBVIOUS
<1> HIDE DEF T
<1>2. size \in Nat /\ taskid + 1 \in 1 .. size
  BY <1>1
<1>3. new = IF grown[taskid + 1] = INVALID THEN filled ELSE grown
  BY DEF taskdir_task_register
<1> HIDE DEF size
<1>4. ASSUME NEW i \in 1 .. size PROVE grown[i] \in T
  BY <1>1, <1>2
<1>5. grown \in Seq(T) /\ DOMAIN grown = 1 .. size
  BY <1>2, <1>4
<1>6. ASSUME NEW k \in 1 .. size
      PROVE  grown[k] = INVALID \/ (k \in DOMAIN dir /\ grown[k] = dir[k])
  BY <1>1, <1>2
<1> HIDE DEF grown
<1>7. filled \in Seq(T) /\ DOMAIN filled = 1 .. size
  BY <1>1, <1>2, <1>5
<1>8. ASSUME NEW k \in 1 .. size
      PROVE  filled[k] = IF k = taskid + 1 THEN entry ELSE grown[k]
  BY <1>5
<1> HIDE DEF filled, new
<1>9. ASSUME NEW k \in DOMAIN new
      PROVE  \/ new[k] = INVALID
             \/ k \in DOMAIN dir /\ new[k] = dir[k]
             \/ k = taskid + 1 /\ new[k] = entry
  BY <1>3, <1>5, <1>6, <1>7, <1>8
<1> QED BY <1>3, <1>5, <1>7, <1>9 DEF T, new, Registered

(* What a kernel reads as the name of a new node: the name, and no more if *)
(* the name brings its final zero.                                         *)
LEMMA NameRead ==
  ASSUME NEW name \in Name, NEW rest \in Seq(Words)
  PROVE  /\ NameIn(name \o rest) \in Seq(Words)
         /\ IF Last(name) \in EndWords THEN NameIn(name \o rest) = name
            ELSE IsPrefix(name, NameIn(name \o rest))
<1> DEFINE words == name \o rest
           ends == {i \in 1 .. Len(words) : words[i] \in EndWords}
           first == CHOOSE i \in ends : \A j \in ends : i <= j
<1>1. /\ name \in Seq(Words) /\ name # <<>> /\ Len(name) \in Nat /\ Len(name) >= 1
      /\ \A k \in 1 .. Len(name) - 1 : name[k] \notin EndWords
  BY DEF Name
<1>2. /\ words \in Seq(Words) /\ Len(words) = Len(name) + Len(rest) /\ Len(rest) \in Nat
      /\ \A k \in 1 .. Len(name) : words[k] = name[k]
  BY <1>1
<1> HIDE DEF words
<1>3. ASSUME NEW n \in Len(name) .. Len(words)
      PROVE  SubSeq(words, 1, n) \in Seq(Words) /\ IsPrefix(name, SubSeq(words, 1, n))
  <2>1. /\ SubSeq(words, 1, n) \in Seq(Words) /\ Len(SubSeq(words, 1, n)) = n
        /\ \A k \in 1 .. n : SubSeq(words, 1, n)[k] = words[k]
    BY <1>1, <1>2
  <2>2. SubSeq(SubSeq(words, 1, n), 1, Len(name)) = name
    <3> DEFINE w == SubSeq(words, 1, n)
    <3> HIDE DEF w
    <3>1. w \in Seq(Words) /\ Len(w) = n /\ \A k \in 1 .. n : w[k] = words[k]
      BY <2>1 DEF w
    <3>2. /\ SubSeq(w, 1, Len(name)) \in Seq(Words) /\ Len(SubSeq(w, 1, Len(name))) = Len(name)
          /\ \A k \in 1 .. Len(name) : SubSeq(w, 1, Len(name))[k] = w[k]
      BY <1>1, <3>1
    <3>3. ASSUME NEW k \in 1 .. Len(name) PROVE SubSeq(w, 1, Len(name))[k] = name[k]
      BY <1>1, <1>2, <3>1, <3>2
    <3>4. SubSeq(w, 1, Len(name)) = name
      BY <1>1, <3>2, <3>3
    <3> QED BY <3>4 DEF w
  <2>3. SubSeq(name, 1, Len(name)) = name
    BY <1>1
  <2> QED BY <1>1, <2>1, <2>2, <2>3 DEF IsPrefix
<1>4. CASE ends = {}
  <2>1. NameIn(words) = words
    BY <1>4 DEF NameIn
  <2>2. SubSeq(words, 1, Len(words)) = words
    BY <1>2
  <2>3. IsPrefix(name, words)
    <3>1. Len(words) \in Len(name) .. Len(words)
      BY <1>1, <1>2
    <3> QED BY <1>3, <2>2, <3>1
  <2>4. Last(name) \notin EndWords
    BY <1>1, <1>2, <1>4 DEF Last
  <2> QED BY <1>2, <2>1, <2>3, <2>4 DEF words
<1>5. CASE ends # {}
  <2>1. NameIn(words) = SubSeq(words, 1, first)
    BY <1>5 DEF NameIn
  <2>2. first \in ends /\ \A j \in ends : first <= j
    <3>1. ends \subseteq Nat
      OBVIOUS
    <3>2. PICK x \in ends : \A y \in ends : ~(<<y, x>> \in OpToRel(<, Nat))
      BY <1>5, <3>1, NatLessThanWellFounded, WFMin
    <3>3. ASSUME NEW y \in ends PROVE x <= y
      <4>1. x \in Nat /\ y \in Nat
        BY <3>1
      <4>2. ~(y < x)
        BY <3>2, <4>1 DEF OpToRel
      <4> QED BY <4>1, <4>2
    <3> HIDE DEF ends
    <3> QED BY <3>3
  <2> HIDE DEF first
  <2>3. first \in 1 .. Len(words) /\ words[first] \in EndWords
    BY <2>2
  <2>4. first >= Len(name)
    <3>1. ASSUME first < Len(name) PROVE FALSE
      <4>1. first \in 1 .. Len(name) - 1 /\ first \in 1 .. Len(name)
        BY <1>1, <1>2, <2>3, <3>1
      <4> QED BY <1>1, <1>2, <2>3, <4>1
    <3> QED BY <1>1, <1>2, <2>3, <3>1
  <2>5. first \in Len(name) .. Len(words)
    BY <1>1, <1>2, <2>3, <2>4
  <2>6. NameIn(words) \in Seq(Words) /\ IsPrefix(name, NameIn(words))
    BY <1>3, <2>1, <2>5
  <2>7. CASE Last(name) \in EndWords
    <3>1. Len(name) \in ends
      BY <1>1, <1>2, <2>7 DEF Last
    <3>2. first = Len(name)
      BY <1>1, <2>2, <2>5, <3>1
    <3>3. /\ SubSeq(words, 1, Len(name)) \in Seq(Words) /\ Len(SubSeq(words, 1, Len(name))) = Len(name)
          /\ \A k \in 1 .. Len(name) : SubSeq(words, 1, Len(name))[k] = words[k]
      BY <1>1, <1>2
    <3>4. SubSeq(words, 1, Len(name)) = name
      BY <1>1, <1>2, <3>3
    <3> QED BY <2>1, <2>6, <2>7, <3>2, <3>4 DEF words
  <2> QED BY <2>6, <2>7 DEF words
<1> QED BY <1>4, <1>5

LEMMA ReceivedName ==
  ASSUME TypeOK, NEW r \in Rank, NEW name \in Name
  PROVE  /\ Received(r, name) \in Seq(Words)
         /\ node_new_name(r, name) \in Seq(Words)
         /\ IF Last(name) \in EndWords THEN node_new_name(r, name) = name
            ELSE IsPrefix(name, node_new_name(r, name))
<1> DEFINE rest == Rest(buffer[r], Len(name))
<1>1. name \in Seq(Words) /\ name = [i \in 1 .. Len(name) |-> name[i]]
  BY DEF Name
<1>2. rest \in Seq(Words)
  BY <1>1 DEF TypeOK, Rest
<1>3. Received(r, name) = name \o rest
  BY <1>1 DEF Received
<1> HIDE DEF rest
<1>4. Received(r, name) \in Seq(Words)
  BY <1>1, <1>2, <1>3
<1> QED BY <1>2, <1>3, <1>4, NameRead DEF node_new_name

-----------------------------------------------------------------------------
(* Messages on the way.                                                    *)

LEMMA LineMessages ==
  ASSUME TypeOK, NEW r \in Rank
  PROVE  /\ <<r, "endpoint">> \in Line /\ Messages(<<r, "endpoint">>) = queue[r]
         /\ queue[r] \in Seq(Msg)
         /\ \A t \in Threads :
              /\ <<r, t>> \in Line /\ t # "endpoint" /\ out[r][t] \in Seq(Outgoing)
              /\ Messages(<<r, t>>) = [j \in 1 .. Len(out[r][t]) |-> out[r][t][j].msg]
              /\ Messages(<<r, t>>) \in Seq(Msg)
<1>1. /\ <<r, "endpoint">> \in Line /\ Messages(<<r, "endpoint">>) = queue[r] /\ queue[r] \in Seq(Msg)
  BY DEF Line, Messages, TypeOK
<1>2. ASSUME NEW t \in Threads
      PROVE  /\ <<r, t>> \in Line /\ t # "endpoint" /\ out[r][t] \in Seq(Outgoing)
             /\ Messages(<<r, t>>) = [j \in 1 .. Len(out[r][t]) |-> out[r][t][j].msg]
             /\ Messages(<<r, t>>) \in Seq(Msg)
  <2>1. <<r, t>> \in Line /\ t # "endpoint"
    BY DEF Line, Threads
  <2>2. out[r][t] \in Seq(Outgoing)
    BY DEF TypeOK
  <2>3. Messages(<<r, t>>) = [j \in 1 .. Len(out[r][t]) |-> out[r][t][j].msg]
    BY <2>1, <2>2 DEF Messages
  <2>4. ASSUME NEW j \in 1 .. Len(out[r][t]) PROVE out[r][t][j].msg \in Msg
    <3>1. out[r][t][j] \in Outgoing
      BY <2>2
    <3> QED BY <3>1 DEF Outgoing
  <2>5. Len(out[r][t]) \in Nat
    BY <2>2
  <2> QED BY <2>1, <2>2, <2>3, <2>4, <2>5
<1> QED BY <1>1, <1>2

LEMMA LineForms ==
  ASSUME TypeOK, NEW l \in Line
  PROVE  /\ Messages(l) \in Seq(Msg)
         /\ l[1] \in Rank /\ l = <<l[1], l[2]>>
         /\ l[2] = "endpoint" \/ l[2] \in Threads
<1>1. l[1] \in Rank /\ l = <<l[1], l[2]>> /\ (l[2] = "endpoint" \/ l[2] \in Threads)
  BY DEF Line
<1>2. CASE l[2] = "endpoint"
  BY <1>1, <1>2, LineMessages
<1>3. CASE l[2] \in Threads
  <2>1. Messages(<<l[1], l[2]>>) \in Seq(Msg)
    BY <1>1, <1>3, LineMessages
  <2> QED BY <1>1, <2>1
<1> QED BY <1>1, <1>2, <1>3

(* The head of one line may leave it, and messages may join another line.  *)
Moves(u, v, d, s) ==
  /\ Messages(u)' = SubSeq(Messages(u), d + 1, Len(Messages(u)))
  /\ Messages(v)' = Messages(v) \o s
  /\ \A l \in Line \ {u, v} : Messages(l)' = Messages(l)

LEMMA MessagesAfter ==
  ASSUME TypeOK, NEW u \in Line, NEW v \in Line, u # v, NEW d \in Nat, d <= Len(Messages(u)),
         NEW s \in Seq(Msg), Moves(u, v, d, s)
  PROVE  \A l \in Line : \A x \in DOMAIN Messages(l)' :
           \/ \E n \in Line : \E y \in DOMAIN Messages(n) :
                 Messages(l)'[x] = Messages(n)[y] /\ (n = u => y > d)
           \/ \E z \in DOMAIN s : Messages(l)'[x] = s[z]
<1> SUFFICES ASSUME NEW l \in Line, NEW x \in DOMAIN Messages(l)'
             PROVE  \/ \E n \in Line : \E y \in DOMAIN Messages(n) :
                          Messages(l)'[x] = Messages(n)[y] /\ (n = u => y > d)
                    \/ \E z \in DOMAIN s : Messages(l)'[x] = s[z]
  OBVIOUS
<1>1. Messages(u) \in Seq(Msg) /\ Messages(v) \in Seq(Msg) /\ Messages(l) \in Seq(Msg)
  BY LineForms
<1>2. CASE l = u
  <2> DEFINE M == Messages(u)
  <2>1. Messages(l)' = SubSeq(M, d + 1, Len(M)) /\ M \in Seq(Msg) /\ d <= Len(M)
    BY <1>1, <1>2 DEF Moves
  <2> HIDE DEF M
  <2>2. x \in 1 .. Len(M) - d /\ Messages(l)'[x] = M[x + d] /\ x + d \in DOMAIN M /\ x + d > d
    BY <2>1
  <2> QED BY <2>2 DEF M
<1>3. CASE l = v
  <2> DEFINE M == Messages(v)
  <2>1. Messages(l)' = M \o s /\ M \in Seq(Msg)
    BY <1>1, <1>3 DEF Moves
  <2> HIDE DEF M
  <2>2. \/ x \in DOMAIN M /\ Messages(l)'[x] = M[x]
        \/ x - Len(M) \in DOMAIN s /\ Messages(l)'[x] = s[x - Len(M)]
    BY <2>1
  <2> QED BY <2>2 DEF M
<1>4. CASE l \notin {u, v}
  <2>1. Messages(l)' = Messages(l)
    BY <1>4 DEF Moves
  <2> QED BY <1>4, <2>1
<1> QED BY <1>2, <1>3, <1>4

LEMMA FetchedOnceKept ==
  ASSUME TypeOK, FetchedOnce, NEW u \in Line, NEW v \in Line, u # v, NEW d \in Nat,
         d <= Len(Messages(u)), NEW s \in Seq(Msg), Moves(u, v, d, s),
         \A z \in DOMAIN s : Fetch(s[z]) =>
           /\ Len(s) = 1
           /\ \A l \in Line : \A y \in DOMAIN Messages(l) :
                Fetch(Messages(l)[y]) /\ <<Messages(l)[y].app, Messages(l)[y].taskid>> = <<s[z].app, s[z].taskid>>
                  => l = u /\ y <= d
  PROVE  FetchedOnce'
<1> DEFINE new(l, x) == l = v /\ x > Len(Messages(v))
           at(l, x) == IF l = u THEN x + d ELSE x
<1>0. Messages(u) \in Seq(Msg) /\ Messages(v) \in Seq(Msg) /\ Len(Messages(v)) \in Nat
  BY LineForms
<1>1. ASSUME NEW l \in Line, NEW x \in DOMAIN Messages(l)', ~new(l, x)
      PROVE  /\ at(l, x) \in DOMAIN Messages(l) /\ Messages(l)'[x] = Messages(l)[at(l, x)] /\ x \in Nat
             /\ l = u => at(l, x) > d
  <2>1. Messages(l) \in Seq(Msg)
    BY LineForms
  <2>2. CASE l = u
    <3> DEFINE M == Messages(u)
    <3>1. Messages(l)' = SubSeq(M, d + 1, Len(M)) /\ M \in Seq(Msg) /\ d <= Len(M)
      BY <1>0, <2>2 DEF Moves
    <3> HIDE DEF M
    <3>2. x \in 1 .. Len(M) - d /\ Messages(l)'[x] = M[x + d] /\ x + d \in DOMAIN M /\ x + d > d
      BY <3>1
    <3> QED BY <2>2, <3>2 DEF M
  <2>3. CASE l = v
    <3> DEFINE M == Messages(v)
    <3>1. Messages(l)' = M \o s /\ M \in Seq(Msg) /\ ~(x > Len(M))
      BY <1>0, <1>1, <2>3 DEF Moves
    <3> HIDE DEF M
    <3>2. x \in DOMAIN M /\ Messages(l)'[x] = M[x] /\ x \in Nat
      BY <3>1
    <3> QED BY <2>3, <3>2 DEF M
  <2>4. CASE l \notin {u, v}
    <3>1. Messages(l)' = Messages(l)
      BY <2>4 DEF Moves
    <3> QED BY <2>1, <2>4, <3>1
  <2> QED BY <2>2, <2>3, <2>4
<1>2. ASSUME NEW l \in Line, NEW x \in DOMAIN Messages(l)', new(l, x)
      PROVE  /\ l = v /\ x \in Nat /\ x - Len(Messages(v)) \in DOMAIN s
             /\ Messages(l)'[x] = s[x - Len(Messages(v))]
  <2> DEFINE M == Messages(v)
  <2>1. l = v /\ Messages(l)' = M \o s /\ M \in Seq(Msg) /\ x > Len(M)
    BY <1>0, <1>2 DEF Moves
  <2> HIDE DEF M
  <2>2. x - Len(M) \in DOMAIN s /\ Messages(l)'[x] = s[x - Len(M)] /\ x \in Nat
    BY <2>1
  <2> QED BY <2>1, <2>2 DEF M
<1> SUFFICES ASSUME NEW l \in Line, NEW n \in Line, NEW x \in DOMAIN Messages(l)', NEW y \in DOMAIN Messages(n)',
                    Fetch(Messages(l)'[x]), Fetch(Messages(n)'[y]),
                    <<Messages(l)'[x].app, Messages(l)'[x].taskid>> = <<Messages(n)'[y].app, Messages(n)'[y].taskid>>
             PROVE  l = n /\ x = y
  BY DEF FetchedOnce, Fetch
<1>3. CASE ~new(l, x) /\ ~new(n, y)
  <2>1. /\ at(l, x) \in DOMAIN Messages(l) /\ Messages(l)'[x] = Messages(l)[at(l, x)] /\ x \in Nat
        /\ at(n, y) \in DOMAIN Messages(n) /\ Messages(n)'[y] = Messages(n)[at(n, y)] /\ y \in Nat
    BY <1>1, <1>3
  <2>2. l = n /\ at(l, x) = at(n, y)
    <3> HIDE DEF at, new
    <3> QED BY <2>1 DEF FetchedOnce
  <2> QED BY <2>1, <2>2
<1>4. ASSUME NEW i \in Line, NEW j \in Line, NEW p \in DOMAIN Messages(i)', NEW q \in DOMAIN Messages(j)',
             Fetch(Messages(i)'[p]), Fetch(Messages(j)'[q]),
             <<Messages(i)'[p].app, Messages(i)'[p].taskid>> = <<Messages(j)'[q].app, Messages(j)'[q].taskid>>,
             new(i, p), ~new(j, q)
      PROVE  FALSE
  <2>1. /\ at(j, q) \in DOMAIN Messages(j) /\ Messages(j)'[q] = Messages(j)[at(j, q)] /\ q \in Nat
        /\ j = u => at(j, q) > d
    BY <1>1, <1>4
  <2>2. /\ p - Len(Messages(v)) \in DOMAIN s /\ Messages(i)'[p] = s[p - Len(Messages(v))]
    BY <1>2, <1>4
  <2>3. j = u /\ at(j, q) <= d
    <3> HIDE DEF at, new
    <3> QED BY <1>4, <2>1, <2>2
  <2> QED BY <2>1, <2>3
<1>5. CASE new(l, x) /\ new(n, y)
  <2>1. /\ l = v /\ x \in Nat /\ x - Len(Messages(v)) \in DOMAIN s
        /\ Messages(l)'[x] = s[x - Len(Messages(v))]
        /\ n = v /\ y \in Nat /\ y - Len(Messages(v)) \in DOMAIN s
    BY <1>2, <1>5
  <2>2. Len(s) = 1
    BY <2>1
  <2> QED BY <1>0, <2>1, <2>2
<1> HIDE DEF new
<1> QED BY <1>3, <1>4, <1>5

-----------------------------------------------------------------------------
(* Nodes that only lose their place in the ready queue or gain pages.      *)

Tame ==
  \A r \in Rank :
    /\ DOMAIN nodes'[r] = DOMAIN nodes[r]
    /\ \A i \in DOMAIN nodes[r] :
         /\ nodes'[r][i].id = nodes[r][i].id /\ nodes'[r][i].task = nodes[r][i].task
         /\ nodes'[r][i].ready => nodes[r][i].ready

LEMMA NodesKept ==
  ASSUME TypeOK, TypeOK', OwnNodes, RunsOnce, Tame, nxtid' = nxtid
  PROVE  OwnNodes' /\ RunsOnce'
<1>1. ASSUME NEW r \in Rank
      PROVE  /\ Len(nodes'[r]) = Len(nodes[r]) /\ nxtid[r] \in Nat \ {0}
             /\ DOMAIN nodes[r] = 1 .. Len(nodes[r]) /\ Len(nodes[r]) \in Nat
  <2>1. nodes[r] \in Seq(NodeRecord) /\ nodes'[r] \in Seq(NodeRecord) /\ nxtid[r] \in Nat \ {0}
    BY DEF TypeOK
  <2>2. DOMAIN nodes'[r] = DOMAIN nodes[r]
    BY DEF Tame
  <2> QED BY <2>1, <2>2
<1>2. OwnNodes'
  <2> SUFFICES ASSUME NEW r \in Rank
               PROVE  /\ nxtid[r] - 1 <= Len(nodes'[r])
                      /\ \A j \in 1 .. nxtid[r] - 1 : nodes'[r][j].id = j
    BY DEF OwnNodes
  <2>1. nxtid[r] - 1 <= Len(nodes[r]) /\ \A j \in 1 .. nxtid[r] - 1 : nodes[r][j].id = j
    BY DEF OwnNodes
  <2>2. \A j \in 1 .. nxtid[r] - 1 : j \in DOMAIN nodes[r]
    BY <1>1, <2>1
  <2> QED BY <1>1, <2>1, <2>2 DEF Tame
<1>3. RunsOnce'
  BY DEF RunsOnce, Tame
<1> QED BY <1>2, <1>3

(* The directory and the place of the bootstrap in it are left alone.      *)
LEMMA DirectoryKept ==
  ASSUME BootOrder, TaskdirTruthful, stage' = stage, pos' = pos, taskdir' = taskdir
  PROVE  BootOrder' /\ TaskdirTruthful'
<1>1. BootOrder'
  BY DEF BootOrder
<1>2. TaskdirTruthful'
  <2> DEFINE True(e, a, k) ==
               e # INVALID =>
                 /\ e.rank \in Rank
                 /\ \E i \in DOMAIN Apps[a] :
                      /\ PlacedOn(a, i, e.rank) /\ TaskId(a, i, e.rank) = k - 1
                      /\ LET name == Apps[a][i].names[e.rank]
                         IN IF Last(name) \in EndWords THEN e.identifier = name
                            ELSE IsPrefix(name, e.identifier)
  <2>1. \A r \in Rank : \A a \in DOMAIN taskdir[r] : \A k \in DOMAIN taskdir[r][a] :
          True(taskdir[r][a][k], a, k)
    BY ZenonT(60) DEF TaskdirTruthful
  <2> HIDE DEF True
  <2>2. \A r \in Rank : \A a \in DOMAIN taskdir'[r] : \A k \in DOMAIN taskdir'[r][a] :
          True(taskdir'[r][a][k], a, k)
    BY <2>1
  <2> USE DEF True
  <2> QED BY <2>2, ZenonT(60) DEF TaskdirTruthful
<1> QED BY <1>1, <1>2

LEMMA EntriesKept ==
  ASSUME TypeOK, OwnNodes, OwnEntries, Tame, nxtid' = nxtid, taskdir' = taskdir
  PROVE  OwnEntries'
<1> SUFFICES ASSUME NEW r \in Rank, NEW a \in DOMAIN taskdir[r], NEW k \in DOMAIN taskdir[r][a],
                    taskdir[r][a][k] # INVALID, taskdir[r][a][k].rank = r
             PROVE  /\ taskdir[r][a][k].nodeid \in 1 .. nxtid[r] - 1
                    /\ nodes'[r][taskdir[r][a][k].nodeid].task = <<a, k - 1>>
  BY DEF OwnEntries
<1>1. PICK x : x = taskdir[r][a][k].nodeid
  OBVIOUS
<1>2. x \in 1 .. nxtid[r] - 1 /\ nodes[r][x].task = <<a, k - 1>>
  BY <1>1 DEF OwnEntries
<1>3. nodes[r] \in Seq(NodeRecord) /\ nxtid[r] \in Nat /\ nxtid[r] - 1 <= Len(nodes[r])
  BY DEF TypeOK, OwnNodes
<1>4. x \in DOMAIN nodes[r]
  BY <1>2, <1>3
<1>5. nodes'[r][x].task = nodes[r][x].task
  BY <1>4 DEF Tame
<1> QED BY <1>1, <1>2, <1>5

LEMMA StartedKept ==
  ASSUME NodesStarted, Tame,
         \A q \in Rank, a \in DOMAIN Apps : \A i \in DOMAIN Apps[a] : Passed(q, a, i) => Passed(q, a, i)'
  PROVE  NodesStarted'
<1> SUFFICES ASSUME NEW r \in Rank, NEW n \in DOMAIN nodes[r], NEW k, k = nodes'[r][n].task
             PROVE  k[1] \in DOMAIN Apps /\ \E q \in Rank : \E i \in DOMAIN Apps[k[1]] :
                      PlacedOn(k[1], i, q) /\ TaskId(k[1], i, q) = k[2] /\ Passed(q, k[1], i)'
  BY DEF NodesStarted, Tame
<1>1. k = nodes[r][n].task
  BY DEF Tame
<1>2. k[1] \in DOMAIN Apps /\ \E q \in Rank : \E i \in DOMAIN Apps[k[1]] :
        PlacedOn(k[1], i, q) /\ TaskId(k[1], i, q) = k[2] /\ Passed(q, k[1], i)
  BY <1>1 DEF NodesStarted
<1> QED BY <1>2

LEMMA FetchesKept ==
  ASSUME FetchesTrue, FetchedNotRunning, Tame,
         \A l \in Line : \A x \in DOMAIN Messages(l)' : Fetch(Messages(l)'[x]) =>
           \E n \in Line : \E y \in DOMAIN Messages(n) : Messages(l)'[x] = Messages(n)[y],
         \A l \in Line : \A x \in DOMAIN Messages(l) : Fetch(Messages(l)[x]) => Messages(l)[x].source \in Rank
  PROVE  FetchesTrue' /\ FetchedNotRunning'
<1> SUFFICES ASSUME NEW l \in Line, NEW x \in DOMAIN Messages(l)', NEW m, m = Messages(l)'[x], Fetch(m)
             PROVE  /\ m.node \in DOMAIN nodes'[m.source] /\ nodes'[m.source][m.node].task = <<m.app, m.taskid>>
                    /\ \A r \in Rank : \A i \in DOMAIN nodes'[r] :
                         nodes'[r][i].ready => nodes'[r][i].task # <<m.app, m.taskid>>
  BY DEF FetchesTrue, FetchedNotRunning, Fetch
<1>1. PICK n \in Line : \E y \in DOMAIN Messages(n) : m = Messages(n)[y]
  OBVIOUS
<1>2. PICK y \in DOMAIN Messages(n) : m = Messages(n)[y]
  BY <1>1
<1>3. m.node \in DOMAIN nodes[m.source] /\ nodes[m.source][m.node].task = <<m.app, m.taskid>>
  BY <1>2 DEF FetchesTrue
<1>4. m.source \in Rank
  BY <1>2
<1>5. \A r \in Rank : \A i \in DOMAIN nodes[r] : nodes[r][i].ready => nodes[r][i].task # <<m.app, m.taskid>>
  BY <1>2 DEF FetchedNotRunning
<1> QED BY <1>3, <1>4, <1>5 DEF Tame

LEMMA FetchSource ==
  ASSUME TypeOK, NEW l \in Line, NEW x \in DOMAIN Messages(l), Fetch(Messages(l)[x])
  PROVE  Messages(l)[x] \in FetchMsg /\ Messages(l)[x].source \in Rank
<1>1. Messages(l)[x] \in Msg
  BY LineForms
<1>2. Messages(l)[x] \in FetchMsg
  BY <1>1 DEF Msg, NewMsg, MigrateMsg, Fetch
<1> QED BY <1>2 DEF FetchMsg

-----------------------------------------------------------------------------
(* Boot.                                                                   *)

(* Steps of the init thread that start no node.                            *)
LEMMA BootStep ==
  ASSUME Inv, NEW r \in Rank, stage[r] # "done", UNCHANGED <<out, queue, nodeVars, buffer>>,
         TypeOK', BootOrder',
         \A q \in Rank, a \in DOMAIN Apps : \A i \in DOMAIN Apps[a] : Passed(q, a, i) => Passed(q, a, i)',
         \A q \in Rank : \A a \in DOMAIN taskdir'[q] :
           \/ taskdir'[q][a] = <<>>
           \/ a \in DOMAIN taskdir[q] /\ taskdir'[q][a] = taskdir[q][a]
  PROVE  Inv'
<1>1. \A l : Messages(l)' = Messages(l)
  BY DEF Messages
<1>2. Tame /\ nxtid' = nxtid
  BY DEF Tame, nodeVars
<1>3. OwnNodes' /\ RunsOnce'
  BY <1>2, NodesKept DEF Inv
<1>4. BootFirst'
  <2>1. /\ \A q \in Rank : Len(nodes[q]) = nxtid[q] - 1
        /\ \A l \in Line : \A x \in DOMAIN Messages(l) : Messages(l)[x].type = "node_new"
    BY DEF BootFirst, Inv
  <2>2. nodes' = nodes
    BY DEF nodeVars
  <2> QED BY <1>1, <1>2, <2>1, <2>2 DEF BootFirst
<1>5. OwnEntries'
  <2> SUFFICES ASSUME NEW q \in Rank, NEW a \in DOMAIN taskdir'[q], NEW k \in DOMAIN taskdir'[q][a],
                      taskdir'[q][a][k] # INVALID, taskdir'[q][a][k].rank = q
               PROVE  /\ taskdir'[q][a][k].nodeid \in 1 .. nxtid'[q] - 1
                      /\ nodes'[q][taskdir'[q][a][k].nodeid].task = <<a, k - 1>>
    BY DEF OwnEntries
  <2>1. a \in DOMAIN taskdir[q] /\ taskdir'[q][a] = taskdir[q][a]
    OBVIOUS
  <2>2. nodes' = nodes /\ nxtid' = nxtid
    BY DEF nodeVars
  <2>3. OwnEntries
    BY DEF Inv
  <2>4. PICK e : e = taskdir'[q][a][k]
    OBVIOUS
  <2>5. k \in DOMAIN taskdir[q][a] /\ e = taskdir[q][a][k] /\ e # INVALID /\ e.rank = q
    BY <2>1, <2>4
  <2>6. e.nodeid \in 1 .. nxtid[q] - 1 /\ nodes[q][e.nodeid].task = <<a, k - 1>>
    BY <2>1, <2>3, <2>5 DEF OwnEntries
  <2> QED BY <2>2, <2>4, <2>6
<1>6. NodesStarted'
  BY <1>2, StartedKept DEF Inv
<1>7. FetchesTrue' /\ FetchedNotRunning'
  <2>1. FetchesTrue /\ FetchedNotRunning /\ TypeOK
    BY DEF Inv
  <2> QED BY <1>1, <1>2, <2>1, FetchesKept, FetchSource
<1>8. FetchedOnce'
  BY <1>1 DEF FetchedOnce, Inv, Fetch
<1>9. TaskdirTruthful'
  <2> SUFFICES ASSUME NEW q \in Rank, NEW a \in DOMAIN taskdir'[q], NEW k \in DOMAIN taskdir'[q][a],
                      NEW e, e = taskdir'[q][a][k], e # INVALID
               PROVE  /\ e.rank \in Rank
                      /\ \E i \in DOMAIN Apps[a] :
                           /\ PlacedOn(a, i, e.rank) /\ TaskId(a, i, e.rank) = k - 1
                           /\ LET name == Apps[a][i].names[e.rank]
                              IN IF Last(name) \in EndWords THEN e.identifier = name
                                 ELSE IsPrefix(name, e.identifier)
    BY DEF TaskdirTruthful
  <2>1. a \in DOMAIN taskdir[q] /\ taskdir'[q][a] = taskdir[q][a]
    OBVIOUS
  <2> QED BY <2>1 DEF TaskdirTruthful, Inv
<1>10. PagesPrivate'
  BY DEF PagesPrivate, Inv, nodeVars
<1> QED BY <1>3, <1>4, <1>5, <1>6, <1>7, <1>8, <1>9, <1>10 DEF Inv

LEMMA EarlyBootStep ==
  ASSUME Inv, NEW r \in Rank, MpInitialize(r) \/ CreateEndpoint(r) \/ GetEndpoint(r)
  PROVE  Inv'
<1>1. TypeOK /\ BootOrder
  BY DEF Inv
<1>2. /\ stage[r] \in {"main", "create", "getep"} /\ UNCHANGED <<out, queue, nodeVars, buffer, taskdir>>
      /\ stage' = stage \/ stage' = [stage EXCEPT ![r] = "create"]
         \/ stage' = [stage EXCEPT ![r] = "getep"] \/ stage' = [stage EXCEPT ![r] = "app"]
      /\ failed' = failed \/ failed' = failed \cup {r}
      /\ pos' = pos \/ pos' = [pos EXCEPT ![r].peer = @ + 1]
  BY <1>1 DEF MpInitialize, CreateEndpoint, GetEndpoint, Fail, TypeOK, nodeVars, bootVars
<1> DEFINE P == [app : Nat \ {0}, idx : Nat, offset : Nat, peer : Nat]
<1>3. pos \in [Rank -> P]
  BY <1>1 DEF TypeOK
<1>4. /\ pos' \in [Rank -> P]
      /\ \A q \in Rank : pos'[q].app = pos[q].app /\ pos'[q].idx = pos[q].idx /\ pos'[q].offset = pos[q].offset
  <2>1. pos[r] \in P
    BY <1>3
  <2>2. [pos[r] EXCEPT !.peer = @ + 1] \in P
    BY <2>1
  <2>3. CASE pos' = [pos EXCEPT ![r].peer = @ + 1]
    <3>1. pos' = [pos EXCEPT ![r] = [pos[r] EXCEPT !.peer = @ + 1]]
      BY <2>3, <1>3
    <3> QED BY <1>3, <2>1, <2>2, <3>1
  <2> QED BY <1>2, <1>3, <2>3
<1>5. /\ stage' \in [Rank -> {"main", "create", "getep", "app", "map", "done"}]
      /\ stage'[r] \notin {"map", "done"} /\ \A q \in Rank \ {r} : stage'[q] = stage[q]
  BY <1>1, <1>2 DEF TypeOK
<1>6. TypeOK'
  BY <1>1, <1>2, <1>4, <1>5 DEF TypeOK, nodeVars
<1>7. BootOrder'
  <2> HIDE DEF P
  <2> SUFFICES ASSUME NEW q \in Rank
               PROVE  /\ stage'[q] \notin {"map", "done"} => pos'[q].app = Len(taskdir[q]) + 1
                      /\ stage'[q] = "map" =>
                           /\ pos'[q].app = Len(taskdir[q])
                           /\ pos'[q].idx <= Len(Apps[pos'[q].app])
                           /\ pos'[q].idx + pos'[q].offset = FirstId(pos'[q].app, pos'[q].idx + 1)
                      /\ stage'[q] = "done" => pos'[q].app > Len(Apps)
                      /\ Len(taskdir[q]) <= Len(Apps)
    BY <1>2 DEF BootOrder
  <2> QED BY <1>1, <1>2, <1>4, <1>5 DEF BootOrder
<1>8. ASSUME NEW q \in Rank, NEW a \in DOMAIN Apps, NEW i \in DOMAIN Apps[a], Passed(q, a, i)
      PROVE  Passed(q, a, i)'
  BY <1>2, <1>4, <1>5, <1>8 DEF Passed
<1> QED BY <1>2, <1>6, <1>7, <1>8, BootStep

LEMMA AppNewStep ==
  ASSUME Inv, NEW r \in Rank, AppNew(r)
  PROVE  Inv'
<1>1. TypeOK /\ BootOrder /\ stage[r] = "app"
  BY DEF Inv, AppNew
<1> DEFINE P == [app : Nat \ {0}, idx : Nat, offset : Nat, peer : Nat]
           a0 == pos[r].app
           D == Seq(DirEntry \cup {INVALID})
<1>2. /\ pos \in [Rank -> P] /\ pos[r] \in P /\ a0 \in Nat \ {0} /\ Len(Apps) \in Nat
      /\ taskdir \in [Rank -> Seq(D)] /\ taskdir[r] \in Seq(D) /\ Len(taskdir[r]) \in Nat
      /\ stage \in [Rank -> {"main", "create", "getep", "app", "map", "done"}]
      /\ a0 = Len(taskdir[r]) + 1
  <2>1. pos \in [Rank -> P] /\ pos[r] \in P /\ Len(Apps) \in Nat
    BY <1>1, AppsAssumption DEF TypeOK
  <2>2. a0 \in Nat \ {0}
    BY <2>1
  <2>3. /\ taskdir \in [Rank -> Seq(D)] /\ taskdir[r] \in Seq(D)
        /\ stage \in [Rank -> {"main", "create", "getep", "app", "map", "done"}]
    BY <1>1 DEF TypeOK
  <2>4. Len(taskdir[r]) \in Nat
    <3> HIDE DEF D
    <3> QED BY <2>3
  <2>5. a0 = Len(taskdir[r]) + 1
    BY <1>1 DEF BootOrder
  <2> QED BY <2>1, <2>2, <2>3, <2>4, <2>5
<1>3. UNCHANGED <<failed, out, queue, nodeVars, buffer>>
  BY DEF AppNew, nodeVars
<1>4. CASE a0 > Len(Apps)
  <2>1. stage' = [stage EXCEPT ![r] = "done"] /\ pos' = pos /\ taskdir' = taskdir
    BY <1>4 DEF AppNew
  <2>2. TypeOK'
    BY <1>1, <1>3, <2>1 DEF TypeOK, nodeVars
  <2>3. BootOrder'
    <3> SUFFICES ASSUME NEW q \in Rank
                 PROVE  /\ stage'[q] \notin {"map", "done"} => pos[q].app = Len(taskdir[q]) + 1
                        /\ stage'[q] = "map" =>
                             /\ pos[q].app = Len(taskdir[q])
                             /\ pos[q].idx <= Len(Apps[pos[q].app])
                             /\ pos[q].idx + pos[q].offset = FirstId(pos[q].app, pos[q].idx + 1)
                        /\ stage'[q] = "done" => pos[q].app > Len(Apps)
                        /\ Len(taskdir[q]) <= Len(Apps)
      BY <2>1 DEF BootOrder
    <3>1. stage'[q] = IF q = r THEN "done" ELSE stage[q]
      BY <1>2, <2>1
    <3> QED BY <1>1, <1>4, <3>1 DEF BootOrder
  <2>4. ASSUME NEW q \in Rank, NEW a \in DOMAIN Apps, NEW i \in DOMAIN Apps[a], Passed(q, a, i)
        PROVE  Passed(q, a, i)'
    BY <1>1, <1>2, <2>1, <2>4 DEF Passed
  <2> QED BY <1>1, <1>3, <2>1, <2>2, <2>3, <2>4, BootStep
<1>5. CASE ~(a0 > Len(Apps))
  <2> DEFINE p == [pos[r] EXCEPT !.idx = 0, !.offset = 0]
  <2>1. /\ stage' = [stage EXCEPT ![r] = "map"]
        /\ pos' = [pos EXCEPT ![r].idx = 0, ![r].offset = 0]
        /\ taskdir' = [taskdir EXCEPT ![r] = Append(@, <<>>)]
    BY <1>5 DEF AppNew
  <2>2. p \in P /\ p.app = a0 /\ p.idx = 0 /\ p.offset = 0
    BY <1>2
  <2>3. pos' = [pos EXCEPT ![r] = p]
    BY <1>2, <2>1
  <2> HIDE DEF p
  <2>4. pos' \in [Rank -> P] /\ \A q \in Rank : pos'[q] = IF q = r THEN p ELSE pos[q]
    <3> HIDE DEF P
    <3> QED BY <1>2, <2>2, <2>3
  <2>5. <<>> \in D
    OBVIOUS
  <2>6. /\ taskdir' \in [Rank -> Seq(D)] /\ \A q \in Rank \ {r} : taskdir'[q] = taskdir[q]
        /\ Len(taskdir'[r]) = a0
        /\ \A a \in DOMAIN taskdir'[r] : taskdir'[r][a] = <<>> \/ (a \in DOMAIN taskdir[r] /\ taskdir'[r][a] = taskdir[r][a])
    <3> HIDE DEF D
    <3> QED BY <1>2, <2>1, <2>5
  <2>7. TypeOK'
    <3>1. stage' \in [Rank -> {"main", "create", "getep", "app", "map", "done"}]
      BY <1>2, <2>1
    <3> QED BY <1>1, <1>3, <2>4, <2>6, <3>1 DEF TypeOK, nodeVars
  <2>8. FirstId(a0, 1) = 0 /\ 0 <= Len(Apps[a0])
    <3>1. a0 \in DOMAIN Apps
      BY <1>2, <1>5, AppsAssumption
    <3>2. Len(Apps[a0]) \in Nat
      <4>1. Apps[a0] \in Seq([rank : Rank \cup {EVERYWHERE, ANYWHERE}, names : [Rank -> Name], pages : Nat])
        BY <3>1, AppsAssumption
      <4> QED BY <4>1
    <3>3. 1 \in 1 .. Len(Apps[a0]) + 1
      BY <3>2
    <3> QED BY <3>1, <3>2, <3>3, FirstIds
  <2>9. BootOrder'
    <3> SUFFICES ASSUME NEW q \in Rank
                 PROVE  /\ stage'[q] \notin {"map", "done"} => pos'[q].app = Len(taskdir'[q]) + 1
                        /\ stage'[q] = "map" =>
                             /\ pos'[q].app = Len(taskdir'[q])
                             /\ pos'[q].idx <= Len(Apps[pos'[q].app])
                             /\ pos'[q].idx + pos'[q].offset = FirstId(pos'[q].app, pos'[q].idx + 1)
                        /\ stage'[q] = "done" => pos'[q].app > Len(Apps)
                        /\ Len(taskdir'[q]) <= Len(Apps)
      BY DEF BootOrder
    <3>1. stage'[q] = IF q = r THEN "map" ELSE stage[q]
      BY <1>2, <2>1
    <3>2. CASE q = r
      <4>1. pos'[q] = p /\ stage'[q] = "map" /\ Len(taskdir'[q]) = a0
        BY <2>4, <2>6, <3>1, <3>2
      <4> QED BY <1>2, <1>5, <2>2, <2>8, <4>1
    <3>3. CASE q # r
      BY <1>1, <2>4, <2>6, <3>1, <3>3 DEF BootOrder
    <3> QED BY <3>2, <3>3
  <2>10. ASSUME NEW q \in Rank, NEW a \in DOMAIN Apps, NEW i \in DOMAIN Apps[a], Passed(q, a, i)
         PROVE  Passed(q, a, i)'
    BY <1>1, <1>2, <2>1, <2>2, <2>4, <2>10 DEF Passed
  <2>11. \A q \in Rank : \A a \in DOMAIN taskdir'[q] :
           \/ taskdir'[q][a] = <<>>
           \/ a \in DOMAIN taskdir[q] /\ taskdir'[q][a] = taskdir[q][a]
    BY <2>6
  <2> QED BY <1>1, <1>3, <2>7, <2>9, <2>10, <2>11, BootStep
<1> QED BY <1>4, <1>5

(* Where bootstrap stands.                                                 *)
LEMMA BootstrapAt ==
  ASSUME TypeOK, BootOrder, NEW r \in Rank, stage[r] = "map", NEW a, a = pos[r].app, NEW i, i = pos[r].idx
  PROVE  /\ a \in DOMAIN Apps /\ a \in DOMAIN taskdir[r] /\ a = Len(taskdir[r]) /\ a \in Nat \ {0}
         /\ i \in Nat /\ i <= Len(Apps[a]) /\ Len(Apps[a]) \in Nat
         /\ pos[r].offset \in Nat
         /\ i # Len(Apps[a]) =>
              /\ i + 1 \in DOMAIN Apps[a]
              /\ TaskId(a, i + 1, r) = i + pos[r].offset + (IF Apps[a][i + 1].rank = EVERYWHERE THEN r ELSE 0)
              /\ i + 1 + nodeid_offset(r, Apps[a][i + 1]) = FirstId(a, i + 1 + 1)
              /\ nodeid_offset(r, Apps[a][i + 1]) \in Nat
<1>1. /\ a = Len(taskdir[r]) /\ i <= Len(Apps[a]) /\ i + pos[r].offset = FirstId(a, i + 1)
      /\ Len(taskdir[r]) <= Len(Apps)
  BY DEF BootOrder
<1>2. pos[r] \in [app : Nat \ {0}, idx : Nat, offset : Nat, peer : Nat]
  BY DEF TypeOK
<1>3. a \in Nat \ {0} /\ i \in Nat /\ pos[r].offset \in Nat
  BY <1>2
<1>4. DOMAIN taskdir[r] = 1 .. Len(taskdir[r])
  BY DEF TypeOK
<1>5. DOMAIN Apps = 1 .. Len(Apps) /\ Len(Apps) \in Nat
  BY AppsAssumption
<1>6. a \in DOMAIN Apps /\ a \in DOMAIN taskdir[r]
  BY <1>1, <1>3, <1>4, <1>5
<1>7. DOMAIN Apps[a] = 1 .. Len(Apps[a]) /\ Len(Apps[a]) \in Nat
  <2>1. Apps[a] \in Seq([rank : Rank \cup {EVERYWHERE, ANYWHERE}, names : [Rank -> Name], pages : Nat])
    BY <1>6, AppsAssumption
  <2> QED BY <2>1
<1>8. ASSUME i # Len(Apps[a])
      PROVE  /\ i + 1 \in DOMAIN Apps[a]
             /\ TaskId(a, i + 1, r) = i + pos[r].offset + (IF Apps[a][i + 1].rank = EVERYWHERE THEN r ELSE 0)
             /\ i + 1 + nodeid_offset(r, Apps[a][i + 1]) = FirstId(a, i + 1 + 1)
             /\ nodeid_offset(r, Apps[a][i + 1]) \in Nat
  <2>1. i + 1 \in DOMAIN Apps[a] /\ i + 1 \in 1 .. Len(Apps[a]) + 1 /\ i + 1 <= Len(Apps[a])
    BY <1>1, <1>3, <1>7, <1>8
  <2>2. TaskId(a, i + 1, r) = i + pos[r].offset + (IF Apps[a][i + 1].rank = EVERYWHERE THEN r ELSE 0)
    BY <1>1 DEF TaskId
  <2>3. /\ FirstId(a, i + 1 + 1) =
             FirstId(a, i + 1) + 1 + (IF Apps[a][i + 1].rank = EVERYWHERE THEN NUMCT - 1 ELSE 0)
        /\ FirstId(a, i + 1) \in Nat
    BY <1>6, <2>1, FirstIds
  <2>4. NUMCT - 1 \in Nat
    BY GzllAssumption
  <2>5. nodeid_offset(r, Apps[a][i + 1]) = pos[r].offset + (IF Apps[a][i + 1].rank = EVERYWHERE THEN NUMCT - 1 ELSE 0)
    BY DEF nodeid_offset
  <2>6. nodeid_offset(r, Apps[a][i + 1]) \in Nat
    BY <1>3, <2>4, <2>5
  <2>7. i + 1 + nodeid_offset(r, Apps[a][i + 1]) = FirstId(a, i + 1 + 1)
    <3> DEFINE w == IF Apps[a][i + 1].rank = EVERYWHERE THEN NUMCT - 1 ELSE 0
               off == pos[r].offset
               new == nodeid_offset(r, Apps[a][i + 1])
               f == FirstId(a, i + 1)
               g == FirstId(a, i + 1 + 1)
    <3>1. /\ w \in Nat /\ off \in Nat /\ f \in Nat /\ i \in Nat
          /\ i + off = f /\ g = f + 1 + w /\ new = off + w
      BY <1>1, <1>3, <2>3, <2>4, <2>5
    <3> HIDE DEF w, off, new, f, g
    <3>2. i + 1 + new = g
      BY <3>1
    <3> QED BY <3>2 DEF new, g
  <2> QED BY <2>1, <2>2, <2>6, <2>7
<1> QED BY <1>1, <1>3, <1>6, <1>7, <1>8

LEMMA PosExcept ==
  ASSUME NEW x \in [app : Nat \ {0}, idx : Nat, offset : Nat, peer : Nat], NEW j \in Nat, NEW k \in Nat
  PROVE  [x EXCEPT !.idx = j, !.offset = k] = [app |-> x.app, idx |-> j, offset |-> k, peer |-> x.peer]
<1> DEFINE y == [x EXCEPT !.idx = j, !.offset = k]
<1>1. y \in [app : Nat \ {0}, idx : Nat, offset : Nat, peer : Nat]
  OBVIOUS
<1>2. y.app = x.app /\ y.idx = j /\ y.offset = k /\ y.peer = x.peer
  OBVIOUS
<1> HIDE DEF y
<1>3. y = [app |-> y.app, idx |-> y.idx, offset |-> y.offset, peer |-> y.peer]
  BY <1>1
<1>4. y = [app |-> x.app, idx |-> j, offset |-> k, peer |-> x.peer]
  BY <1>2, <1>3
<1> QED BY <1>4 DEF y

(* One more mapping is passed.                                             *)
LEMMA BootstrapOn ==
  ASSUME TypeOK, BootOrder, NEW r \in Rank, stage[r] = "map", NEW a, a = pos[r].app, NEW i, i = pos[r].idx,
         i # Len(Apps[a]), stage' = stage, \A q \in Rank : Len(taskdir'[q]) = Len(taskdir[q]),
         pos' = [pos EXCEPT ![r].idx = i + 1, ![r].offset = nodeid_offset(r, Apps[a][i + 1])]
  PROVE  /\ pos' \in [Rank -> [app : Nat \ {0}, idx : Nat, offset : Nat, peer : Nat]]
         /\ BootOrder'
         /\ \A q \in Rank, b \in DOMAIN Apps : \A j \in DOMAIN Apps[b] : Passed(q, b, j) => Passed(q, b, j)'
         /\ Passed(r, a, i + 1)' /\ ~Passed(r, a, i + 1)
<1> DEFINE P == [app : Nat \ {0}, idx : Nat, offset : Nat, peer : Nat]
           o == nodeid_offset(r, Apps[a][i + 1])
           p == [app |-> a, idx |-> i + 1, offset |-> o, peer |-> pos[r].peer]
<1>1. pos \in [Rank -> P] /\ pos[r] \in P
  BY DEF TypeOK
<1>2. /\ a \in Nat \ {0} /\ i \in Nat /\ i <= Len(Apps[a]) /\ Len(Apps[a]) \in Nat /\ o \in Nat
      /\ a \in DOMAIN Apps /\ a = Len(taskdir[r]) /\ i + 1 + o = FirstId(a, i + 1 + 1)
  BY BootstrapAt
<1> HIDE DEF o
<1>3. p \in P /\ p.app = a /\ p.idx = i + 1 /\ p.offset = o
  <2>1. pos[r].peer \in Nat /\ i + 1 \in Nat
    BY <1>1, <1>2
  <2> QED BY <1>2, <2>1
<1>4. pos' = [pos EXCEPT ![r] = p]
  <2>1. pos' = [pos EXCEPT ![r] = [pos[r] EXCEPT !.idx = i + 1, !.offset = o]]
    BY <1>1 DEF o
  <2>2. pos[r].app = a
    OBVIOUS
  <2>3. [pos[r] EXCEPT !.idx = i + 1, !.offset = o] = p
    <3>1. i + 1 \in Nat /\ o \in Nat
      BY <1>2
    <3>2. [pos[r] EXCEPT !.idx = i + 1, !.offset = o] =
            [app |-> pos[r].app, idx |-> i + 1, offset |-> o, peer |-> pos[r].peer]
      <4> HIDE DEF P
      <4> QED BY <1>1, <3>1, PosExcept, Zenon DEF P
    <3> QED BY <2>2, <3>2
  <2> QED BY <2>1, <2>3
<1> HIDE DEF p
<1>5. pos' \in [Rank -> P] /\ \A q \in Rank : pos'[q] = IF q = r THEN p ELSE pos[q]
  <2> HIDE DEF P
  <2> QED BY <1>1, <1>3, <1>4
<1>6. BootOrder'
  <2> SUFFICES ASSUME NEW q \in Rank
               PROVE  /\ stage[q] \notin {"map", "done"} => pos'[q].app = Len(taskdir'[q]) + 1
                      /\ stage[q] = "map" =>
                           /\ pos'[q].app = Len(taskdir'[q])
                           /\ pos'[q].idx <= Len(Apps[pos'[q].app])
                           /\ pos'[q].idx + pos'[q].offset = FirstId(pos'[q].app, pos'[q].idx + 1)
                      /\ stage[q] = "done" => pos'[q].app > Len(Apps)
                      /\ Len(taskdir'[q]) <= Len(Apps)
    BY DEF BootOrder
  <2>1. Len(taskdir'[q]) = Len(taskdir[q]) /\ Len(taskdir[q]) <= Len(Apps)
    BY DEF BootOrder
  <2>2. CASE q = r
    <3>1. pos'[q] = p
      BY <1>5, <2>2
    <3>2. pos'[q].app = a /\ pos'[q].idx = i + 1 /\ pos'[q].offset = o /\ stage[q] = "map"
      BY <1>3, <2>2, <3>1
    <3>3. i + 1 <= Len(Apps[a]) /\ a = Len(taskdir'[q])
      BY <1>2, <2>1, <2>2
    <3> HIDE DEF P
    <3> QED BY <1>2, <2>1, <3>2, <3>3
  <2>3. CASE q # r
    BY <1>5, <2>1, <2>3 DEF BootOrder
  <2> QED BY <2>2, <2>3
<1>7. ASSUME NEW q \in Rank, NEW b \in DOMAIN Apps, NEW j \in DOMAIN Apps[b], Passed(q, b, j)
      PROVE  Passed(q, b, j)'
  <2>1. j \in Nat
    BY MappingFields
  <2> QED BY <1>2, <1>3, <1>5, <1>7, <2>1 DEF Passed
<1>8. Passed(r, a, i + 1)' /\ ~Passed(r, a, i + 1)
  <2>1. pos'[r].app = a /\ pos'[r].idx = i + 1
    BY <1>3, <1>5
  <2>2. Passed(r, a, i + 1)'
    BY <1>2, <2>1 DEF Passed
  <2>3. ~(a < a) /\ ~(i + 1 <= i)
    BY <1>2
  <2> QED BY <2>2, <2>3 DEF Passed
<1> QED BY <1>5, <1>6, <1>7, <1>8

(* The rounds of bootstrap that start no node.                             *)
LEMMA BootstrapQuietStep ==
  ASSUME Inv, NEW r \in Rank, Bootstrap(r),
         \/ pos[r].idx = Len(Apps[pos[r].app])
         \/ Apps[pos[r].app][pos[r].idx + 1].rank \notin {r, EVERYWHERE}
         \/ Len(pool[r]) < Apps[pos[r].app][pos[r].idx + 1].pages + 1
  PROVE  Inv'
<1> DEFINE a == pos[r].app
           i == pos[r].idx
           m == Apps[a][i + 1]
           P == [app : Nat \ {0}, idx : Nat, offset : Nat, peer : Nat]
<1>1. TypeOK /\ BootOrder /\ stage[r] = "map" /\ UNCHANGED <<queue, buffer>>
  BY DEF Inv, Bootstrap
<1>2. a \in DOMAIN Apps /\ a = Len(taskdir[r]) /\ a \in Nat \ {0}
  BY <1>1, BootstrapAt
<1>3. pos \in [Rank -> P] /\ pos[r] \in P
  BY <1>1 DEF TypeOK
<1>4. CASE i = Len(Apps[a])
  <2> DEFINE p == [pos[r] EXCEPT !.app = a + 1]
  <2>1. /\ stage' = [stage EXCEPT ![r] = "app"] /\ pos' = [pos EXCEPT ![r].app = a + 1]
        /\ UNCHANGED <<failed, out, taskdir, nodeVars>>
    BY <1>4 DEF Bootstrap
  <2>2. p \in P /\ p.app = a + 1
    BY <1>2, <1>3
  <2>3. pos' = [pos EXCEPT ![r] = p]
    BY <1>3, <2>1
  <2> HIDE DEF p
  <2>4. pos' \in [Rank -> P] /\ \A q \in Rank : pos'[q] = IF q = r THEN p ELSE pos[q]
    <3> HIDE DEF P
    <3> QED BY <1>3, <2>2, <2>3
  <2>5. /\ stage' \in [Rank -> {"main", "create", "getep", "app", "map", "done"}]
        /\ \A q \in Rank : stage'[q] = IF q = r THEN "app" ELSE stage[q]
    BY <1>1, <2>1 DEF TypeOK
  <2>6. TypeOK'
    BY <1>1, <2>1, <2>4, <2>5 DEF TypeOK, nodeVars
  <2>7. BootOrder'
    <3> SUFFICES ASSUME NEW q \in Rank
                 PROVE  /\ stage'[q] \notin {"map", "done"} => pos'[q].app = Len(taskdir[q]) + 1
                        /\ stage'[q] = "map" =>
                             /\ pos'[q].app = Len(taskdir[q])
                             /\ pos'[q].idx <= Len(Apps[pos'[q].app])
                             /\ pos'[q].idx + pos'[q].offset = FirstId(pos'[q].app, pos'[q].idx + 1)
                        /\ stage'[q] = "done" => pos'[q].app > Len(Apps)
                        /\ Len(taskdir[q]) <= Len(Apps)
      BY <2>1 DEF BootOrder
    <3>1. Len(taskdir[q]) <= Len(Apps)
      BY <1>1 DEF BootOrder
    <3>2. CASE q = r
      BY <1>2, <2>2, <2>4, <2>5, <3>1, <3>2
    <3>3. CASE q # r
      BY <1>1, <2>4, <2>5, <3>3 DEF BootOrder
    <3> QED BY <3>2, <3>3
  <2>8. ASSUME NEW q \in Rank, NEW b \in DOMAIN Apps, NEW j \in DOMAIN Apps[b], Passed(q, b, j)
        PROVE  Passed(q, b, j)'
    <3>1. b \in Nat
      BY MappingFields
    <3> QED BY <1>2, <2>2, <2>4, <2>5, <2>8, <3>1 DEF Passed
  <2>9. UNCHANGED <<out, queue, nodeVars, buffer>> /\ taskdir' = taskdir
    BY <1>1, <2>1
  <2>10. stage[r] # "done"
    BY <1>1
  <2> HIDE DEF a, i
  <2> QED BY <2>6, <2>7, <2>8, <2>9, <2>10, BootStep
<1>5. CASE i # Len(Apps[a]) /\ m.rank \in {r, EVERYWHERE} /\ Len(pool[r]) < m.pages + 1
  <2>1. /\ UNCHANGED <<bootVars, out, taskdir, nodeVars>> /\ failed' = failed \cup {r}
    BY <1>5 DEF Bootstrap, Fail
  <2>2. TypeOK' /\ BootOrder'
    BY <1>1, <2>1 DEF TypeOK, BootOrder, nodeVars, bootVars
  <2>3. \A q, b, j : Passed(q, b, j)' = Passed(q, b, j)
    BY <2>1 DEF Passed, bootVars
  <2>4. UNCHANGED <<out, queue, nodeVars, buffer>> /\ taskdir' = taskdir /\ stage[r] # "done"
    BY <1>1, <2>1
  <2> HIDE DEF a, i
  <2> QED BY <2>2, <2>3, <2>4, BootStep
<1>6. CASE i # Len(Apps[a]) /\ m.rank \notin {r, EVERYWHERE}
  <2>1. /\ pos' = [pos EXCEPT ![r].idx = i + 1, ![r].offset = nodeid_offset(r, m)]
        /\ UNCHANGED <<out, taskdir, nodeVars, stage, failed>>
    BY <1>6 DEF Bootstrap
  <2>2. /\ pos' \in [Rank -> P] /\ BootOrder'
        /\ \A q \in Rank, b \in DOMAIN Apps : \A j \in DOMAIN Apps[b] : Passed(q, b, j) => Passed(q, b, j)'
    BY <1>1, <1>6, <2>1, BootstrapOn
  <2>3. TypeOK'
    BY <1>1, <1>6, <2>1, <2>2 DEF TypeOK, nodeVars
  <2>4. UNCHANGED <<out, queue, nodeVars, buffer>> /\ taskdir' = taskdir /\ stage[r] # "done"
    BY <1>1, <2>1
  <2> HIDE DEF a, i, m
  <2> QED BY <2>2, <2>3, <2>4, BootStep
<1> QED BY <1>4, <1>5, <1>6

(* Messages that a thread of a rank sends, and the head of its endpoint    *)
(* that its communication thread takes.                                    *)
Sends(r, t, d, ms) ==
  /\ d <= Len(queue[r])
  /\ \A q \in Rank : queue'[q] = IF q = r THEN SubSeq(queue[r], d + 1, Len(queue[r])) ELSE queue[q]
  /\ \A q \in Rank, x \in Threads : out'[q][x] = IF q = r /\ x = t THEN out[r][t] \o ms ELSE out[q][x]

LEMMA SendMoves ==
  ASSUME TypeOK, TypeOK', NEW r \in Rank, NEW t \in Threads, NEW ms \in Seq(Outgoing), NEW d \in {0, 1},
         Sends(r, t, d, ms), NEW s, s = [j \in 1 .. Len(ms) |-> ms[j].msg]
  PROVE  /\ s \in Seq(Msg) /\ Moves(<<r, "endpoint">>, <<r, t>>, d, s)
         /\ <<r, "endpoint">> \in Line /\ <<r, t>> \in Line /\ <<r, "endpoint">> # <<r, t>>
         /\ d <= Len(Messages(<<r, "endpoint">>))
<1>0. /\ d <= Len(queue[r])
      /\ \A q \in Rank : queue'[q] = IF q = r THEN SubSeq(queue[r], d + 1, Len(queue[r])) ELSE queue[q]
      /\ \A q \in Rank, x \in Threads : out'[q][x] = IF q = r /\ x = t THEN out[r][t] \o ms ELSE out[q][x]
  BY DEF Sends
<1>1. s \in Seq(Msg)
  <2>1. ASSUME NEW j \in 1 .. Len(ms) PROVE ms[j].msg \in Msg
    <3>1. ms[j] \in Outgoing
      OBVIOUS
    <3> QED BY <3>1 DEF Outgoing
  <2>2. Len(ms) \in Nat
    OBVIOUS
  <2> QED BY <2>1, <2>2
<1>2. /\ <<r, "endpoint">> \in Line /\ <<r, t>> \in Line /\ t # "endpoint"
      /\ Messages(<<r, "endpoint">>) = queue[r] /\ out[r][t] \in Seq(Outgoing)
      /\ Messages(<<r, t>>) = [j \in 1 .. Len(out[r][t]) |-> out[r][t][j].msg]
  BY LineMessages
<1>3. /\ Messages(<<r, "endpoint">>)' = queue'[r]
      /\ Messages(<<r, t>>)' = [j \in 1 .. Len(out'[r][t]) |-> out'[r][t][j].msg]
  <2>1. Messages(<<r, "endpoint">>)' = queue'[r]
    BY DEF Messages
  <2>2. out'[r][t] \in Seq(Outgoing)
    BY DEF TypeOK
  <2>3. Messages(<<r, t>>)' = [j \in DOMAIN out'[r][t] |-> out'[r][t][j].msg]
    BY <1>2 DEF Messages
  <2>4. DOMAIN out'[r][t] = 1 .. Len(out'[r][t])
    BY <2>2
  <2> QED BY <2>1, <2>3, <2>4
<1>4. Messages(<<r, t>>)' = Messages(<<r, t>>) \o s
  <2> DEFINE o == out[r][t]
             M == [j \in 1 .. Len(o) |-> o[j].msg]
             N == [j \in 1 .. Len(o \o ms) |-> (o \o ms)[j].msg]
  <2>1. Messages(<<r, t>>) = M /\ Messages(<<r, t>>)' = N /\ o \in Seq(Outgoing)
    BY <1>0, <1>2, <1>3
  <2> HIDE DEF o
  <2>2. N = M \o s
    <3>1. Len(o \o ms) = Len(o) + Len(ms) /\ Len(M) = Len(o) /\ Len(s) = Len(ms)
      BY <2>1
    <3>2. ASSUME NEW j \in 1 .. Len(o) + Len(ms) PROVE (o \o ms)[j].msg = (M \o s)[j]
      BY <2>1, <3>1
    <3>3. M \o s = [j \in 1 .. Len(o) + Len(ms) |-> (M \o s)[j]]
      BY <2>1, <3>1
    <3> QED BY <2>1, <3>1, <3>2, <3>3
  <2> QED BY <2>1, <2>2
<1>5. ASSUME NEW l \in Line \ {<<r, "endpoint">>, <<r, t>>} PROVE Messages(l)' = Messages(l)
  <2>1. l[1] \in Rank /\ l = <<l[1], l[2]>> /\ (l[2] = "endpoint" \/ l[2] \in Threads)
    BY LineForms
  <2>2. CASE l[2] = "endpoint"
    <3>1. l[1] # r
      BY <2>1, <2>2
    <3> QED BY <1>0, <2>1, <2>2, <3>1 DEF Messages
  <2>3. CASE l[2] \in Threads
    <3>1. ~(l[1] = r /\ l[2] = t)
      BY <2>1
    <3>2. out'[l[1]][l[2]] = out[l[1]][l[2]] /\ l[2] # "endpoint"
      BY <1>0, <2>1, <2>3, <3>1 DEF Threads
    <3> QED BY <3>2 DEF Messages
  <2> QED BY <2>1, <2>2, <2>3
<1> QED BY <1>0, <1>1, <1>2, <1>3, <1>4, <1>5 DEF Moves

(* The pages of a node that is added to the list come from the pool.       *)
LEMMA PagesOfNewNode ==
  ASSUME TypeOK, TypeOK', PagesPrivate, NEW r \in Rank, NEW node \in NodeRecord,
         \A q \in Rank : nodes'[q] = IF q = r THEN Append(nodes[r], node) ELSE nodes[q],
         \A q \in Rank : pool'[q] = IF q = r THEN Rest(pool[r], Len(node.pages)) ELSE pool[q],
         \A k \in 1 .. Len(node.pages) : node.pages[k] = IF k <= Len(pool[r]) THEN pool[r][k] ELSE 0
  PROVE  PagesPrivate'
<1> DEFINE c == Len(node.pages)
           p == pool[r]
           P(i) == nodes[r][i].pages
           n == Len(nodes[r])
<1>1. node.pages \in Seq(0 .. FRAMES) /\ c \in Nat /\ DOMAIN node.pages = 1 .. c
  BY DEF NodeRecord
<1>2. p \in Seq(1 .. FRAMES) /\ Len(p) \in Nat /\ DOMAIN p = 1 .. Len(p) /\ FRAMES \in Nat
  BY GzllAssumption DEF TypeOK
<1>3. nodes[r] \in Seq(NodeRecord) /\ n \in Nat /\ DOMAIN nodes[r] = 1 .. n
  BY DEF TypeOK
<1>4. /\ DOMAIN nodes'[r] = 1 .. n + 1 /\ nodes'[r][n + 1] = node
      /\ \A i \in 1 .. n : nodes'[r][i] = nodes[r][i]
  <2> DEFINE old == nodes[r]
             new == nodes'[r]
  <2>1. old \in Seq(NodeRecord) /\ new = Append(old, node) /\ n = Len(old)
    BY <1>3
  <2> HIDE DEF old, new, n
  <2>2. /\ DOMAIN new = 1 .. n + 1 /\ new[n + 1] = node /\ \A i \in 1 .. n : new[i] = old[i]
    BY <2>1
  <2> QED BY <2>2 DEF old, new
<1>5. /\ \A i \in 1 .. n : \A k \in DOMAIN P(i) :
           IF P(i)[k] = 0 THEN p = <<>>
           ELSE /\ \A x \in 1 .. Len(p) : p[x] # P(i)[k]
                /\ \A j \in 1 .. n : \A l \in DOMAIN P(j) : P(j)[l] = P(i)[k] => j = i /\ l = k
      /\ \A k, l \in 1 .. Len(p) : p[k] = p[l] => k = l
  <2>1. /\ \A i \in DOMAIN nodes[r] : \A k \in DOMAIN nodes[r][i].pages :
             LET page == nodes[r][i].pages[k]
             IN IF page = 0 THEN pool[r] = <<>>
                ELSE /\ ~Contains(pool[r], page)
                     /\ \A j \in DOMAIN nodes[r] : \A l \in DOMAIN nodes[r][j].pages :
                          nodes[r][j].pages[l] = page => j = i /\ l = k
        /\ \A k, l \in DOMAIN pool[r] : pool[r][k] = pool[r][l] => k = l
    BY Zenon DEF PagesPrivate
  <2>2. \A page : ~Contains(p, page) => \A x \in 1 .. Len(p) : p[x] # page
    BY <1>2 DEF Contains
  <2>3. \A k, l \in 1 .. Len(p) : p[k] = p[l] => k = l
    BY <1>2, <2>1
  <2>4. ASSUME NEW i \in 1 .. n, NEW k \in DOMAIN P(i)
        PROVE  IF P(i)[k] = 0 THEN p = <<>>
               ELSE /\ \A x \in 1 .. Len(p) : p[x] # P(i)[k]
                    /\ \A j \in 1 .. n : \A l \in DOMAIN P(j) : P(j)[l] = P(i)[k] => j = i /\ l = k
    <3>1. i \in DOMAIN nodes[r]
      BY <1>3
    <3>2. IF P(i)[k] = 0 THEN p = <<>>
          ELSE /\ ~Contains(p, P(i)[k])
               /\ \A j \in DOMAIN nodes[r] : \A l \in DOMAIN P(j) : P(j)[l] = P(i)[k] => j = i /\ l = k
      BY <2>1, <3>1
    <3> HIDE DEF P, p
    <3> QED BY <1>3, <2>2, <3>2
  <2> QED BY <2>3, <2>4
<1>6. /\ pool'[r] \in Seq(1 .. FRAMES) /\ DOMAIN pool'[r] = 1 .. Len(pool'[r])
      /\ \A x \in 1 .. Len(pool'[r]) : x + c \in 1 .. Len(p) /\ pool'[r][x] = p[x + c] /\ x \in Nat
      /\ c >= Len(p) => pool'[r] = <<>>
  <2>1. pool'[r] = SubSeq(p, c + 1, Len(p))
    BY DEF Rest
  <2> DEFINE w == pool'[r]
  <2> HIDE DEF c, p, w
  <2>2. w = SubSeq(p, c + 1, Len(p))
    BY <2>1 DEF w
  <2>3. w \in Seq(1 .. FRAMES) /\ DOMAIN w = 1 .. Len(w)
    BY <1>1, <1>2, <2>2
  <2>4. ASSUME NEW x \in 1 .. Len(w)
        PROVE  x + c \in 1 .. Len(p) /\ w[x] = p[x + c] /\ x \in Nat
    <3>1. Len(w) \in Nat /\ x \in Nat /\ x >= 1 /\ x <= Len(w)
      BY <2>3
    <3>2. CASE c < Len(p)
      <4>1. Len(w) = Len(p) - c
        BY <1>1, <1>2, <2>2, <3>2
      <4>2. \A y \in 1 .. Len(p) - c : w[y] = p[y + c]
        BY <1>1, <1>2, <2>2, <3>2
      <4>3. x + c \in 1 .. Len(p)
        BY <1>1, <1>2, <3>1, <4>1
      <4> QED BY <3>1, <4>1, <4>2, <4>3
    <3>3. CASE ~(c < Len(p))
      <4>1. w = <<>>
        BY <1>1, <1>2, <2>2, <3>3
      <4> QED BY <3>1, <4>1
    <3> QED BY <3>2, <3>3
  <2>5. c >= Len(p) => w = <<>>
    BY <1>1, <1>2, <2>2
  <2> QED BY <2>3, <2>4, <2>5 DEF w
<1>7. ASSUME NEW i \in 1 .. n + 1, NEW k \in DOMAIN nodes'[r][i].pages
      PROVE  LET page == nodes'[r][i].pages[k]
             IN IF page = 0 THEN pool'[r] = <<>>
                ELSE /\ ~Contains(pool'[r], page)
                     /\ \A j \in 1 .. n + 1 : \A l \in DOMAIN nodes'[r][j].pages :
                          nodes'[r][j].pages[l] = page => j = i /\ l = k
  <2> DEFINE page == nodes'[r][i].pages[k]
  <2>1. CASE i \in 1 .. n
    <3>1. nodes'[r][i].pages = P(i) /\ k \in DOMAIN P(i) /\ page = P(i)[k]
      BY <1>4, <2>1
    <3>2. CASE page = 0
      <4>1. Len(p) = 0
        BY <1>2, <1>5, <2>1, <3>1, <3>2
      <4> QED BY <1>1, <1>6, <3>2, <4>1
    <3>3. CASE page # 0
      <4>1. ~Contains(pool'[r], page)
        <5>1. \A x \in 1 .. Len(p) : p[x] # page
          BY <1>5, <2>1, <3>1, <3>3
        <5> HIDE DEF page, c, p
        <5>2. \A x \in 1 .. Len(pool'[r]) : pool'[r][x] # page
          BY <1>6, <5>1
        <5> QED BY <5>2 DEF Contains
      <4>2. ASSUME NEW j \in 1 .. n + 1, NEW l \in DOMAIN nodes'[r][j].pages, nodes'[r][j].pages[l] = page
            PROVE  j = i /\ l = k
        <5>1. CASE j \in 1 .. n
          <6>1. nodes'[r][j].pages = P(j)
            BY <1>4, <5>1
          <6> QED BY <1>5, <2>1, <3>1, <3>3, <4>2, <5>1, <6>1
        <5>2. CASE j = n + 1
          <6>1. l \in 1 .. c /\ page = (IF l <= Len(p) THEN p[l] ELSE 0)
            BY <1>1, <1>4, <4>2, <5>2
          <6>2. l \in 1 .. Len(p) /\ page = p[l]
            BY <1>1, <1>2, <3>3, <6>1
          <6> QED BY <1>5, <2>1, <3>1, <3>3, <6>2
        <5> QED BY <1>3, <5>1, <5>2
      <4> QED BY <3>3, <4>1, <4>2
    <3> QED BY <3>2, <3>3
  <2>2. CASE i = n + 1
    <3>1. k \in 1 .. c /\ page = (IF k <= Len(p) THEN p[k] ELSE 0)
      BY <1>1, <1>4, <2>2
    <3>2. CASE page = 0
      <4>1. ~(k <= Len(p))
        <5>1. ASSUME k <= Len(p) PROVE FALSE
          <6>1. p[k] \in 1 .. FRAMES /\ p[k] = 0
            BY <1>1, <1>2, <3>1, <3>2, <5>1
          <6> QED BY <1>2, <6>1
        <5> QED BY <5>1
      <4>2. c >= Len(p)
        BY <1>1, <1>2, <3>1, <4>1
      <4> QED BY <1>6, <3>2, <4>2
    <3>3. CASE page # 0
      <4>1. k \in 1 .. Len(p) /\ k \in 1 .. c /\ page = p[k]
        BY <1>1, <1>2, <3>1, <3>3
      <4>2. ~Contains(pool'[r], page)
        <5>1. ASSUME NEW x \in 1 .. Len(pool'[r]), pool'[r][x] = page PROVE FALSE
          <6>1. x + c \in 1 .. Len(p) /\ p[x + c] = p[k] /\ x \in Nat /\ x >= 1
            BY <1>6, <4>1, <5>1
          <6>2. x + c = k
            BY <1>5, <4>1, <6>1
          <6> QED BY <1>1, <4>1, <6>1, <6>2
        <5> QED BY <5>1 DEF Contains
      <4>3. ASSUME NEW j \in 1 .. n + 1, NEW l \in DOMAIN nodes'[r][j].pages, nodes'[r][j].pages[l] = page
            PROVE  j = i /\ l = k
        <5>1. CASE j \in 1 .. n
          <6>1. nodes'[r][j].pages = P(j) /\ l \in DOMAIN P(j) /\ P(j)[l] = page
            BY <1>4, <4>3, <5>1
          <6> QED BY <1>5, <3>3, <4>1, <5>1, <6>1
        <5>2. CASE j = n + 1
          <6>1. l \in 1 .. c /\ page = (IF l <= Len(p) THEN p[l] ELSE 0)
            BY <1>1, <1>4, <4>3, <5>2
          <6>2. l \in 1 .. Len(p) /\ p[l] = p[k]
            BY <1>1, <1>2, <3>3, <4>1, <6>1
          <6> QED BY <1>5, <2>2, <4>1, <5>2, <6>2
        <5> QED BY <1>3, <5>1, <5>2
      <4> QED BY <3>3, <4>2, <4>3
    <3> QED BY <3>2, <3>3
  <2> QED BY <1>3, <2>1, <2>2
<1>8. ASSUME NEW k \in DOMAIN pool'[r], NEW l \in DOMAIN pool'[r], pool'[r][k] = pool'[r][l]
      PROVE  k = l
  <2>1. /\ k + c \in 1 .. Len(p) /\ l + c \in 1 .. Len(p) /\ p[k + c] = p[l + c]
        /\ k \in Nat /\ l \in Nat
    BY <1>6, <1>8
  <2>2. k + c = l + c
    BY <1>5, <2>1
  <2> QED BY <1>1, <2>1, <2>2
<1>9. ASSUME NEW q \in Rank, q # r
      PROVE  nodes'[q] = nodes[q] /\ pool'[q] = pool[q]
  BY <1>9
<1> HIDE DEF P
<1> SUFFICES ASSUME NEW q \in Rank
             PROVE  /\ \A i \in DOMAIN nodes'[q] : \A k \in DOMAIN nodes'[q][i].pages :
                         LET page == nodes'[q][i].pages[k]
                         IN IF page = 0 THEN pool'[q] = <<>>
                            ELSE /\ ~Contains(pool'[q], page)
                                 /\ \A j \in DOMAIN nodes'[q] : \A l \in DOMAIN nodes'[q][j].pages :
                                      nodes'[q][j].pages[l] = page => j = i /\ l = k
                    /\ \A k, l \in DOMAIN pool'[q] : pool'[q][k] = pool'[q][l] => k = l
  BY DEF PagesPrivate, Contains
<1>10. CASE q = r
  <2> DEFINE Private(I) ==
               \A i \in I : \A k \in DOMAIN nodes'[r][i].pages :
                 LET page == nodes'[r][i].pages[k]
                 IN IF page = 0 THEN pool'[r] = <<>>
                    ELSE /\ ~Contains(pool'[r], page)
                         /\ \A j \in I : \A l \in DOMAIN nodes'[r][j].pages :
                              nodes'[r][j].pages[l] = page => j = i /\ l = k
  <2>1. Private(1 .. n + 1)
    BY <1>7
  <2> HIDE DEF Private
  <2>2. Private(DOMAIN nodes'[r])
    BY <1>4, <2>1
  <2> USE DEF Private
  <2> QED BY <1>8, <1>10, <2>2
<1>11. CASE q # r
  BY <1>9, <1>11 DEF PagesPrivate
<1> QED BY <1>10, <1>11

(* The announcement of a new node.                                         *)
Announces(ms) == ms \in Seq(Outgoing) /\ \A j \in 1 .. Len(ms) : ms[j].msg.type = "node_new"

LEMMA Announcement ==
  ASSUME NEW r \in Rank, NEW a \in DOMAIN Apps, NEW i \in DOMAIN Apps[a], PlacedOn(a, i, r)
  PROVE  Announces(message_send_node_new(r, a, TaskId(a, i, r), Apps[a][i].names[r]))
<1> DEFINE name == Apps[a][i].names[r]
           k == TaskId(a, i, r)
           ms == message_send_node_new(r, a, k, name)
           msg == [type |-> "node_new", source |-> r, app |-> a, taskid |-> k, name |-> name]
           o(j) == [to |-> IF j <= r THEN j - 1 ELSE j, msg |-> msg]
<1>1. name \in Name /\ k \in Nat /\ a \in Nat \ {0}
  BY MappingFields, TaskIdType
<1>2. msg \in [type : {"node_new"}, source : Rank, app : Nat \ {0}, taskid : Nat, name : Name]
  <2> HIDE DEF name, k
  <2> QED BY <1>1
<1>3. Places(a, i, r, k, name)
  BY DEF Places
<1>4. msg \in NewMsg
  <2>1. msg.app = a /\ msg.source = r /\ msg.taskid = k /\ msg.name = name
    OBVIOUS
  <2> HIDE DEF msg, name, k
  <2>2. msg.app \in DOMAIN Apps /\ \E x \in DOMAIN Apps[msg.app] : Places(msg.app, x, msg.source, msg.taskid, msg.name)
    BY <1>3, <2>1
  <2> QED BY <1>2, <2>2 DEF NewMsg
<1>5. msg \in Msg /\ msg.type = "node_new" /\ msg.source = r
  BY <1>4 DEF Msg
<1>6. ms = [j \in 1 .. NUMCT - 1 |-> o(j)] /\ NUMCT - 1 \in Nat
  BY GzllAssumption DEF message_send_node_new
<1> HIDE DEF msg
<1>7. ASSUME NEW j \in 1 .. NUMCT - 1 PROVE o(j) \in Outgoing /\ o(j).msg = msg
  <2>1. o(j).to \in Rank /\ o(j).to # r /\ o(j).msg = msg
    BY <1>6 DEF Rank
  <2>2. o(j) \in [to : Rank, msg : Msg]
    BY <1>5, <2>1
  <2>3. o(j).msg \in MsgTo(o(j).to)
    BY <1>5, <2>1 DEF MsgTo
  <2> HIDE DEF o
  <2> QED BY <2>1, <2>2, <2>3 DEF Outgoing
<1> HIDE DEF o, ms
<1>8. ms \in Seq(Outgoing) /\ Len(ms) = NUMCT - 1
  BY <1>6, <1>7
<1>9. ASSUME NEW j \in 1 .. Len(ms) PROVE ms[j].msg.type = "node_new"
  <2>1. ms[j] = o(j) /\ j \in 1 .. NUMCT - 1
    BY <1>6, <1>8
  <2> QED BY <1>5, <1>7, <2>1
<1> QED BY <1>8, <1>9 DEF ms, Announces

LEMMA NodeType ==
  ASSUME NEW id \in Nat, NEW a \in Nat \ {0}, NEW k \in Nat, NEW pages \in Seq(0 .. FRAMES)
  PROVE  Node(id, a, k, pages) \in NodeRecord
<1>1. <<a, k>> \in (Nat \ {0}) \X Nat /\ k \in Nat \cup {INVALID} /\ TRUE \in BOOLEAN /\ a \in Nat
  OBVIOUS
<1> DEFINE T == (Nat \ {0}) \X Nat
           I == Nat \cup {INVALID}
           S == Seq(0 .. FRAMES)
           t == <<a, k>>
<1>2. t \in T /\ k \in I /\ pages \in S
  BY <1>1
<1> HIDE DEF T, I, S, t
<1>3. [id |-> id, app |-> a, taskid |-> k, pages |-> pages, ready |-> TRUE, task |-> t] \in
        [id : Nat, app : Nat, taskid : I, pages : S, ready : BOOLEAN, task : T]
  BY <1>1, <1>2
<1> QED BY <1>3 DEF Node, NodeRecord, T, I, S, t

(* A round of bootstrap that starts a node.                                *)
LEMMA NodeStartStep ==
  ASSUME Inv, NEW r \in Rank, Bootstrap(r), NEW a, a = pos[r].app, NEW i, i = pos[r].idx,
         i # Len(Apps[a]), Apps[a][i + 1].rank \in {r, EVERYWHERE},
         ~(Len(pool[r]) < Apps[a][i + 1].pages + 1)
  PROVE  Inv'
<1> DEFINE m == Apps[a][i + 1]
           k == TaskId(a, i + 1, r)
           name == m.names[r]
           c == m.pages + 1
           p == pool[r]
           id == nxtid[r]
           node == Node(id, a, k, SubSeq(p, 1, c))
           e == Entry(r, id, name)
           ms == message_send_node_new(r, a, k, name)
           D == Seq(DirEntry \cup {INVALID})
           reg == taskdir_task_register(taskdir[r][a], k, e)
<1>1. /\ TypeOK /\ BootOrder /\ stage[r] = "map" /\ UNCHANGED <<queue, buffer, stage, failed>>
      /\ out[r]["init"] = <<>>
  BY DEF Inv, Bootstrap
<1>2. /\ a \in DOMAIN Apps /\ a \in DOMAIN taskdir[r] /\ a \in Nat \ {0} /\ i \in Nat
      /\ i + 1 \in DOMAIN Apps[a] /\ PlacedOn(a, i + 1, r)
      /\ k = i + pos[r].offset + (IF m.rank = EVERYWHERE THEN r ELSE 0)
  BY <1>1, BootstrapAt DEF PlacedOn
<1>3. k \in Nat /\ name \in Name /\ m.pages \in Nat /\ c \in Nat
  <2>1. k \in Nat
    BY <1>2, TaskIdType
  <2>2. m.names \in [Rank -> Name] /\ m.pages \in Nat
    BY <1>2, MappingFields
  <2> QED BY <2>1, <2>2
<1>4. /\ pos' = [pos EXCEPT ![r].idx = i + 1, ![r].offset = nodeid_offset(r, m)]
      /\ nxtid' = [nxtid EXCEPT ![r] = @ + 1]
      /\ nodes' = [nodes EXCEPT ![r] = Append(@, node)]
      /\ pool' = [pool EXCEPT ![r] = Rest(@, c)]
      /\ taskdir' = [taskdir EXCEPT ![r][a] = taskdir_task_register(@, k, e)]
      /\ out' = [out EXCEPT ![r]["init"] = @ \o ms]
  <2>1. gzll_node_start(r, a, i + pos[r].offset + (IF m.rank = EVERYWHERE THEN r ELSE 0), m.names[r], m.pages)
        /\ pos' = [pos EXCEPT ![r].idx = i + 1, ![r].offset = nodeid_offset(r, m)]
    BY DEF Bootstrap
  <2>2. gzll_node_start(r, a, k, name, m.pages)
    BY <1>2, <2>1
  <2> HIDE DEF m, k, name
  <2> QED BY <2>1, <2>2 DEF gzll_node_start, Send
<1>5. ms \in Seq(Outgoing) /\ \A j \in 1 .. Len(ms) : ms[j].msg.type = "node_new"
  <2>1. ms = message_send_node_new(r, a, TaskId(a, i + 1, r), Apps[a][i + 1].names[r])
    OBVIOUS
  <2> HIDE DEF m, k, name, c, p, id, node, e, ms, D, reg
  <2>2. PICK j0, s : j0 = i + 1 /\ s = ms
    OBVIOUS
  <2>3. j0 \in DOMAIN Apps[a] /\ PlacedOn(a, j0, r) /\ a \in DOMAIN Apps
    BY <1>2, <2>2
  <2>4. s = message_send_node_new(r, a, TaskId(a, j0, r), Apps[a][j0].names[r])
    BY <2>1, <2>2
  <2>5. Announces(s)
    BY <2>3, <2>4, Announcement
  <2> QED BY <2>2, <2>5 DEF Announces
<1>6. id \in Nat \ {0} /\ p \in Seq(1 .. FRAMES) /\ Len(p) \in Nat /\ c <= Len(p) /\ FRAMES \in Nat
  <2>1. id \in Nat \ {0} /\ p \in Seq(1 .. FRAMES) /\ FRAMES \in Nat
    BY <1>1, GzllAssumption DEF TypeOK
  <2>2. ~(Len(p) < c)
    OBVIOUS
  <2> HIDE DEF p, c
  <2> QED BY <1>3, <2>1, <2>2
<1>7. /\ SubSeq(p, 1, c) \in Seq(0 .. FRAMES) /\ Len(SubSeq(p, 1, c)) = c
      /\ \A x \in 1 .. c : SubSeq(p, 1, c)[x] = p[x]
  <2> HIDE DEF p, c
  <2> QED BY <1>3, <1>6
<1>8. /\ node \in NodeRecord /\ node.id = id /\ node.task = <<a, k>> /\ node.pages = SubSeq(p, 1, c)
  <2> DEFINE g == SubSeq(p, 1, c)
  <2>1. id \in Nat /\ a \in Nat \ {0} /\ k \in Nat /\ g \in Seq(0 .. FRAMES)
    BY <1>2, <1>3, <1>6, <1>7
  <2> HIDE DEF k, id, g
  <2>2. Node(id, a, k, g) \in NodeRecord
    BY <2>1, NodeType
  <2> QED BY <2>2 DEF Node, g
<1>9. e \in DirEntry /\ e.rank = r /\ e.nodeid = id /\ e.identifier = name
  <2> HIDE DEF id, name
  <2> QED BY <1>3, <1>6 DEF Entry, DirEntry, Name
<1>10. taskdir \in [Rank -> Seq(D)] /\ taskdir[r] \in Seq(D) /\ taskdir[r][a] \in D
  <2>1. taskdir \in [Rank -> Seq(D)]
    BY <1>1 DEF TypeOK
  <2> HIDE DEF D
  <2> QED BY <1>2, <2>1
<1>11. /\ reg \in D
       /\ \A x \in DOMAIN reg : \/ reg[x] = INVALID
                                \/ x \in DOMAIN taskdir[r][a] /\ reg[x] = taskdir[r][a][x]
                                \/ x = k + 1 /\ reg[x] = e
  <2> HIDE DEF m, k, name, c, p, id, node, e, ms
  <2>1. PICK dir : dir = taskdir[r][a]
    OBVIOUS
  <2>2. reg = taskdir_task_register(dir, k, e) /\ dir \in Seq(DirEntry \cup {INVALID})
    BY <1>10, <2>1
  <2>3. /\ reg \in Seq(DirEntry \cup {INVALID})
        /\ \A x \in DOMAIN reg : \/ reg[x] = INVALID
                                 \/ x \in DOMAIN dir /\ reg[x] = dir[x]
                                 \/ x = k + 1 /\ reg[x] = e
    <3>1. Registered(reg, dir, k, e)
      BY <1>3, <1>9, <2>2, RegisterEntry
    <3> QED BY <3>1 DEF Registered
  <2> QED BY <2>1, <2>3
<1> HIDE DEF node, reg, e, ms, D
<1>12. /\ taskdir' \in [Rank -> Seq(D)]
       /\ \A q \in Rank \ {r} : taskdir'[q] = taskdir[q]
       /\ DOMAIN taskdir'[r] = DOMAIN taskdir[r] /\ Len(taskdir'[r]) = Len(taskdir[r])
       /\ \A b \in DOMAIN taskdir[r] : taskdir'[r][b] = IF b = a THEN reg ELSE taskdir[r][b]
  <2>1. taskdir' = [taskdir EXCEPT ![r] = [taskdir[r] EXCEPT ![a] = reg]]
    BY <1>4, <1>10 DEF reg
  <2>2. [taskdir[r] EXCEPT ![a] = reg] \in Seq(D)
    BY <1>2, <1>10, <1>11
  <2> QED BY <1>2, <1>10, <2>1, <2>2
<1>13. /\ pos' \in [Rank -> [app : Nat \ {0}, idx : Nat, offset : Nat, peer : Nat]]
       /\ BootOrder'
       /\ \A q \in Rank, b \in DOMAIN Apps : \A j \in DOMAIN Apps[b] : Passed(q, b, j) => Passed(q, b, j)'
       /\ Passed(r, a, i + 1)' /\ ~Passed(r, a, i + 1)
  <2>1. \A q \in Rank : Len(taskdir'[q]) = Len(taskdir[q])
    BY <1>12
  <2>2. TypeOK /\ BootOrder /\ stage[r] = "map" /\ stage' = stage
    BY <1>1
  <2>3. pos' = [pos EXCEPT ![r].idx = i + 1, ![r].offset = nodeid_offset(r, Apps[a][i + 1])]
    BY <1>4
  <2>4. a = pos[r].app /\ i = pos[r].idx /\ i # Len(Apps[a])
    OBVIOUS
  <2> QED BY <2>1, <2>2, <2>3, <2>4, BootstrapOn
<1> HIDE DEF m, k, name, p, id, c
<1>14. /\ nodes' \in [Rank -> Seq(NodeRecord)] /\ nodes \in [Rank -> Seq(NodeRecord)]
       /\ \A q \in Rank : nodes'[q] = IF q = r THEN Append(nodes[r], node) ELSE nodes[q]
  BY <1>1, <1>4, <1>8 DEF TypeOK
<1>15. /\ nxtid' \in [Rank -> Nat \ {0}]
       /\ \A q \in Rank : nxtid'[q] = IF q = r THEN id + 1 ELSE nxtid[q]
  <2>1. nxtid \in [Rank -> Nat \ {0}] /\ nxtid' = [nxtid EXCEPT ![r] = @ + 1] /\ nxtid[r] = id
    BY <1>1, <1>4 DEF TypeOK, id
  <2>2. id + 1 \in Nat \ {0}
    BY <1>6
  <2> QED BY <2>1, <2>2
<1>16. /\ pool' \in [Rank -> Seq(1 .. FRAMES)]
       /\ \A q \in Rank : pool'[q] = IF q = r THEN Rest(p, c) ELSE pool[q]
  <2>1. Rest(p, c) \in Seq(1 .. FRAMES)
    BY <1>3, <1>6 DEF Rest
  <2> QED BY <1>1, <1>4, <2>1 DEF TypeOK, p
<1>17. /\ out' \in [Rank -> [Threads -> Seq(Outgoing)]]
       /\ \A q \in Rank, x \in Threads : out'[q][x] = IF q = r /\ x = "init" THEN out[r]["init"] \o ms ELSE out[q][x]
  <2>1. out \in [Rank -> [Threads -> Seq(Outgoing)]] /\ "init" \in Threads
    BY <1>1 DEF TypeOK, Threads
  <2>2. out[r]["init"] \o ms \in Seq(Outgoing)
    BY <1>5, <2>1
  <2> QED BY <1>4, <2>1, <2>2
<1>18. TypeOK'
  <2>1. /\ queue' = queue /\ buffer' = buffer /\ stage' = stage /\ failed' = failed
    BY <1>1
  <2>2. taskdir' \in [Rank -> Seq(Seq(DirEntry \cup {INVALID}))]
    BY <1>12 DEF D
  <2> QED BY <1>1, <1>13, <1>14, <1>15, <1>16, <1>17, <2>1, <2>2 DEF TypeOK
<1>19. /\ \A q \in Rank : Len(nodes[q]) = nxtid[q] - 1
       /\ \A l \in Line : \A x \in DOMAIN Messages(l) : Messages(l)[x].type = "node_new"
  BY <1>1 DEF BootFirst, Inv
<1>20. Len(nodes[r]) = id - 1 /\ nodes[r] \in Seq(NodeRecord)
  BY <1>14, <1>19 DEF id
<1>21. /\ DOMAIN nodes'[r] = 1 .. id /\ Len(nodes'[r]) = id /\ nodes'[r][id] = node
       /\ DOMAIN nodes[r] = 1 .. id - 1 /\ \A j \in 1 .. id - 1 : nodes'[r][j] = nodes[r][j]
  <2> DEFINE old == nodes[r]
             new == nodes'[r]
  <2>1. old \in Seq(NodeRecord) /\ new = Append(old, node) /\ Len(old) = id - 1
    BY <1>14, <1>20
  <2> HIDE DEF old, new
  <2>2. /\ DOMAIN new = 1 .. id /\ Len(new) = id /\ new[id] = node
        /\ DOMAIN old = 1 .. id - 1 /\ \A j \in 1 .. id - 1 : new[j] = old[j]
    BY <1>6, <2>1
  <2> QED BY <2>2 DEF old, new
<1>22. \A l \in Line : \A x \in DOMAIN Messages(l)' : Messages(l)'[x].type = "node_new"
  <2> DEFINE u == <<r, "endpoint">>
             v == <<r, "init">>
             s == [j \in 1 .. Len(ms) |-> ms[j].msg]
  <2>1. "init" \in Threads /\ 0 \in {0, 1} /\ 0 <= Len(queue[r]) /\ queue[r] = SubSeq(queue[r], 0 + 1, Len(queue[r]))
    BY <1>1 DEF Threads, TypeOK
  <2>2. \A q \in Rank : queue'[q] = IF q = r THEN SubSeq(queue[r], 0 + 1, Len(queue[r])) ELSE queue[q]
    BY <1>1, <2>1
  <2>3. /\ s \in Seq(Msg) /\ Moves(u, v, 0, s) /\ u \in Line /\ v \in Line /\ u # v /\ 0 <= Len(Messages(u))
    <3>1. Sends(r, "init", 0, ms)
      BY <1>17, <2>1, <2>2 DEF Sends
    <3> QED BY <1>1, <1>5, <1>18, <2>1, <3>1, SendMoves
  <2>4. \A z \in DOMAIN s : s[z].type = "node_new"
    BY <1>5
  <2> HIDE DEF u, v, s
  <2> SUFFICES ASSUME NEW l \in Line, NEW x \in DOMAIN Messages(l)'
               PROVE  Messages(l)'[x].type = "node_new"
    OBVIOUS
  <2>5. \/ \E n \in Line : \E y \in DOMAIN Messages(n) : Messages(l)'[x] = Messages(n)[y]
        \/ \E z \in DOMAIN s : Messages(l)'[x] = s[z]
    BY <1>1, <2>3, MessagesAfter
  <2> QED BY <1>19, <2>4, <2>5
<1>23. BootFirst'
  <2>1. ASSUME NEW q \in Rank PROVE Len(nodes'[q]) = nxtid'[q] - 1
    <3>1. CASE q = r
      <4>1. nxtid'[q] = id + 1 /\ Len(nodes'[q]) = id
        BY <1>15, <1>21, <3>1
      <4> QED BY <1>6, <4>1
    <3>2. CASE q # r
      BY <1>14, <1>15, <1>19, <3>2
    <3> QED BY <3>1, <3>2
  <2> QED BY <1>22, <2>1 DEF BootFirst
<1>24. OwnNodes'
  <2> SUFFICES ASSUME NEW q \in Rank
               PROVE  /\ nxtid'[q] - 1 <= Len(nodes'[q])
                      /\ \A j \in 1 .. nxtid'[q] - 1 : nodes'[q][j].id = j
    BY DEF OwnNodes
  <2>1. nxtid[q] - 1 <= Len(nodes[q]) /\ \A j \in 1 .. nxtid[q] - 1 : nodes[q][j].id = j
    BY DEF OwnNodes, Inv
  <2>2. CASE q = r
    <3>1. nxtid'[r] - 1 = id
      BY <1>6, <1>15
    <3>2. \A j \in 1 .. id - 1 : nodes[r][j].id = j
      BY <2>1, <2>2 DEF id
    <3>3. ASSUME NEW j \in 1 .. id PROVE nodes'[r][j].id = j
      <4>1. CASE j = id
        BY <1>8, <1>21, <4>1
      <4>2. CASE j # id
        <5>1. j \in 1 .. id - 1
          BY <1>6, <4>2
        <5> QED BY <1>21, <3>2, <5>1
      <4> QED BY <4>1, <4>2
    <3> QED BY <1>6, <1>21, <2>2, <3>1, <3>3
  <2>3. CASE q # r
    BY <1>14, <1>15, <2>1, <2>3
  <2> QED BY <2>2, <2>3
<1>25. OwnEntries'
  <2> SUFFICES ASSUME NEW q \in Rank, NEW b \in DOMAIN taskdir'[q], NEW x \in DOMAIN taskdir'[q][b],
                      NEW f, f = taskdir'[q][b][x], f # INVALID, f.rank = q
               PROVE  f.nodeid \in 1 .. nxtid'[q] - 1 /\ nodes'[q][f.nodeid].task = <<b, x - 1>>
    BY DEF OwnEntries
  <2>1. CASE /\ b \in DOMAIN taskdir[q] /\ x \in DOMAIN taskdir[q][b] /\ f = taskdir[q][b][x]
    <3>1. f.nodeid \in 1 .. nxtid[q] - 1 /\ nodes[q][f.nodeid].task = <<b, x - 1>>
      BY <2>1 DEF OwnEntries, Inv
    <3>2. CASE q = r
      <4>1. f.nodeid \in 1 .. id - 1
        BY <3>1, <3>2 DEF id
      <4>2. f.nodeid \in 1 .. id /\ nxtid'[q] - 1 = id
        <5>1. nxtid'[q] = id + 1
          BY <1>15, <3>2
        <5>2. f.nodeid \in 1 .. id
          BY <1>6, <4>1
        <5> QED BY <1>6, <5>1, <5>2
      <4> QED BY <1>21, <3>1, <3>2, <4>1, <4>2
    <3>3. CASE q # r
      BY <1>14, <1>15, <3>1, <3>3
    <3> QED BY <3>2, <3>3
  <2>2. CASE q = r /\ b = a /\ x = k + 1 /\ f = e
    <3>1. nxtid'[q] - 1 = id /\ f.nodeid = id /\ x - 1 = k
      BY <1>3, <1>6, <1>9, <1>15, <2>2
    <3>2. f.nodeid \in 1 .. nxtid'[q] - 1
      BY <1>6, <3>1
    <3>3. nodes'[q][f.nodeid].task = <<a, k>>
      BY <1>8, <1>21, <2>2, <3>1
    <3> QED BY <2>2, <3>1, <3>2, <3>3
  <2>3. CASE q # r
    BY <1>12, <2>1, <2>3
  <2>4. CASE q = r /\ b # a
    BY <1>12, <2>1, <2>4
  <2>5. CASE q = r /\ b = a
    <3>1. b \in DOMAIN taskdir[r] /\ x \in DOMAIN reg /\ f = reg[x]
      BY <1>2, <1>12, <2>5
    <3>2. \/ x \in DOMAIN taskdir[r][a] /\ f = taskdir[r][a][x]
          \/ x = k + 1 /\ f = e
      BY <1>11, <3>1
    <3> QED BY <2>1, <2>2, <2>5, <3>1, <3>2
  <2> QED BY <2>3, <2>4, <2>5
<1>26. NodesStarted'
  <2> SUFFICES ASSUME NEW q \in Rank, NEW n \in DOMAIN nodes'[q], NEW t, t = nodes'[q][n].task
               PROVE  t[1] \in DOMAIN Apps /\ \E s \in Rank : \E j \in DOMAIN Apps[t[1]] :
                        PlacedOn(t[1], j, s) /\ TaskId(t[1], j, s) = t[2] /\ Passed(s, t[1], j)'
    BY DEF NodesStarted
  <2>1. CASE n \in DOMAIN nodes[q] /\ t = nodes[q][n].task
    <3>1. t[1] \in DOMAIN Apps /\ \E s \in Rank : \E j \in DOMAIN Apps[t[1]] :
            PlacedOn(t[1], j, s) /\ TaskId(t[1], j, s) = t[2] /\ Passed(s, t[1], j)
      BY <2>1 DEF NodesStarted, Inv
    <3> QED BY <1>13, <3>1
  <2>2. CASE t = <<a, k>>
    <3>1. t[1] = a /\ t[2] = k
      BY <2>2
    <3>2. PlacedOn(a, i + 1, r) /\ TaskId(a, i + 1, r) = k /\ Passed(r, a, i + 1)'
      BY <1>2, <1>13 DEF k
    <3>3. a \in DOMAIN Apps /\ \E s \in Rank : \E j \in DOMAIN Apps[a] :
            PlacedOn(a, j, s) /\ TaskId(a, j, s) = k /\ Passed(s, a, j)'
      BY <1>2, <3>2
    <3> QED BY <3>1, <3>3
  <2>3. \/ n \in DOMAIN nodes[q] /\ t = nodes[q][n].task
        \/ t = <<a, k>>
    <3>1. CASE q # r
      BY <1>14, <3>1
    <3>2. CASE q = r
      <4>1. n \in 1 .. id
        BY <1>21, <3>2
      <4>2. CASE n = id
        BY <1>8, <1>21, <3>2, <4>2
      <4>3. CASE n # id
        <5>1. n \in 1 .. id - 1
          BY <1>6, <4>1, <4>3
        <5> QED BY <1>21, <3>2, <5>1
      <4> QED BY <4>2, <4>3
    <3> QED BY <3>1, <3>2
  <2> QED BY <2>1, <2>2, <2>3
<1>27. FetchesTrue' /\ FetchedNotRunning' /\ FetchedOnce'
  <2>1. \A l \in Line : \A x \in DOMAIN Messages(l)' : Messages(l)'[x].type # "node_fetch"
    BY <1>22
  <2>2. \A l \in Line : \A x \in DOMAIN Messages(l)' : ~Fetch(Messages(l)'[x])
    BY <2>1 DEF Fetch
  <2>3. FetchesTrue'
    BY <2>1 DEF FetchesTrue, Fetch
  <2>4. FetchedNotRunning'
    BY <2>1 DEF FetchedNotRunning, Fetch
  <2>5. FetchedOnce'
    BY <2>1 DEF FetchedOnce, Fetch
  <2> QED BY <2>3, <2>4, <2>5
<1>28. RunsOnce'
  <2>1. ASSUME NEW q \in Rank, NEW n \in DOMAIN nodes[q] PROVE nodes[q][n].task # <<a, k>>
    <3> SUFFICES ASSUME nodes[q][n].task = <<a, k>> PROVE FALSE
      OBVIOUS
    <3>1. LET t == nodes[q][n].task
          IN \E s \in Rank : \E j \in DOMAIN Apps[t[1]] :
               PlacedOn(t[1], j, s) /\ TaskId(t[1], j, s) = t[2] /\ Passed(s, t[1], j)
      BY DEF NodesStarted, Inv
    <3>2. \E s \in Rank : \E j \in DOMAIN Apps[a] : PlacedOn(a, j, s) /\ TaskId(a, j, s) = k /\ Passed(s, a, j)
      BY <3>1
    <3>3. PICK s \in Rank : \E j \in DOMAIN Apps[a] : PlacedOn(a, j, s) /\ TaskId(a, j, s) = k /\ Passed(s, a, j)
      BY <3>2
    <3>4. PICK j \in DOMAIN Apps[a] : PlacedOn(a, j, s) /\ TaskId(a, j, s) = k /\ Passed(s, a, j)
      BY <3>3
    <3>5. j = i + 1 /\ s = r
      BY <1>2, <3>4, TaskIdUnique DEF k
    <3> QED BY <1>13, <3>4, <3>5
  <2>2. ASSUME NEW q \in Rank, NEW n \in DOMAIN nodes'[q]
        PROVE  \/ n \in DOMAIN nodes[q] /\ nodes'[q][n] = nodes[q][n]
               \/ q = r /\ n = id /\ nodes'[q][n].task = <<a, k>>
    <3>1. CASE q # r
      BY <1>14, <3>1
    <3>2. CASE q = r
      <4>1. n \in 1 .. id
        BY <1>21, <3>2
      <4>2. CASE n = id
        BY <1>8, <1>21, <3>2, <4>2
      <4>3. CASE n # id
        <5>1. n \in 1 .. id - 1
          BY <1>6, <4>1, <4>3
        <5> QED BY <1>21, <3>2, <5>1
      <4> QED BY <4>2, <4>3
    <3> QED BY <3>1, <3>2
  <2> SUFFICES ASSUME NEW q \in Rank, NEW s \in Rank, NEW n \in DOMAIN nodes'[q], NEW o \in DOMAIN nodes'[s],
                      nodes'[q][n].ready, nodes'[s][o].ready, nodes'[q][n].task = nodes'[s][o].task
               PROVE  q = s /\ n = o
    BY DEF RunsOnce
  <2>3. CASE /\ n \in DOMAIN nodes[q] /\ nodes'[q][n] = nodes[q][n]
             /\ o \in DOMAIN nodes[s] /\ nodes'[s][o] = nodes[s][o]
    BY <2>3 DEF RunsOnce, Inv
  <2>4. CASE /\ n \in DOMAIN nodes[q] /\ nodes'[q][n] = nodes[q][n]
             /\ nodes'[s][o].task = <<a, k>>
    BY <2>1, <2>4
  <2>5. CASE /\ o \in DOMAIN nodes[s] /\ nodes'[s][o] = nodes[s][o]
             /\ nodes'[q][n].task = <<a, k>>
    BY <2>1, <2>5
  <2> QED BY <2>2, <2>3, <2>4, <2>5
<1>29. TaskdirTruthful'
  <2> SUFFICES ASSUME NEW q \in Rank, NEW b \in DOMAIN taskdir'[q], NEW x \in DOMAIN taskdir'[q][b],
                      NEW f, f = taskdir'[q][b][x], f # INVALID
               PROVE  /\ f.rank \in Rank
                      /\ \E j \in DOMAIN Apps[b] :
                           /\ PlacedOn(b, j, f.rank) /\ TaskId(b, j, f.rank) = x - 1
                           /\ LET n == Apps[b][j].names[f.rank]
                              IN IF Last(n) \in EndWords THEN f.identifier = n ELSE IsPrefix(n, f.identifier)
    BY ZenonT(60) DEF TaskdirTruthful
  <2>1. CASE b \in DOMAIN taskdir[q] /\ x \in DOMAIN taskdir[q][b] /\ f = taskdir[q][b][x]
    BY <2>1 DEF TaskdirTruthful, Inv
  <2>2. CASE q = r /\ b = a /\ x = k + 1 /\ f = e
    <3>1. x - 1 = k /\ f.rank = r /\ f.identifier = name
      BY <1>3, <1>9, <2>2
    <3>2. Apps[a][i + 1].names[r] = name /\ TaskId(a, i + 1, r) = k
      BY DEF name, m, k
    <3>3. IsPrefix(name, name)
      BY <1>3 DEF IsPrefix, Name
    <3> QED BY <1>2, <2>2, <3>1, <3>2, <3>3
  <2>3. CASE q # r
    BY <1>12, <2>1, <2>3
  <2>4. CASE q = r /\ b # a
    BY <1>12, <2>1, <2>4
  <2>5. CASE q = r /\ b = a
    <3>1. b \in DOMAIN taskdir[r] /\ x \in DOMAIN reg /\ f = reg[x]
      BY <1>2, <1>12, <2>5
    <3>2. \/ x \in DOMAIN taskdir[r][a] /\ f = taskdir[r][a][x]
          \/ x = k + 1 /\ f = e
      BY <1>11, <3>1
    <3> QED BY <2>1, <2>2, <2>5, <3>1, <3>2
  <2> QED BY <2>3, <2>4, <2>5
<1>30. PagesPrivate'
  <2>1. Len(node.pages) = c /\ \A x \in 1 .. c : node.pages[x] = p[x] /\ x <= Len(p)
    BY <1>3, <1>6, <1>7, <1>8
  <2>2. \A q \in Rank : pool'[q] = IF q = r THEN Rest(pool[r], Len(node.pages)) ELSE pool[q]
    BY <1>16, <2>1 DEF p
  <2>3. \A x \in 1 .. Len(node.pages) : node.pages[x] = IF x <= Len(pool[r]) THEN pool[r][x] ELSE 0
    BY <2>1 DEF p
  <2>4. PagesPrivate
    BY DEF Inv
  <2> QED BY <1>1, <1>8, <1>14, <1>18, <2>2, <2>3, <2>4, PagesOfNewNode
<1> QED BY <1>13, <1>18, <1>23, <1>24, <1>25, <1>26, <1>27, <1>28, <1>29, <1>30 DEF Inv

-----------------------------------------------------------------------------
(* Messages and migration.                                                 *)

(* What may be sent: before the last rank has booted, announcements only;  *)
(* after, a fetch of a task that is nowhere else.                          *)
Sendable(u, d, s) ==
  /\ (\E q \in Rank : stage[q] # "done") => \A z \in DOMAIN s : s[z].type = "node_new"
  /\ \A z \in DOMAIN s : Fetch(s[z]) =>
       /\ Len(s) = 1
       /\ \A l \in Line : \A y \in DOMAIN Messages(l) :
            Fetch(Messages(l)[y]) /\ <<Messages(l)[y].app, Messages(l)[y].taskid>> = <<s[z].app, s[z].taskid>>
              => l = u /\ y <= d
       /\ s[z].node \in DOMAIN nodes[s[z].source]
       /\ nodes[s[z].source][s[z].node].task = <<s[z].app, s[z].taskid>>
       /\ \A q \in Rank : \A i \in DOMAIN nodes'[q] :
            nodes'[q][i].ready => nodes'[q][i].task # <<s[z].app, s[z].taskid>>

(* A step that moves or sends messages and starts nothing.                 *)
LEMMA MessagesStep ==
  ASSUME Inv, TypeOK', Tame, UNCHANGED <<stage, pos, nxtid>>,
         NEW u \in Line, NEW v \in Line, u # v, NEW d \in Nat, d <= Len(Messages(u)),
         NEW s \in Seq(Msg), Moves(u, v, d, s),
         Sendable(u, d, s)
  PROVE  /\ OwnNodes' /\ BootFirst' /\ NodesStarted' /\ FetchesTrue' /\ RunsOnce'
         /\ FetchedNotRunning' /\ FetchedOnce'
<1>1. TypeOK /\ OwnNodes /\ RunsOnce /\ NodesStarted /\ BootFirst /\ FetchesTrue /\ FetchedNotRunning /\ FetchedOnce
  BY DEF Inv
<1>2. OwnNodes' /\ RunsOnce'
  BY <1>1, NodesKept
<1>3. NodesStarted'
  <2>1. \A q, a, i : Passed(q, a, i) => Passed(q, a, i)'
    BY DEF Passed
  <2> QED BY <1>1, <2>1, StartedKept
<1>4. ASSUME NEW l \in Line, NEW x \in DOMAIN Messages(l)'
      PROVE  \/ \E n \in Line : \E y \in DOMAIN Messages(n) : Messages(l)'[x] = Messages(n)[y]
             \/ \E z \in DOMAIN s : Messages(l)'[x] = s[z]
  BY <1>1, MessagesAfter
<1>5. BootFirst'
  <2> SUFFICES ASSUME \E q \in Rank : stage[q] # "done"
               PROVE  /\ \A r \in Rank : Len(nodes'[r]) = nxtid[r] - 1
                      /\ \A l \in Line : \A x \in DOMAIN Messages(l)' : Messages(l)'[x].type = "node_new"
    BY DEF BootFirst
  <2>1. /\ \A r \in Rank : Len(nodes[r]) = nxtid[r] - 1
        /\ \A l \in Line : \A x \in DOMAIN Messages(l) : Messages(l)[x].type = "node_new"
        /\ \A z \in DOMAIN s : s[z].type = "node_new"
    BY <1>1 DEF BootFirst, Sendable
  <2>2. ASSUME NEW r \in Rank PROVE Len(nodes'[r]) = Len(nodes[r])
    <3>1. nodes[r] \in Seq(NodeRecord) /\ nodes'[r] \in Seq(NodeRecord)
      BY <1>1 DEF TypeOK
    <3>2. DOMAIN nodes'[r] = DOMAIN nodes[r]
      BY DEF Tame
    <3> QED BY <3>1, <3>2
  <2>3. \A l \in Line : \A x \in DOMAIN Messages(l)' : Messages(l)'[x].type = "node_new"
    BY <1>4, <2>1
  <2> QED BY <2>1, <2>2, <2>3
<1>6. FetchedOnce'
  BY <1>1, FetchedOnceKept DEF Sendable
<1>7. FetchesTrue' /\ FetchedNotRunning'
  <2>1. ASSUME NEW l \in Line, NEW x \in DOMAIN Messages(l)', NEW m, m = Messages(l)'[x], Fetch(m)
        PROVE  /\ m.node \in DOMAIN nodes'[m.source] /\ nodes'[m.source][m.node].task = <<m.app, m.taskid>>
               /\ \A r \in Rank : \A i \in DOMAIN nodes'[r] :
                    nodes'[r][i].ready => nodes'[r][i].task # <<m.app, m.taskid>>
    <3>1. CASE \E n \in Line : \E y \in DOMAIN Messages(n) : m = Messages(n)[y]
      <4>1. PICK n \in Line : \E y \in DOMAIN Messages(n) : m = Messages(n)[y]
        BY <3>1
      <4>2. PICK y \in DOMAIN Messages(n) : m = Messages(n)[y]
        BY <4>1
      <4>3. m.node \in DOMAIN nodes[m.source] /\ nodes[m.source][m.node].task = <<m.app, m.taskid>>
        BY <2>1, <1>1, <4>2 DEF FetchesTrue
      <4>4. m.source \in Rank
        BY <2>1, <1>1, <4>2, FetchSource
      <4>5. \A r \in Rank : \A i \in DOMAIN nodes[r] : nodes[r][i].ready => nodes[r][i].task # <<m.app, m.taskid>>
        BY <2>1, <1>1, <4>2 DEF FetchedNotRunning
      <4> QED BY <4>3, <4>4, <4>5 DEF Tame
    <3>2. CASE \E z \in DOMAIN s : m = s[z]
      <4>1. PICK z \in DOMAIN s : m = s[z]
        BY <3>2
      <4>2. m \in Msg
        BY <4>1
      <4>3. m.source \in Rank
        BY <2>1, <4>2 DEF Msg, NewMsg, MigrateMsg, FetchMsg, Fetch
      <4>4. /\ m.node \in DOMAIN nodes[m.source] /\ nodes[m.source][m.node].task = <<m.app, m.taskid>>
            /\ \A q \in Rank : \A i \in DOMAIN nodes'[q] :
                  nodes'[q][i].ready => nodes'[q][i].task # <<m.app, m.taskid>>
        <5>1. \A o \in DOMAIN s : Fetch(s[o]) =>
                /\ s[o].node \in DOMAIN nodes[s[o].source]
                /\ nodes[s[o].source][s[o].node].task = <<s[o].app, s[o].taskid>>
                /\ \A q \in Rank : \A i \in DOMAIN nodes'[q] :
                      nodes'[q][i].ready => nodes'[q][i].task # <<s[o].app, s[o].taskid>>
          BY Zenon DEF Sendable
        <5> QED BY <2>1, <4>1, <5>1, ZenonT(60)
      <4> QED BY <4>3, <4>4 DEF Tame
    <3> QED BY <1>4, <2>1, <3>1, <3>2
  <2>2. FetchesTrue'
    BY <2>1 DEF FetchesTrue, Fetch
  <2>3. FetchedNotRunning'
    BY <2>1 DEF FetchedNotRunning, Fetch
  <2> QED BY <2>2, <2>3
<1> QED BY <1>2, <1>3, <1>5, <1>6, <1>7

LEMMA DeliverStep ==
  ASSUME Inv, NEW r \in Rank, NEW t \in Threads, Deliver(r, t), NEW h, h = Head(out[r][t])
  PROVE  Inv'
<1> DEFINE u == <<r, t>>
           v == <<h.to, "endpoint">>
           s == <<h.msg>>
<1>1. /\ TypeOK /\ out[r][t] # <<>> /\ UNCHANGED <<bootVars, failed, taskdir, nodeVars, buffer, boundVars>>
      /\ queue' = [queue EXCEPT ![h.to] = Append(@, h.msg)]
      /\ out' = [out EXCEPT ![r][t] = Tail(@)]
  BY DEF Inv, Deliver
<1>2. /\ out \in [Rank -> [Threads -> Seq(Outgoing)]] /\ out[r][t] \in Seq(Outgoing)
      /\ queue \in [Rank -> Seq(Msg)]
  <2>1. out \in [Rank -> [Threads -> Seq(Outgoing)]] /\ queue \in [Rank -> Seq(Msg)]
    BY <1>1 DEF TypeOK
  <2> QED BY <2>1
<1>3. h \in Outgoing /\ h = out[r][t][1] /\ Len(out[r][t]) >= 1
  <2> DEFINE o == out[r][t]
  <2>1. o \in Seq(Outgoing) /\ o # <<>> /\ h = Head(o)
    BY <1>1, <1>2
  <2> HIDE DEF o
  <2>2. h \in Outgoing /\ h = o[1] /\ Len(o) >= 1
    BY <2>1
  <2> QED BY <2>2 DEF o
<1>4. h.to \in Rank /\ h.msg \in Msg /\ h.msg \in MsgTo(h.to)
  BY <1>3 DEF Outgoing
<1>5. /\ out' \in [Rank -> [Threads -> Seq(Outgoing)]]
      /\ \A q \in Rank, x \in Threads : out'[q][x] = IF q = r /\ x = t THEN Tail(out[r][t]) ELSE out[q][x]
  <2>1. Tail(out[r][t]) \in Seq(Outgoing)
    BY <1>1, <1>2
  <2> QED BY <1>1, <1>2, <2>1
<1>6. /\ queue' \in [Rank -> Seq(Msg)]
      /\ \A q \in Rank : queue'[q] = IF q = h.to THEN Append(queue[q], h.msg) ELSE queue[q]
      /\ \A q \in Rank : queue'[q] \in Seq(MsgTo(q))
  <2>1. /\ queue' \in [Rank -> Seq(Msg)]
        /\ \A q \in Rank : queue'[q] = IF q = h.to THEN Append(queue[q], h.msg) ELSE queue[q]
    BY <1>1, <1>2, <1>4
  <2>2. ASSUME NEW q \in Rank PROVE queue'[q] \in Seq(MsgTo(q))
    <3>1. queue[q] \in Seq(MsgTo(q))
      BY <1>1 DEF TypeOK
    <3>2. CASE q = h.to
      <4>1. h.msg \in MsgTo(q)
        BY <1>4, <3>2
      <4>2. Append(queue[q], h.msg) \in Seq(MsgTo(q))
        BY <3>1, <4>1
      <4> QED BY <2>1, <3>2, <4>2
    <3>3. CASE q # h.to
      BY <2>1, <3>1, <3>3
    <3> QED BY <3>2, <3>3
  <2> QED BY <2>1, <2>2
<1>7. TypeOK'
  BY <1>1, <1>5, <1>6 DEF TypeOK, bootVars, nodeVars
<1>8. /\ u \in Line /\ v \in Line /\ u # v /\ s \in Seq(Msg)
      /\ Messages(u) = [j \in 1 .. Len(out[r][t]) |-> out[r][t][j].msg] /\ Messages(u) \in Seq(Msg)
      /\ Messages(v) = queue[h.to] /\ queue[h.to] \in Seq(Msg)
  <2>1. /\ u \in Line /\ t # "endpoint"
        /\ Messages(u) = [j \in 1 .. Len(out[r][t]) |-> out[r][t][j].msg] /\ Messages(u) \in Seq(Msg)
    BY <1>1, LineMessages
  <2>2. v \in Line /\ Messages(v) = queue[h.to] /\ queue[h.to] \in Seq(Msg)
    BY <1>1, <1>4, LineMessages
  <2> QED BY <1>4, <2>1, <2>2
<1>9. /\ Len(Messages(u)) = Len(out[r][t]) /\ 1 <= Len(Messages(u)) /\ Messages(u)[1] = h.msg /\ 1 \in DOMAIN Messages(u)
  BY <1>2, <1>3, <1>8
<1>10. Moves(u, v, 1, s)
  <2>1. Messages(u)' = SubSeq(Messages(u), 1 + 1, Len(Messages(u)))
    <3>1. t # "endpoint"
      BY DEF Threads
    <3>2. Messages(u)' = [j \in DOMAIN out'[r][t] |-> out'[r][t][j].msg]
      BY <3>1 DEF Messages
    <3> DEFINE o == out[r][t]
               M == [j \in 1 .. Len(o) |-> o[j].msg]
    <3>3. o \in Seq(Outgoing) /\ Len(o) >= 1 /\ out'[r][t] = Tail(o) /\ Messages(u) = M
      BY <1>2, <1>3, <1>5, <1>8
    <3> HIDE DEF o
    <3>4. DOMAIN Tail(o) = 1 .. Len(o) - 1 /\ \A j \in 1 .. Len(o) - 1 : Tail(o)[j] = o[j + 1]
      BY <3>3
    <3>5. [j \in DOMAIN Tail(o) |-> Tail(o)[j].msg] = [j \in 1 .. Len(o) - 1 |-> o[j + 1].msg]
      BY <3>4
    <3>6. Len(M) = Len(o) /\ M \in Seq(Msg)
      BY <1>8, <3>3
    <3>7. SubSeq(M, 1 + 1, Len(M)) = [j \in 1 .. Len(o) - 1 |-> M[j + 1]]
      BY <3>3, <3>6
    <3>8. \A j \in 1 .. Len(o) - 1 : M[j + 1] = o[j + 1].msg
      BY <3>3
    <3>9. SubSeq(M, 1 + 1, Len(M)) = [j \in 1 .. Len(o) - 1 |-> o[j + 1].msg]
      BY <3>7, <3>8
    <3> QED BY <3>2, <3>3, <3>5, <3>9
  <2>2. Messages(v)' = Messages(v) \o s
    <3>1. Messages(v)' = queue'[h.to]
      BY DEF Messages
    <3>2. queue'[h.to] = Append(queue[h.to], h.msg)
      BY <1>4, <1>6
    <3> DEFINE Q == queue[h.to]
    <3>3. Q \in Seq(Msg) /\ Messages(v) = Q /\ Messages(v)' = Append(Q, h.msg)
      BY <1>8, <3>1, <3>2
    <3> HIDE DEF Q
    <3>4. Append(Q, h.msg) = Q \o s
      <4>1. \A S : \A w \in Seq(S), x \in S : Append(w, x) = w \o <<x>>
        OBVIOUS
      <4> QED BY <1>4, <3>3, <4>1
    <3> QED BY <3>3, <3>4
  <2>3. ASSUME NEW l \in Line, l # u, l # v PROVE Messages(l)' = Messages(l)
    <3>1. l[1] \in Rank /\ l = <<l[1], l[2]>> /\ (l[2] = "endpoint" \/ l[2] \in Threads)
      BY <1>1, LineForms
    <3>2. CASE l[2] = "endpoint"
      <4>1. l[1] # h.to
        BY <2>3, <3>1, <3>2
      <4>2. queue'[l[1]] = queue[l[1]]
        BY <1>6, <3>1, <4>1
      <4> QED BY <3>2, <4>2 DEF Messages
    <3>3. CASE l[2] \in Threads
      <4>1. ~(l[1] = r /\ l[2] = t)
        BY <2>3, <3>1
      <4>2. out'[l[1]][l[2]] = out[l[1]][l[2]] /\ l[2] # "endpoint"
        BY <1>5, <3>1, <3>3, <4>1 DEF Threads
      <4> QED BY <4>2 DEF Messages
    <3> QED BY <3>1, <3>2, <3>3
  <2> QED BY <2>1, <2>2, <2>3 DEF Moves
<1>11. Tame /\ UNCHANGED <<stage, pos, nxtid, nodes, pool, taskdir>>
  BY <1>1 DEF Tame, nodeVars, bootVars
<1>12. BootFirst /\ FetchesTrue /\ FetchedNotRunning /\ FetchedOnce /\ Inv
  BY DEF Inv
<1>13. (\E q \in Rank : stage[q] # "done") => h.msg.type = "node_new"
  BY <1>8, <1>9, <1>12 DEF BootFirst
<1>14. ASSUME Fetch(h.msg)
       PROVE  /\ \A l \in Line : \A y \in DOMAIN Messages(l) :
                   Fetch(Messages(l)[y]) /\ <<Messages(l)[y].app, Messages(l)[y].taskid>> = <<h.msg.app, h.msg.taskid>>
                     => l = u /\ y <= 1
              /\ h.msg.node \in DOMAIN nodes[h.msg.source]
              /\ nodes[h.msg.source][h.msg.node].task = <<h.msg.app, h.msg.taskid>>
              /\ \A q \in Rank : \A i \in DOMAIN nodes'[q] :
                   nodes'[q][i].ready => nodes'[q][i].task # <<h.msg.app, h.msg.taskid>>
  <2>1. u \in Line /\ 1 \in DOMAIN Messages(u) /\ Messages(u)[1] = h.msg
    BY <1>8, <1>9
  <2> HIDE DEF u
  <2>2. \A l \in Line : \A y \in DOMAIN Messages(l) :
          Fetch(Messages(l)[y]) /\ <<Messages(l)[y].app, Messages(l)[y].taskid>> = <<h.msg.app, h.msg.taskid>>
            => l = u /\ y = 1
    BY <1>12, <1>14, <2>1 DEF FetchedOnce
  <2>3. /\ h.msg.node \in DOMAIN nodes[h.msg.source]
        /\ nodes[h.msg.source][h.msg.node].task = <<h.msg.app, h.msg.taskid>>
    BY <1>12, <1>14, <2>1 DEF FetchesTrue
  <2>4. \A q \in Rank : \A i \in DOMAIN nodes[q] :
          nodes[q][i].ready => nodes[q][i].task # <<h.msg.app, h.msg.taskid>>
    BY <1>12, <1>14, <2>1 DEF FetchedNotRunning
  <2>5. nodes' = nodes
    BY <1>11
  <2>6. \A l \in Line : \A y \in DOMAIN Messages(l) :
          Fetch(Messages(l)[y]) /\ <<Messages(l)[y].app, Messages(l)[y].taskid>> = <<h.msg.app, h.msg.taskid>>
            => l = u /\ y <= 1
    BY <2>2
  <2>7. \A q \in Rank : \A i \in DOMAIN nodes'[q] :
          nodes'[q][i].ready => nodes'[q][i].task # <<h.msg.app, h.msg.taskid>>
    BY <2>4, <2>5
  <2> QED BY <2>3, <2>6, <2>7
<1>15. DOMAIN s = {1} /\ s[1] = h.msg /\ Len(s) = 1
  OBVIOUS
<1> HIDE DEF u, v, s
<1>16. /\ OwnNodes' /\ BootFirst' /\ NodesStarted' /\ FetchesTrue' /\ RunsOnce'
       /\ FetchedNotRunning' /\ FetchedOnce'
  <2>1. Sendable(u, 1, s)
    BY <1>13, <1>14, <1>15 DEF Sendable
  <2>2. /\ TypeOK' /\ Tame /\ UNCHANGED <<stage, pos, nxtid>> /\ u \in Line /\ v \in Line /\ u # v
        /\ 1 \in Nat /\ 1 <= Len(Messages(u)) /\ s \in Seq(Msg) /\ Moves(u, v, 1, s)
    BY <1>7, <1>8, <1>9, <1>10, <1>11
  <2> QED BY <1>12, <2>1, <2>2, MessagesStep
<1>17. BootOrder' /\ OwnEntries' /\ TaskdirTruthful' /\ PagesPrivate'
  <2>1. BootOrder /\ OwnEntries /\ TaskdirTruthful /\ PagesPrivate
    BY DEF Inv
  <2>2. /\ stage' = stage /\ pos' = pos /\ taskdir' = taskdir
        /\ nodes' = nodes /\ nxtid' = nxtid /\ pool' = pool
    BY <1>11
  <2>3. BootOrder' /\ TaskdirTruthful'
    BY <2>1, <2>2, DirectoryKept
  <2>4. OwnEntries'
    BY <2>1, <2>2 DEF OwnEntries
  <2>5. PagesPrivate'
    BY <2>1, <2>2 DEF PagesPrivate
  <2> QED BY <2>3, <2>4, <2>5
<1> QED BY <1>7, <1>16, <1>17 DEF Inv

(* What the communication thread takes from the endpoint.                  *)
LEMMA Taken ==
  ASSUME TypeOK, NEW r \in Rank, queue[r] # <<>>, queue' = [queue EXCEPT ![r] = Tail(@)],
         NEW m, m = Head(queue[r]), NEW u, u = <<r, "endpoint">>
  PROVE  /\ m \in Msg /\ m \in MsgTo(r)
         /\ 1 \in {0, 1} /\ 1 <= Len(queue[r])
         /\ u \in Line /\ 1 \in DOMAIN Messages(u) /\ Messages(u)[1] = m
         /\ queue' \in [Rank -> Seq(Msg)] /\ \A q \in Rank : queue'[q] \in Seq(MsgTo(q))
         /\ \A q \in Rank : queue'[q] = IF q = r THEN SubSeq(queue[r], 1 + 1, Len(queue[r])) ELSE queue[q]
<1>1. queue \in [Rank -> Seq(Msg)] /\ \A q \in Rank : queue[q] \in Seq(MsgTo(q))
  BY DEF TypeOK
<1> DEFINE Q == queue[r]
<1>2. Q \in Seq(Msg) /\ Q \in Seq(MsgTo(r)) /\ Q # <<>> /\ m = Head(Q)
  BY <1>1
<1> HIDE DEF Q
<1>3. m = Q[1] /\ 1 <= Len(Q) /\ 1 \in DOMAIN Q /\ Tail(Q) = SubSeq(Q, 1 + 1, Len(Q)) /\ Tail(Q) \in Seq(Msg)
  BY <1>2
<1>4. m \in MsgTo(r) /\ Tail(Q) \in Seq(MsgTo(r))
  BY <1>2, <1>3
<1>5. m \in Msg
  BY <1>4 DEF MsgTo
<1>6. u \in Line /\ Messages(u) = Q
  BY LineMessages DEF Q
<1>7. \A q \in Rank : queue'[q] = IF q = r THEN Tail(Q) ELSE queue[q]
  BY <1>1 DEF Q
<1>8. queue' \in [Rank -> Seq(Msg)]
  BY <1>1, <1>3 DEF Q
<1>9. \A q \in Rank : queue'[q] \in Seq(MsgTo(q))
  BY <1>1, <1>4, <1>7
<1> QED BY <1>3, <1>4, <1>5, <1>6, <1>7, <1>8, <1>9 DEF Q

LEMMA TakenMoves ==
  ASSUME TypeOK, TypeOK', NEW r \in Rank, queue[r] # <<>>, queue' = [queue EXCEPT ![r] = Tail(@)],
         out' = out, NEW u, u = <<r, "endpoint">>, NEW v, v = <<r, "comm">>, NEW s, s = <<>>
  PROVE  /\ s \in Seq(Msg) /\ Moves(u, v, 1, s) /\ u \in Line /\ v \in Line /\ u # v
         /\ 1 \in Nat /\ 1 <= Len(Messages(u)) /\ \A z \in DOMAIN s : FALSE
<1>1. PICK m : m = Head(queue[r])
  OBVIOUS
<1>2. /\ 1 \in {0, 1} /\ 1 <= Len(queue[r])
      /\ \A q \in Rank : queue'[q] = IF q = r THEN SubSeq(queue[r], 1 + 1, Len(queue[r])) ELSE queue[q]
  BY <1>1, Taken
<1>3. s \in Seq(Outgoing) /\ s = [j \in 1 .. Len(s) |-> s[j].msg] /\ "comm" \in Threads /\ DOMAIN s = {}
  BY DEF Threads
<1>4. \A q \in Rank, x \in Threads : out'[q][x] = IF q = r /\ x = "comm" THEN out[r]["comm"] \o s ELSE out[q][x]
  <2>1. out[r]["comm"] \in Seq(Outgoing)
    BY <1>3 DEF TypeOK
  <2>2. out[r]["comm"] \o s = out[r]["comm"]
    BY <2>1
  <2> QED BY <2>2
<1>5. /\ s \in Seq(Msg) /\ Moves(<<r, "endpoint">>, <<r, "comm">>, 1, s)
      /\ <<r, "endpoint">> \in Line /\ <<r, "comm">> \in Line /\ <<r, "endpoint">> # <<r, "comm">>
      /\ 1 <= Len(Messages(<<r, "endpoint">>))
  <2>1. Sends(r, "comm", 1, s)
    BY <1>2, <1>4 DEF Sends
  <2> QED BY <1>2, <1>3, <2>1, SendMoves
<1> QED BY <1>3, <1>5

(* Steps that take a message, and neither send one nor touch a node.       *)
LEMMA TakenStep ==
  ASSUME Inv, NEW r \in Rank, queue[r] # <<>>, queue' = [queue EXCEPT ![r] = Tail(@)], TypeOK',
         UNCHANGED <<stage, pos, out, nodeVars>>
  PROVE  /\ OwnNodes' /\ BootFirst' /\ NodesStarted' /\ FetchesTrue' /\ RunsOnce'
         /\ FetchedNotRunning' /\ FetchedOnce' /\ PagesPrivate'
<1>1. TypeOK /\ PagesPrivate
  BY DEF Inv
<1>2. PICK u, v, s : u = <<r, "endpoint">> /\ v = <<r, "comm">> /\ s = <<>>
  OBVIOUS
<1>3. /\ s \in Seq(Msg) /\ Moves(u, v, 1, s) /\ u \in Line /\ v \in Line /\ u # v
      /\ 1 \in Nat /\ 1 <= Len(Messages(u)) /\ \A z \in DOMAIN s : FALSE
  BY <1>1, <1>2, TakenMoves
<1>4. Tame /\ UNCHANGED <<stage, pos, nxtid, nodes, pool>>
  BY DEF Tame, nodeVars
<1>5. Sendable(u, 1, s)
  BY <1>3 DEF Sendable
<1>6. PagesPrivate'
  BY <1>1, <1>4 DEF PagesPrivate
<1> QED BY <1>3, <1>4, <1>5, <1>6, MessagesStep

LEMMA CommFailStep ==
  ASSUME Inv, NEW r \in Rank, queue[r] # <<>>, queue' = [queue EXCEPT ![r] = Tail(@)],
         failed' = failed \cup {r}, UNCHANGED <<stage, pos, out, nodeVars, taskdir, buffer>>
  PROVE  Inv'
<1>1. TypeOK
  BY DEF Inv
<1>2. queue' \in [Rank -> Seq(Msg)] /\ \A q \in Rank : queue'[q] \in Seq(MsgTo(q))
  BY <1>1, Taken
<1>3. TypeOK'
  BY <1>1, <1>2 DEF TypeOK, nodeVars
<1>4. BootOrder' /\ OwnEntries' /\ TaskdirTruthful'
  <2>1. BootOrder /\ OwnEntries /\ TaskdirTruthful
    BY DEF Inv
  <2>2. nodes' = nodes /\ nxtid' = nxtid
    BY DEF nodeVars
  <2>3. BootOrder' /\ TaskdirTruthful'
    BY <2>1, DirectoryKept
  <2>4. OwnEntries'
    BY <2>1, <2>2 DEF OwnEntries
  <2> QED BY <2>3, <2>4
<1> QED BY <1>3, <1>4, TakenStep DEF Inv

LEMMA NodeNewStep ==
  ASSUME Inv, NEW r \in Rank, queue[r] # <<>>, queue' = [queue EXCEPT ![r] = Tail(@)],
         NEW m, m = Head(queue[r]), NodeNewHandler(r, m), UNCHANGED <<stage, pos>>
  PROVE  Inv'
<1> DEFINE a == m.app
           k == m.taskid
           id == node_new_name(r, m.name)
           e == Entry(m.source, 0, id)
           D == Seq(DirEntry \cup {INVALID})
           reg == taskdir_task_register(taskdir[r][a], k, e)
<1>1. TypeOK
  BY DEF Inv
<1>2. /\ m \in MsgTo(r) /\ m \in Msg /\ queue' \in [Rank -> Seq(Msg)]
      /\ \A q \in Rank : queue'[q] \in Seq(MsgTo(q))
  <2>1. PICK u : u = <<r, "endpoint">>
    OBVIOUS
  <2> QED BY <1>1, <2>1, Taken
<1>3. m.type = "node_new"
  BY DEF NodeNewHandler
<1>4. /\ m \in [type : {"node_new"}, source : Rank, app : Nat \ {0}, taskid : Nat, name : Name]
      /\ a \in DOMAIN Apps /\ \E i \in DOMAIN Apps[a] : Places(a, i, m.source, k, m.name)
      /\ m.source # r
  <2>1. m \in NewMsg
    BY <1>2, <1>3 DEF Msg, MigrateMsg, FetchMsg
  <2>2. m.source # r
    BY <1>2, <1>3 DEF MsgTo
  <2> QED BY <2>1, <2>2 DEF NewMsg
<1>5. m.source \in Rank /\ a \in Nat \ {0} /\ k \in Nat /\ m.name \in Name
  BY <1>4
<1>6. /\ a <= Len(taskdir[r]) /\ buffer' = [buffer EXCEPT ![r] = Received(r, m.name)]
      /\ taskdir' = [taskdir EXCEPT ![r][a] = taskdir_task_register(@, k, e)]
      /\ UNCHANGED <<failed, out, nodeVars>>
  BY DEF NodeNewHandler, gzll_app_get
<1>7. taskdir \in [Rank -> Seq(D)] /\ taskdir[r] \in Seq(D) /\ a \in DOMAIN taskdir[r] /\ taskdir[r][a] \in D
  <2>1. taskdir \in [Rank -> Seq(D)]
    BY <1>1 DEF TypeOK
  <2> HIDE DEF D, a
  <2>2. taskdir[r] \in Seq(D)
    BY <2>1
  <2>3. a \in DOMAIN taskdir[r]
    BY <1>5, <1>6, <2>2
  <2> QED BY <2>1, <2>2, <2>3
<1>8. /\ Received(r, m.name) \in Seq(Words) /\ id \in Seq(Words)
      /\ IF Last(m.name) \in EndWords THEN id = m.name ELSE IsPrefix(m.name, id)
  BY <1>1, <1>5, ReceivedName
<1>9. e \in DirEntry /\ e.rank = m.source /\ e.identifier = id
  <2> HIDE DEF id
  <2> QED BY <1>5, <1>8 DEF Entry, DirEntry
<1>10. /\ reg \in D
       /\ \A x \in DOMAIN reg : \/ reg[x] = INVALID
                                \/ x \in DOMAIN taskdir[r][a] /\ reg[x] = taskdir[r][a][x]
                                \/ x = k + 1 /\ reg[x] = e
  <2> HIDE DEF k, e, a
  <2> QED BY <1>5, <1>7, <1>9, RegisterEntry DEF Registered
<1> HIDE DEF reg, e, D, id
<1>11. /\ taskdir' \in [Rank -> Seq(D)]
       /\ \A q \in Rank \ {r} : taskdir'[q] = taskdir[q]
       /\ DOMAIN taskdir'[r] = DOMAIN taskdir[r] /\ Len(taskdir'[r]) = Len(taskdir[r])
       /\ \A b \in DOMAIN taskdir[r] : taskdir'[r][b] = IF b = a THEN reg ELSE taskdir[r][b]
  <2>1. taskdir' = [taskdir EXCEPT ![r] = [taskdir[r] EXCEPT ![a] = reg]]
    BY <1>6, <1>7 DEF reg
  <2> HIDE DEF a
  <2>2. [taskdir[r] EXCEPT ![a] = reg] \in Seq(D)
    BY <1>7, <1>10
  <2> QED BY <1>7, <2>1, <2>2
<1>12. TypeOK'
  <2>1. taskdir' \in [Rank -> Seq(Seq(DirEntry \cup {INVALID}))]
    BY <1>11 DEF D
  <2>2. buffer' \in [Rank -> Seq(Words)]
    BY <1>1, <1>6, <1>8 DEF TypeOK
  <2> QED BY <1>1, <1>2, <1>6, <2>1, <2>2 DEF TypeOK, nodeVars
<1>13. \A q \in Rank : \A b \in DOMAIN taskdir'[q] : \A x \in DOMAIN taskdir'[q][b] :
         \/ taskdir'[q][b][x] = INVALID
         \/ b \in DOMAIN taskdir[q] /\ x \in DOMAIN taskdir[q][b] /\ taskdir'[q][b][x] = taskdir[q][b][x]
         \/ q = r /\ b = a /\ x = k + 1 /\ taskdir'[q][b][x] = e
  <2> SUFFICES ASSUME NEW q \in Rank, NEW b \in DOMAIN taskdir'[q], NEW x \in DOMAIN taskdir'[q][b]
               PROVE  \/ taskdir'[q][b][x] = INVALID
                      \/ b \in DOMAIN taskdir[q] /\ x \in DOMAIN taskdir[q][b] /\ taskdir'[q][b][x] = taskdir[q][b][x]
                      \/ q = r /\ b = a /\ x = k + 1 /\ taskdir'[q][b][x] = e
    OBVIOUS
  <2>1. CASE q # r
    BY <1>11, <2>1
  <2>2. CASE q = r /\ b # a
    BY <1>11, <2>2
  <2>3. CASE q = r /\ b = a
    <3>1. b \in DOMAIN taskdir[r] /\ x \in DOMAIN reg /\ taskdir'[q][b][x] = reg[x]
      BY <1>7, <1>11, <2>3
    <3> QED BY <1>10, <2>3, <3>1
  <2> QED BY <2>1, <2>2, <2>3
<1>14. BootOrder'
  <2>1. \A q \in Rank : Len(taskdir'[q]) = Len(taskdir[q])
    BY <1>11
  <2> QED BY <2>1 DEF BootOrder, Inv
<1>15. OwnEntries'
  <2> SUFFICES ASSUME NEW q \in Rank, NEW b \in DOMAIN taskdir'[q], NEW x \in DOMAIN taskdir'[q][b],
                      NEW f, f = taskdir'[q][b][x], f # INVALID, f.rank = q
               PROVE  f.nodeid \in 1 .. nxtid'[q] - 1 /\ nodes'[q][f.nodeid].task = <<b, x - 1>>
    BY DEF OwnEntries
  <2>1. b \in DOMAIN taskdir[q] /\ x \in DOMAIN taskdir[q][b] /\ f = taskdir[q][b][x]
    BY <1>4, <1>9, <1>13
  <2>2. nodes' = nodes /\ nxtid' = nxtid
    BY <1>6 DEF nodeVars
  <2> QED BY <2>1, <2>2 DEF OwnEntries, Inv
<1>16. TaskdirTruthful'
  <2> SUFFICES ASSUME NEW q \in Rank, NEW b \in DOMAIN taskdir'[q], NEW x \in DOMAIN taskdir'[q][b],
                      NEW f, f = taskdir'[q][b][x], f # INVALID
               PROVE  /\ f.rank \in Rank
                      /\ \E j \in DOMAIN Apps[b] :
                           /\ PlacedOn(b, j, f.rank) /\ TaskId(b, j, f.rank) = x - 1
                           /\ LET n == Apps[b][j].names[f.rank]
                              IN IF Last(n) \in EndWords THEN f.identifier = n ELSE IsPrefix(n, f.identifier)
    BY DEF TaskdirTruthful
  <2>1. CASE b \in DOMAIN taskdir[q] /\ x \in DOMAIN taskdir[q][b] /\ f = taskdir[q][b][x]
    BY <2>1 DEF TaskdirTruthful, Inv
  <2>2. CASE q = r /\ b = a /\ x = k + 1 /\ f = e
    <3>1. x - 1 = k /\ f.rank = m.source /\ f.identifier = id
      BY <1>5, <1>9, <2>2
    <3>2. PICK j \in DOMAIN Apps[a] : Places(a, j, m.source, k, m.name)
      BY <1>4
    <3>3. PlacedOn(a, j, m.source) /\ TaskId(a, j, m.source) = k /\ Apps[a][j].names[m.source] = m.name
      BY <3>2 DEF Places
    <3>4. /\ PlacedOn(b, j, f.rank) /\ TaskId(b, j, f.rank) = x - 1
          /\ LET n == Apps[b][j].names[f.rank]
             IN IF Last(n) \in EndWords THEN f.identifier = n ELSE IsPrefix(n, f.identifier)
      BY <1>8, <2>2, <3>1, <3>3
    <3> QED BY <1>5, <2>2, <3>1, <3>4
  <2> QED BY <1>13, <2>1, <2>2
<1>17. UNCHANGED <<stage, pos, out, nodeVars>>
  BY <1>6
<1> QED BY <1>12, <1>14, <1>15, <1>16, <1>17, TakenStep DEF Inv

(* Pages stay where they are.                                              *)
LEMMA PagesKept ==
  ASSUME PagesPrivate, pool' = pool,
         \A r \in Rank : /\ DOMAIN nodes'[r] = DOMAIN nodes[r]
                         /\ \A i \in DOMAIN nodes[r] : nodes'[r][i].pages = nodes[r][i].pages
  PROVE  PagesPrivate'
BY DEF PagesPrivate

(* The copy of a node that a rank has fetched.                             *)
LEMMA NodeFetchStep ==
  ASSUME Inv, NEW r \in Rank, queue[r] # <<>>, queue' = [queue EXCEPT ![r] = Tail(@)],
         NEW m, m = Head(queue[r]), NodeFetchHandler(r, m), UNCHANGED <<stage, pos>>
  PROVE  Inv'
<1> DEFINE n == Len(nodes[r])
           t == <<m.app, m.taskid>>
<1>0. PICK u, v, s : u = <<r, "endpoint">> /\ v = <<r, "comm">> /\ s = <<>>
  OBVIOUS
<1>1. /\ TypeOK /\ BootFirst /\ FetchesTrue /\ FetchedNotRunning /\ FetchedOnce /\ RunsOnce
      /\ OwnNodes /\ OwnEntries /\ NodesStarted /\ PagesPrivate
  BY DEF Inv
<1>2. /\ m \in Msg /\ queue' \in [Rank -> Seq(Msg)] /\ \A q \in Rank : queue'[q] \in Seq(MsgTo(q))
      /\ u \in Line /\ 1 \in DOMAIN Messages(u) /\ Messages(u)[1] = m
  BY <1>0, <1>1, Taken
<1>3. Fetch(m) /\ m.type = "node_fetch"
  BY DEF NodeFetchHandler, Fetch
<1>4. m.source \in Rank /\ m.node \in DOMAIN nodes[m.source] /\ nodes[m.source][m.node].task = t
  <2>1. m.source \in Rank
    BY <1>2, <1>3 DEF Msg, NewMsg, MigrateMsg, FetchMsg
  <2>2. m.node \in DOMAIN nodes[m.source] /\ nodes[m.source][m.node].task = t
    BY <1>1, <1>2, <1>3 DEF FetchesTrue
  <2> QED BY <2>1, <2>2
<1>5. PICK remote : remote = nodes[m.source][m.node]
  OBVIOUS
<1>6. remote \in NodeRecord /\ remote.task = t
  <2>1. PICK q, i : q = m.source /\ i = m.node
    OBVIOUS
  <2>2. q \in Rank /\ i \in DOMAIN nodes[q] /\ remote = nodes[q][i]
    BY <1>4, <1>5, <2>1
  <2>3. nodes[q] \in Seq(NodeRecord)
    BY <1>1, <2>2 DEF TypeOK
  <2>4. remote \in NodeRecord
    BY <2>2, <2>3
  <2> QED BY <1>4, <1>5, <2>4
<1>7. PICK pages : pages = dir_copy(r, remote.pages)
  OBVIOUS
<1>8. PICK copy : copy = [remote EXCEPT !.pages = pages, !.taskid = INVALID, !.ready = TRUE]
  OBVIOUS
<1>9. remote.pages \in Seq(0 .. FRAMES) /\ Len(remote.pages) \in Nat
  <2>1. remote.pages \in Seq(0 .. FRAMES)
    BY <1>6 DEF NodeRecord
  <2> QED BY <2>1
<1>10. /\ pages \in Seq(0 .. FRAMES) /\ Len(pages) = Len(remote.pages)
       /\ \A k \in 1 .. Len(pages) : pages[k] = IF k <= Len(pool[r]) THEN pool[r][k] ELSE 0
  <2> DEFINE L == Len(remote.pages)
             p == pool[r]
  <2>1. L \in Nat /\ p \in Seq(1 .. FRAMES) /\ FRAMES \in Nat
    BY <1>1, <1>9, GzllAssumption DEF TypeOK
  <2>2. pages = [k \in 1 .. L |-> IF k <= Len(p) THEN p[k] ELSE 0]
    BY <1>7 DEF dir_copy
  <2> HIDE DEF L, p
  <2>3. ASSUME NEW k \in 1 .. L PROVE (IF k <= Len(p) THEN p[k] ELSE 0) \in 0 .. FRAMES
    <3>1. k \in Nat /\ k >= 1
      BY <2>1
    <3>2. CASE k <= Len(p)
      <4>1. k \in 1 .. Len(p)
        BY <2>1, <3>1, <3>2
      <4>2. p[k] \in 1 .. FRAMES
        BY <2>1, <4>1
      <4> QED BY <2>1, <3>2, <4>2
    <3>3. CASE ~(k <= Len(p))
      BY <2>1, <3>3
    <3> QED BY <3>2, <3>3
  <2>4. pages \in Seq(0 .. FRAMES) /\ Len(pages) = L
    BY <2>1, <2>2, <2>3
  <2>5. \A k \in 1 .. L : pages[k] = IF k <= Len(p) THEN p[k] ELSE 0
    BY <2>2
  <2> QED BY <2>4, <2>5 DEF L, p
<1>11. copy \in NodeRecord /\ copy.task = t /\ copy.pages = pages /\ copy.ready
  <2> DEFINE T == (Nat \ {0}) \X Nat
             I == Nat \cup {INVALID}
             S == Seq(0 .. FRAMES)
             R == [id : Nat, app : Nat, taskid : I, pages : S, ready : BOOLEAN, task : T]
  <2>1. remote \in R /\ pages \in S /\ INVALID \in I
    BY <1>6, <1>10 DEF NodeRecord
  <2> HIDE DEF T, I, S, t
  <2>2. copy \in R /\ copy.task = remote.task /\ copy.pages = pages /\ copy.ready
    BY <1>8, <2>1
  <2> QED BY <1>6, <2>2 DEF NodeRecord, T, I, S
<1>12. /\ nodes' = [nodes EXCEPT ![r] = Append(@, copy)]
       /\ pool' = [pool EXCEPT ![r] = Rest(@, Len(pages))]
       /\ UNCHANGED <<failed, out, taskdir, nxtid, buffer>>
  <2>1. /\ nodes' = [nodes EXCEPT ![r] = Append(@, [remote EXCEPT !.pages = dir_copy(r, @), !.taskid = INVALID, !.ready = TRUE])]
        /\ pool' = [pool EXCEPT ![r] = Rest(@, Len(remote.pages))]
        /\ UNCHANGED <<failed, out, taskdir, nxtid, buffer>>
    BY <1>5 DEF NodeFetchHandler
  <2> QED BY <1>7, <1>8, <1>10, <2>1
<1>13. /\ nodes \in [Rank -> Seq(NodeRecord)] /\ nodes' \in [Rank -> Seq(NodeRecord)]
       /\ \A q \in Rank : nodes'[q] = IF q = r THEN Append(nodes[r], copy) ELSE nodes[q]
  BY <1>1, <1>11, <1>12 DEF TypeOK
<1>14. /\ pool' \in [Rank -> Seq(1 .. FRAMES)]
       /\ \A q \in Rank : pool'[q] = IF q = r THEN Rest(pool[r], Len(pages)) ELSE pool[q]
  <2>1. pool \in [Rank -> Seq(1 .. FRAMES)] /\ Len(pages) \in Nat
    BY <1>1, <1>9, <1>10 DEF TypeOK
  <2>2. Rest(pool[r], Len(pages)) \in Seq(1 .. FRAMES)
    <3> DEFINE p == pool[r]
               L == Len(pages)
    <3>1. p \in Seq(1 .. FRAMES) /\ L \in Nat
      BY <2>1
    <3> HIDE DEF p, L
    <3>2. PICK S : S = 1 .. FRAMES
      OBVIOUS
    <3>3. p \in Seq(S) /\ Len(p) \in Nat
      BY <3>1, <3>2
    <3>4. SubSeq(p, L + 1, Len(p)) \in Seq(S)
      BY <3>1, <3>3
    <3> QED BY <3>2, <3>4 DEF p, L, Rest
  <2> QED BY <1>12, <2>1, <2>2
<1>15. TypeOK'
  BY <1>1, <1>2, <1>12, <1>13, <1>14 DEF TypeOK
<1>16. n \in Nat /\ DOMAIN nodes[r] = 1 .. n /\ DOMAIN nodes'[r] = 1 .. n + 1
       /\ nodes'[r][n + 1] = copy /\ \A i \in 1 .. n : nodes'[r][i] = nodes[r][i]
  <2> DEFINE old == nodes[r]
             new == nodes'[r]
  <2>1. old \in Seq(NodeRecord) /\ new = Append(old, copy) /\ n = Len(old)
    BY <1>13
  <2> HIDE DEF old, new, n
  <2>2. n \in Nat /\ DOMAIN old = 1 .. n
    BY <2>1
  <2>3. DOMAIN new = 1 .. n + 1 /\ new[n + 1] = copy /\ \A i \in 1 .. n : new[i] = old[i]
    <3>1. \A c \in NodeRecord : LET w == Append(old, c)
                                IN DOMAIN w = 1 .. n + 1 /\ w[n + 1] = c /\ \A i \in 1 .. n : w[i] = old[i]
      BY <2>1, <2>2
    <3> QED BY <1>11, <2>1, <3>1
  <2> QED BY <2>2, <2>3 DEF old, new
<1> HIDE DEF n
<1>17. ASSUME NEW q \in Rank, NEW i \in DOMAIN nodes[q]
       PROVE  i \in DOMAIN nodes'[q] /\ nodes'[q][i] = nodes[q][i]
  <2>1. CASE q = r
    BY <1>16, <2>1
  <2>2. CASE q # r
    BY <1>13, <2>2
  <2> QED BY <2>1, <2>2
<1>18. ASSUME NEW q \in Rank, NEW i \in DOMAIN nodes'[q]
       PROVE  \/ i \in DOMAIN nodes[q] /\ nodes'[q][i] = nodes[q][i]
              \/ q = r /\ i = n + 1 /\ nodes'[q][i] = copy
  <2>1. CASE q = r
    BY <1>16, <2>1
  <2>2. CASE q # r
    BY <1>13, <2>2
  <2> QED BY <2>1, <2>2
<1>19. BootFirst' /\ BootOrder' /\ TaskdirTruthful'
  <2>1. \A q \in Rank : stage[q] = "done"
    BY <1>1, <1>2, <1>3 DEF BootFirst
  <2>2. BootFirst'
    BY <2>1 DEF BootFirst
  <2>3. BootOrder /\ TaskdirTruthful /\ taskdir' = taskdir
    BY <1>12 DEF Inv
  <2>4. BootOrder' /\ TaskdirTruthful'
    BY <2>3, DirectoryKept
  <2> QED BY <2>2, <2>4
<1>20. OwnNodes'
  <2> SUFFICES ASSUME NEW q \in Rank
               PROVE  /\ nxtid[q] - 1 <= Len(nodes'[q])
                      /\ \A j \in 1 .. nxtid[q] - 1 : nodes'[q][j].id = j
    BY <1>12 DEF OwnNodes
  <2>1. nxtid[q] - 1 <= Len(nodes[q]) /\ \A j \in 1 .. nxtid[q] - 1 : nodes[q][j].id = j
    BY <1>1 DEF OwnNodes
  <2>2. nodes[q] \in Seq(NodeRecord) /\ nodes'[q] \in Seq(NodeRecord) /\ nxtid[q] \in Nat
    BY <1>1, <1>13 DEF TypeOK
  <2>3. Len(nodes[q]) <= Len(nodes'[q]) /\ Len(nodes[q]) \in Nat /\ Len(nodes'[q]) \in Nat
    <3>1. CASE q = r
      <4>1. Len(Append(nodes[q], copy)) = Len(nodes[q]) + 1
        BY <1>11, <2>2
      <4> QED BY <1>13, <2>2, <3>1, <4>1
    <3>2. CASE q # r
      BY <1>13, <2>2, <3>2
    <3> QED BY <3>1, <3>2
  <2>4. ASSUME NEW j \in 1 .. nxtid[q] - 1 PROVE nodes'[q][j].id = j
    <3>1. j \in DOMAIN nodes[q]
      BY <2>1, <2>2, <2>3
    <3> QED BY <1>17, <2>1, <3>1
  <2> QED BY <2>1, <2>2, <2>3, <2>4
<1>21. OwnEntries'
  <2>0. taskdir' = taskdir /\ nxtid' = nxtid
    BY <1>12
  <2> SUFFICES ASSUME NEW q \in Rank, NEW b \in DOMAIN taskdir[q], NEW x \in DOMAIN taskdir[q][b],
                      NEW f, f = taskdir[q][b][x], f # INVALID, f.rank = q
               PROVE  f.nodeid \in 1 .. nxtid[q] - 1 /\ nodes'[q][f.nodeid].task = <<b, x - 1>>
    BY <2>0 DEF OwnEntries
  <2>1. PICK o : o = f.nodeid
    OBVIOUS
  <2>2. o \in 1 .. nxtid[q] - 1 /\ nodes[q][o].task = <<b, x - 1>>
    BY <1>1, <2>1 DEF OwnEntries
  <2>3. nxtid[q] - 1 <= Len(nodes[q]) /\ nodes[q] \in Seq(NodeRecord) /\ nxtid[q] \in Nat
    BY <1>1 DEF OwnNodes, TypeOK
  <2>4. o \in DOMAIN nodes[q]
    BY <2>2, <2>3
  <2> QED BY <1>17, <2>1, <2>2, <2>4
<1>22. NodesStarted'
  <2>1. \A q, a, i : Passed(q, a, i) <=> Passed(q, a, i)'
    BY DEF Passed
  <2> SUFFICES ASSUME NEW q \in Rank, NEW i \in DOMAIN nodes'[q], NEW k, k = nodes'[q][i].task
               PROVE  k[1] \in DOMAIN Apps /\ \E z \in Rank : \E j \in DOMAIN Apps[k[1]] :
                        PlacedOn(k[1], j, z) /\ TaskId(k[1], j, z) = k[2] /\ Passed(z, k[1], j)'
    BY DEF NodesStarted
  <2>2. \E z \in Rank : \E j \in DOMAIN nodes[z] : k = nodes[z][j].task
    <3>1. CASE i \in DOMAIN nodes[q] /\ nodes'[q][i] = nodes[q][i]
      BY <3>1
    <3>2. CASE nodes'[q][i] = copy
      <4>1. k = nodes[m.source][m.node].task
        BY <1>4, <1>11, <3>2
      <4> QED BY <1>4, <4>1
    <3> QED BY <1>18, <3>1, <3>2
  <2>3. k[1] \in DOMAIN Apps /\ \E z \in Rank : \E j \in DOMAIN Apps[k[1]] :
           PlacedOn(k[1], j, z) /\ TaskId(k[1], j, z) = k[2] /\ Passed(z, k[1], j)
    BY <1>1, <2>2 DEF NodesStarted
  <2> QED BY <2>1, <2>3
<1>23. RunsOnce'
  <2>1. \A q \in Rank : \A i \in DOMAIN nodes[q] : nodes[q][i].ready => nodes[q][i].task # t
    BY <1>1, <1>2, <1>3 DEF FetchedNotRunning
  <2> SUFFICES ASSUME NEW q \in Rank, NEW z \in Rank, NEW i \in DOMAIN nodes'[q], NEW j \in DOMAIN nodes'[z],
                      nodes'[q][i].ready, nodes'[z][j].ready, nodes'[q][i].task = nodes'[z][j].task
               PROVE  q = z /\ i = j
    BY DEF RunsOnce
  <2> HIDE DEF t
  <2>2. CASE /\ i \in DOMAIN nodes[q] /\ nodes'[q][i] = nodes[q][i]
             /\ j \in DOMAIN nodes[z] /\ nodes'[z][j] = nodes[z][j]
    BY <1>1, <2>2 DEF RunsOnce
  <2>3. CASE /\ i \in DOMAIN nodes[q] /\ nodes'[q][i] = nodes[q][i] /\ nodes'[z][j] = copy
    BY <1>11, <2>1, <2>3
  <2>4. CASE /\ j \in DOMAIN nodes[z] /\ nodes'[z][j] = nodes[z][j] /\ nodes'[q][i] = copy
    BY <1>11, <2>1, <2>4
  <2> QED BY <1>18, <2>2, <2>3, <2>4
<1>24. PagesPrivate'
  <2>1. /\ \A q \in Rank : pool'[q] = IF q = r THEN Rest(pool[r], Len(copy.pages)) ELSE pool[q]
        /\ \A k \in 1 .. Len(copy.pages) : copy.pages[k] = IF k <= Len(pool[r]) THEN pool[r][k] ELSE 0
    BY <1>10, <1>11, <1>14
  <2> QED BY <1>1, <1>11, <1>13, <1>15, <2>1, PagesOfNewNode
<1>25. /\ s \in Seq(Msg) /\ Moves(u, v, 1, s) /\ u \in Line /\ v \in Line /\ u # v
       /\ 1 \in Nat /\ 1 <= Len(Messages(u)) /\ \A z \in DOMAIN s : FALSE
  <2>1. out' = out
    BY <1>12
  <2> QED BY <1>0, <1>1, <1>15, <2>1, TakenMoves
<1>26. ASSUME NEW l \in Line, NEW x \in DOMAIN Messages(l)'
       PROVE  \E b \in Line : \E y \in DOMAIN Messages(b) :
                Messages(l)'[x] = Messages(b)[y] /\ (b = u => y > 1)
  <2>1. \/ \E b \in Line : \E y \in DOMAIN Messages(b) :
             Messages(l)'[x] = Messages(b)[y] /\ (b = u => y > 1)
        \/ \E z \in DOMAIN s : Messages(l)'[x] = s[z]
    BY <1>1, <1>25, MessagesAfter
  <2> QED BY <1>25, <2>1
<1>27. FetchedOnce'
  BY <1>1, <1>25, FetchedOnceKept
<1>28. FetchesTrue' /\ FetchedNotRunning'
  <2>1. ASSUME NEW l \in Line, NEW x \in DOMAIN Messages(l)', NEW o, o = Messages(l)'[x], Fetch(o)
        PROVE  /\ o.node \in DOMAIN nodes'[o.source] /\ nodes'[o.source][o.node].task = <<o.app, o.taskid>>
               /\ \A q \in Rank : \A i \in DOMAIN nodes'[q] :
                    nodes'[q][i].ready => nodes'[q][i].task # <<o.app, o.taskid>>
    <3>1. PICK b \in Line : \E y \in DOMAIN Messages(b) : o = Messages(b)[y] /\ (b = u => y > 1)
      BY <1>26, <2>1
    <3>2. PICK y \in DOMAIN Messages(b) : o = Messages(b)[y] /\ (b = u => y > 1)
      BY <3>1
    <3>3. o.node \in DOMAIN nodes[o.source] /\ nodes[o.source][o.node].task = <<o.app, o.taskid>>
      BY <1>1, <2>1, <3>2 DEF FetchesTrue
    <3>4. o.source \in Rank
      BY <1>1, <2>1, <3>2, FetchSource
    <3>5. \A q \in Rank : \A i \in DOMAIN nodes[q] : nodes[q][i].ready => nodes[q][i].task # <<o.app, o.taskid>>
      BY <1>1, <2>1, <3>2 DEF FetchedNotRunning
    <3>6. <<o.app, o.taskid>> # t
      <4> SUFFICES ASSUME <<o.app, o.taskid>> = <<m.app, m.taskid>> PROVE FALSE
        OBVIOUS
      <4>1. b = u /\ y = 1
        BY <1>1, <1>2, <1>3, <2>1, <3>2 DEF FetchedOnce
      <4> QED BY <3>2, <4>1
    <3> HIDE DEF t
    <3>7. ASSUME NEW q \in Rank, NEW i \in DOMAIN nodes'[q], nodes'[q][i].ready
          PROVE  nodes'[q][i].task # <<o.app, o.taskid>>
      BY <1>11, <1>18, <3>5, <3>6, <3>7
    <3> QED BY <1>17, <3>3, <3>4, <3>7
  <2>2. FetchesTrue'
    BY <2>1 DEF FetchesTrue, Fetch
  <2>3. FetchedNotRunning'
    BY <2>1 DEF FetchedNotRunning, Fetch
  <2> QED BY <2>2, <2>3
<1> QED BY <1>15, <1>19, <1>20, <1>21, <1>22, <1>23, <1>24, <1>27, <1>28 DEF Inv

(* The first node with the id of a rank's own entry is the node of the     *)
(* entry's task, although fetched nodes bring ids of other ranks.          *)
LocalEntry(r, a, x, e) ==
  /\ a \in DOMAIN taskdir[r] /\ x \in DOMAIN taskdir[r][a]
  /\ e = taskdir[r][a][x] /\ e # INVALID /\ e.rank = r

RunsTask(r, i, a, x) == i \in DOMAIN nodes[r] /\ nodes[r][i].task = <<a, x - 1>>

LEMMA NodeFind ==
  ASSUME Inv, NEW r \in Rank, NEW a, NEW x, NEW e, LocalEntry(r, a, x, e)
  PROVE  RunsTask(r, gzll_node_find(r, e.nodeid), a, x)
<1> DEFINE i == gzll_node_find(r, e.nodeid)
           id == e.nodeid
           found == {j \in DOMAIN nodes[r] : nodes[r][j].id = id}
<1>1. id \in 1 .. nxtid[r] - 1 /\ nodes[r][id].task = <<a, x - 1>>
  BY DEF Inv, OwnEntries, LocalEntry
<1>2. nxtid[r] - 1 <= Len(nodes[r]) /\ \A j \in 1 .. nxtid[r] - 1 : nodes[r][j].id = j
  BY DEF Inv, OwnNodes
<1>3. DOMAIN nodes[r] = 1 .. Len(nodes[r]) /\ Len(nodes[r]) \in Nat /\ nxtid[r] \in Nat
  BY DEF Inv, TypeOK
<1> HIDE DEF id
<1>4. id \in found /\ id \in DOMAIN nodes[r]
  BY <1>1, <1>2, <1>3
<1>5. ASSUME NEW j \in found PROVE id <= j
  <2>1. j \in 1 .. Len(nodes[r]) /\ nodes[r][j].id = id
    BY <1>3
  <2>2. CASE j \in 1 .. nxtid[r] - 1
    BY <1>1, <1>2, <1>3, <2>1, <2>2
  <2>3. CASE j \notin 1 .. nxtid[r] - 1
    BY <1>1, <1>3, <2>1, <2>3
  <2> QED BY <2>2, <2>3
<1>6. i = CHOOSE j \in found : \A k \in found : j <= k
  BY DEF gzll_node_find, id
<1>7. found \subseteq Int
  BY <1>3
<1> HIDE DEF found, i
<1>8. i \in found /\ \A k \in found : i <= k
  BY <1>4, <1>5, <1>6
<1>9. i = id
  BY <1>4, <1>5, <1>7, <1>8
<1> QED BY <1>1, <1>4, <1>9 DEF id, i, RunsTask

(* A node that is taken out of the ready queue.                            *)
LEMMA ReadyCleared ==
  ASSUME TypeOK, NEW r \in Rank, NEW i \in DOMAIN nodes[r], nodes' = [nodes EXCEPT ![r][i].ready = FALSE]
  PROVE  /\ nodes' \in [Rank -> Seq(NodeRecord)] /\ Tame
         /\ ~nodes'[r][i].ready
         /\ \A q \in Rank : /\ DOMAIN nodes'[q] = DOMAIN nodes[q]
                            /\ \A j \in DOMAIN nodes[q] : nodes'[q][j].pages = nodes[q][j].pages
<1> DEFINE node == [nodes[r][i] EXCEPT !.ready = FALSE]
           old == nodes[r]
           new == [old EXCEPT ![i] = node]
<1>1. nodes \in [Rank -> Seq(NodeRecord)] /\ old \in Seq(NodeRecord) /\ old[i] \in NodeRecord
  <2>1. nodes \in [Rank -> Seq(NodeRecord)]
    BY DEF TypeOK
  <2>2. old \in Seq(NodeRecord)
    BY <2>1
  <2> QED BY <2>1, <2>2
<1>2. /\ node \in NodeRecord /\ node.id = old[i].id /\ node.task = old[i].task /\ node.pages = old[i].pages
      /\ node.ready = FALSE
  <2> DEFINE T == (Nat \ {0}) \X Nat
             I == Nat \cup {INVALID}
             S == Seq(0 .. FRAMES)
             R == [id : Nat, app : Nat, taskid : I, pages : S, ready : BOOLEAN, task : T]
             x == old[i]
  <2>1. x \in R /\ node = [x EXCEPT !.ready = FALSE]
    BY <1>1 DEF NodeRecord
  <2> HIDE DEF T, I, S, x, node
  <2>2. /\ node \in R /\ node.id = x.id /\ node.task = x.task /\ node.pages = x.pages
        /\ node.ready = FALSE
    BY <2>1
  <2> QED BY <2>2 DEF NodeRecord, T, I, S, x
<1>3. nodes' = [nodes EXCEPT ![r] = new]
  BY <1>1
<1> HIDE DEF node
<1>4. new \in Seq(NodeRecord) /\ DOMAIN new = DOMAIN old /\ \A j \in DOMAIN old : new[j] = IF j = i THEN node ELSE old[j]
  <2> HIDE DEF old
  <2>1. i \in DOMAIN old
    BY DEF old
  <2> QED BY <1>1, <1>2, <2>1
<1> HIDE DEF new
<1>5. /\ nodes' \in [Rank -> Seq(NodeRecord)]
      /\ \A q \in Rank : nodes'[q] = IF q = r THEN new ELSE nodes[q]
  BY <1>1, <1>3, <1>4
<1>6. ASSUME NEW q \in Rank
      PROVE  /\ DOMAIN nodes'[q] = DOMAIN nodes[q]
             /\ \A j \in DOMAIN nodes[q] :
                  /\ nodes'[q][j].id = nodes[q][j].id /\ nodes'[q][j].task = nodes[q][j].task
                  /\ nodes'[q][j].pages = nodes[q][j].pages
                  /\ nodes'[q][j].ready => nodes[q][j].ready
  <2>1. CASE q = r
    BY <1>2, <1>4, <1>5, <2>1
  <2>2. CASE q # r
    BY <1>5, <2>2
  <2> QED BY <2>1, <2>2
<1>7. ~nodes'[r][i].ready
  BY <1>2, <1>4, <1>5
<1> QED BY <1>5, <1>6, <1>7 DEF Tame

(* gzll_node_migrate, in the communication thread (which has taken the     *)
(* request, d = 1) or in the agent.                                        *)
LEMMA NodeMigrateStep ==
  ASSUME Inv, NEW r \in Rank, NEW t \in Threads, NEW a \in Nat \ {0}, NEW k \in Nat, NEW dest \in Rank,
         gzll_node_migrate(r, t, a, k, dest), \A q \in Rank : stage[q] = "done",
         NEW d \in {0, 1}, d <= Len(queue[r]),
         \A q \in Rank : queue'[q] = IF q = r THEN SubSeq(queue[r], d + 1, Len(queue[r])) ELSE queue[q],
         queue' \in [Rank -> Seq(Msg)], \A q \in Rank : queue'[q] \in Seq(MsgTo(q)),
         UNCHANGED <<stage, pos, taskdir, buffer>>
  PROVE  Inv'
<1>1. TypeOK /\ BootOrder /\ OwnEntries /\ TaskdirTruthful /\ PagesPrivate /\ OwnNodes
  BY DEF Inv
<1>2. PICK u, v : u = <<r, "endpoint">> /\ v = <<r, t>>
  OBVIOUS
(* What is left to show, given what is sent. *)
<1>3. ASSUME NEW ms \in Seq(Outgoing), out' = [out EXCEPT ![r][t] = @ \o ms],
             UNCHANGED <<nxtid, pool>>, failed' = failed \/ failed' = failed \cup {r},
             nodes' \in [Rank -> Seq(NodeRecord)], Tame, PagesPrivate',
             \A s : s = [j \in 1 .. Len(ms) |-> ms[j].msg] => Sendable(u, d, s)
      PROVE  Inv'
  <2>1. PICK s : s = [j \in 1 .. Len(ms) |-> ms[j].msg]
    OBVIOUS
  <2>2. /\ out' \in [Rank -> [Threads -> Seq(Outgoing)]]
        /\ \A q \in Rank, x \in Threads : out'[q][x] = IF q = r /\ x = t THEN out[r][t] \o ms ELSE out[q][x]
    <3>1. out \in [Rank -> [Threads -> Seq(Outgoing)]]
      BY <1>1 DEF TypeOK
    <3>2. out[r][t] \o ms \in Seq(Outgoing)
      BY <1>3, <3>1
    <3> QED BY <1>3, <3>1, <3>2
  <2>3. TypeOK'
    BY <1>1, <1>3, <2>2 DEF TypeOK
  <2>4. Sends(r, t, d, ms)
    BY <2>2 DEF Sends
  <2>5. s \in Seq(Msg) /\ Moves(u, v, d, s) /\ u \in Line /\ v \in Line /\ u # v /\ d <= Len(Messages(u))
    <3>1. /\ s \in Seq(Msg) /\ Moves(<<r, "endpoint">>, <<r, t>>, d, s)
          /\ <<r, "endpoint">> \in Line /\ <<r, t>> \in Line /\ <<r, "endpoint">> # <<r, t>>
          /\ d <= Len(Messages(<<r, "endpoint">>))
      BY <1>1, <2>1, <2>3, <2>4, SendMoves
    <3> QED BY <1>2, <3>1
  <2>6. Sendable(u, d, s) /\ d \in Nat /\ Tame /\ UNCHANGED <<stage, pos, nxtid>>
    BY <1>3, <2>1
  <2>7. /\ OwnNodes' /\ BootFirst' /\ NodesStarted' /\ FetchesTrue' /\ RunsOnce'
        /\ FetchedNotRunning' /\ FetchedOnce'
    BY <2>3, <2>5, <2>6, MessagesStep
  <2>8. OwnEntries'
    BY <1>1, <2>6, EntriesKept
  <2>9. BootOrder' /\ TaskdirTruthful'
    BY <1>1, DirectoryKept
  <2> QED BY <1>3, <2>3, <2>7, <2>8, <2>9 DEF Inv
(* Nothing is sent. *)
<1>4. ASSUME UNCHANGED <<out, nxtid, pool>>, failed' = failed \/ failed' = failed \cup {r},
             nodes' \in [Rank -> Seq(NodeRecord)], Tame, PagesPrivate'
      PROVE  Inv'
  <2>1. PICK ms : ms = <<>>
    OBVIOUS
  <2>2. ms \in Seq(Outgoing) /\ Len(ms) = 0
    BY <2>1
  <2>3. out' = [out EXCEPT ![r][t] = @ \o ms]
    <3>1. out \in [Rank -> [Threads -> Seq(Outgoing)]]
      BY <1>1 DEF TypeOK
    <3>2. out[r][t] \o ms = out[r][t]
      BY <2>1, <3>1
    <3>3. out = [out EXCEPT ![r][t] = out[r][t]]
      BY <3>1
    <3> QED BY <1>4, <3>2, <3>3
  <2>4. ASSUME NEW s, s = [j \in 1 .. Len(ms) |-> ms[j].msg] PROVE Sendable(u, d, s)
    <3>1. DOMAIN s = {}
      BY <2>2, <2>4
    <3> QED BY <3>1 DEF Sendable
  <2> QED BY <1>3, <1>4, <2>2, <2>3, <2>4
<1>5. CASE ~(gzll_app_get(r, a) /\ Valid(taskdir[r][a], k))
  <2>1. UNCHANGED <<failed, out, nodeVars>>
    BY <1>5 DEF gzll_node_migrate
  <2>2. Tame /\ PagesPrivate' /\ nodes' \in [Rank -> Seq(NodeRecord)]
    BY <1>1, <2>1 DEF Tame, PagesPrivate, nodeVars, TypeOK
  <2> QED BY <1>4, <2>1, <2>2 DEF nodeVars
<1>6. PICK e : e = taskdir[r][a][k + 1]
  OBVIOUS
<1>7. ASSUME gzll_app_get(r, a), Valid(taskdir[r][a], k)
      PROVE  /\ a \in DOMAIN taskdir[r] /\ k + 1 \in DOMAIN taskdir[r][a] /\ e # INVALID /\ e.rank \in Rank
  <2>1. taskdir \in [Rank -> Seq(Seq(DirEntry \cup {INVALID}))]
    BY <1>1 DEF TypeOK
  <2> DEFINE D == Seq(DirEntry \cup {INVALID})
  <2>2. taskdir[r] \in Seq(D)
    BY <2>1
  <2>3. a \in DOMAIN taskdir[r] /\ taskdir[r][a] \in D
    <3> HIDE DEF D
    <3> QED BY <1>7, <2>2 DEF gzll_app_get
  <2>4. k < Len(taskdir[r][a]) /\ e # INVALID
    BY <1>6, <1>7 DEF Valid
  <2>5. k + 1 \in DOMAIN taskdir[r][a]
    BY <2>3, <2>4
  <2>6. e \in DirEntry
    BY <1>6, <2>3, <2>4, <2>5
  <2> QED BY <2>3, <2>4, <2>5, <2>6 DEF DirEntry
<1>8. CASE gzll_app_get(r, a) /\ Valid(taskdir[r][a], k) /\ e.rank # r
  <2>1. PICK m : m = [type |-> "node_migrate", app |-> a, taskid |-> k, dest |-> dest]
    OBVIOUS
  <2>2. PICK ms : ms = << [to |-> e.rank, msg |-> m] >>
    OBVIOUS
  <2>3. out' = [out EXCEPT ![r][t] = @ \o ms] /\ UNCHANGED <<failed, nodeVars>>
    BY <1>6, <1>8, <2>1, <2>2 DEF gzll_node_migrate, Send
  <2>4. m \in MigrateMsg /\ m.type = "node_migrate"
    BY <2>1 DEF MigrateMsg
  <2>5. m \in Msg /\ m \in MsgTo(e.rank) /\ e.rank \in Rank
    BY <1>7, <1>8, <2>4 DEF Msg, MsgTo
  <2>6. [to |-> e.rank, msg |-> m] \in Outgoing
    BY <2>5 DEF Outgoing
  <2>7. ms \in Seq(Outgoing) /\ Len(ms) = 1 /\ ms[1].msg = m
    BY <2>2, <2>6
  <2>8. ASSUME NEW s, s = [j \in 1 .. Len(ms) |-> ms[j].msg] PROVE Sendable(u, d, s)
    <3>1. DOMAIN s = {1} /\ s[1] = m
      BY <2>7, <2>8
    <3> QED BY <2>4, <3>1 DEF Sendable, Fetch
  <2>9. Tame /\ PagesPrivate' /\ nodes' \in [Rank -> Seq(NodeRecord)] /\ UNCHANGED <<nxtid, pool>>
    BY <1>1, <2>3 DEF Tame, PagesPrivate, nodeVars, TypeOK
  <2> QED BY <1>3, <2>3, <2>7, <2>8, <2>9
<1>9. CASE gzll_app_get(r, a) /\ Valid(taskdir[r][a], k) /\ e.rank = r
  <2>1. PICK i : i = gzll_node_find(r, e.nodeid)
    OBVIOUS
  <2>2. i \in DOMAIN nodes[r] /\ nodes[r][i].task = <<a, k>>
    <3>1. PICK x : x = k + 1
      OBVIOUS
    <3>2. LocalEntry(r, a, x, e)
      BY <1>6, <1>7, <1>9, <3>1 DEF LocalEntry
    <3>3. RunsTask(r, i, a, x)
      BY <2>1, <3>2, NodeFind
    <3>4. x - 1 = k
      BY <3>1
    <3> QED BY <3>3, <3>4 DEF RunsTask
  <2>3. PICK m : m = [type |-> "node_fetch", source |-> r, node |-> i, app |-> a, taskid |-> k]
    OBVIOUS
  <2>4. PICK ms : ms = << [to |-> dest, msg |-> m] >>
    OBVIOUS
  <2>5. /\ gzll_node_suspend(r, i) /\ UNCHANGED <<nxtid, pool>>
        /\ IF r \in failed' THEN UNCHANGED out ELSE out' = [out EXCEPT ![r][t] = @ \o ms]
    BY <1>6, <1>9, <2>1, <2>3, <2>4 DEF gzll_node_migrate, Send
  <2>6. CASE ~nodes[r][i].ready
    <3>1. failed' = failed \cup {r} /\ nodes' = nodes
      BY <2>5, <2>6 DEF gzll_node_suspend, Fail
    <3>2. UNCHANGED <<out, nxtid, pool>>
      BY <2>5, <3>1
    <3>3. Tame /\ PagesPrivate' /\ nodes' \in [Rank -> Seq(NodeRecord)]
      BY <1>1, <3>1, <3>2 DEF Tame, PagesPrivate, TypeOK
    <3> QED BY <1>4, <3>1, <3>2, <3>3
  <2>7. CASE nodes[r][i].ready
    <3>1. failed' = failed /\ nodes' = [nodes EXCEPT ![r][i].ready = FALSE]
      BY <2>5, <2>7 DEF gzll_node_suspend
    <3>2. /\ nodes' \in [Rank -> Seq(NodeRecord)] /\ Tame
          /\ ~nodes'[r][i].ready
          /\ \A q \in Rank : /\ DOMAIN nodes'[q] = DOMAIN nodes[q]
                             /\ \A j \in DOMAIN nodes[q] : nodes'[q][j].pages = nodes[q][j].pages
      BY <1>1, <2>2, <3>1, ReadyCleared
    <3>3. PagesPrivate'
      BY <1>1, <2>5, <3>2, PagesKept
    <3>4. CASE r \in failed'
      BY <1>4, <2>5, <3>1, <3>2, <3>3, <3>4
    <3>5. CASE r \notin failed'
      <4>1. m \in FetchMsg
        <5>1. i \in Nat
          <6>1. nodes[r] \in Seq(NodeRecord)
            BY <1>1 DEF TypeOK
          <6> QED BY <2>2, <6>1
        <5> QED BY <2>3, <5>1 DEF FetchMsg
      <4>2. m.type = "node_fetch" /\ m.source = r /\ m.node = i /\ m.app = a /\ m.taskid = k
        BY <2>3
      <4>3. m \in Msg /\ m \in MsgTo(dest)
        BY <4>1, <4>2 DEF Msg, MsgTo
      <4>4. [to |-> dest, msg |-> m] \in Outgoing
        BY <4>3 DEF Outgoing
      <4>5. ms \in Seq(Outgoing) /\ Len(ms) = 1 /\ ms[1].msg = m
        BY <2>4, <4>4
      <4>6. ASSUME NEW s, s = [j \in 1 .. Len(ms) |-> ms[j].msg] PROVE Sendable(u, d, s)
        <5>1. DOMAIN s = {1} /\ s[1] = m /\ Len(s) = 1
          BY <4>5, <4>6
        <5>2. ASSUME NEW l \in Line, NEW y \in DOMAIN Messages(l), Fetch(Messages(l)[y])
              PROVE  <<Messages(l)[y].app, Messages(l)[y].taskid>> # <<a, k>>
          BY <2>2, <2>7, <5>2 DEF FetchedNotRunning, Inv
        <5>3. ASSUME NEW q \in Rank, NEW j \in DOMAIN nodes'[q], nodes'[q][j].ready
              PROVE  nodes'[q][j].task # <<a, k>>
          <6> SUFFICES ASSUME nodes'[q][j].task = <<a, k>> PROVE FALSE
            OBVIOUS
          <6>1. j \in DOMAIN nodes[q] /\ nodes[q][j].ready /\ nodes[q][j].task = <<a, k>>
            BY <3>2, <5>3 DEF Tame
          <6>2. q = r /\ j = i
            <7>1. RunsOnce /\ nodes[q][j].task = nodes[r][i].task
              BY <2>2, <6>1 DEF Inv
            <7>2. \A w \in Rank : \A x \in DOMAIN nodes[w] :
                    nodes[w][x].ready /\ nodes[r][i].ready /\ nodes[w][x].task = nodes[r][i].task
                      => w = r /\ x = i
              <8>1. \A w \in Rank : \A x \in DOMAIN nodes[w], y \in DOMAIN nodes[r] :
                      nodes[w][x].ready /\ nodes[r][y].ready /\ nodes[w][x].task = nodes[r][y].task
                        => w = r /\ x = y
                BY <7>1, Zenon DEF RunsOnce
              <8>2. i \in DOMAIN nodes[r]
                BY <2>2
              <8> QED BY <8>1, <8>2
            <7> QED BY <2>2, <2>7, <6>1, <7>1, <7>2
          <6> QED BY <3>2, <5>3, <6>2
        <5>4. /\ m.node \in DOMAIN nodes[m.source] /\ nodes[m.source][m.node].task = <<m.app, m.taskid>>
              /\ <<m.app, m.taskid>> = <<a, k>>
          BY <2>2, <4>2
        <5> QED BY <5>1, <5>2, <5>3, <5>4 DEF Sendable
      <4> QED BY <1>3, <2>5, <3>1, <3>2, <3>3, <3>5, <4>5, <4>6
    <3> QED BY <3>4, <3>5
  <2> QED BY <2>6, <2>7
<1> QED BY <1>5, <1>8, <1>9

(* The communication thread: whatever message it takes.                    *)
LEMMA CommThreadStep ==
  ASSUME Inv, NEW r \in Rank, CommThread(r)
  PROVE  Inv'
<1>0. PICK m, u : m = Head(queue[r]) /\ u = <<r, "endpoint">>
  OBVIOUS
<1>1. /\ queue[r] # <<>> /\ queue' = [queue EXCEPT ![r] = Tail(@)] /\ UNCHANGED <<stage, pos>>
      /\ \/ NodeNewHandler(r, m) \/ NodeMigrateHandler(r, m) \/ NodeFetchHandler(r, m)
         \/ Fail(r) /\ UNCHANGED <<out, taskdir, nodeVars, buffer>>
  BY <1>0 DEF CommThread, bootVars
<1>2. TypeOK /\ BootFirst
  BY DEF Inv
<1>3. CASE NodeNewHandler(r, m)
  BY <1>0, <1>1, <1>3, NodeNewStep
<1>4. CASE NodeFetchHandler(r, m)
  BY <1>0, <1>1, <1>4, NodeFetchStep
<1>5. CASE Fail(r) /\ UNCHANGED <<out, taskdir, nodeVars, buffer>>
  BY <1>1, <1>5, CommFailStep DEF Fail
<1>6. CASE NodeMigrateHandler(r, m)
  <2>1. /\ m \in Msg /\ u \in Line /\ 1 \in DOMAIN Messages(u) /\ Messages(u)[1] = m
        /\ 1 \in {0, 1} /\ 1 <= Len(queue[r])
        /\ queue' \in [Rank -> Seq(Msg)] /\ \A q \in Rank : queue'[q] \in Seq(MsgTo(q))
        /\ \A q \in Rank : queue'[q] = IF q = r THEN SubSeq(queue[r], 1 + 1, Len(queue[r])) ELSE queue[q]
    BY <1>0, <1>1, <1>2, Taken
  <2>2. m.type = "node_migrate" /\ gzll_node_migrate(r, "comm", m.app, m.taskid, m.dest) /\ UNCHANGED <<taskdir, buffer>>
    BY <1>6 DEF NodeMigrateHandler
  <2>3. m \in MigrateMsg
    BY <2>1, <2>2 DEF Msg, NewMsg, FetchMsg
  <2>4. m.app \in Nat \ {0} /\ m.taskid \in Nat /\ m.dest \in Rank
    BY <2>3 DEF MigrateMsg
  <2>5. \A q \in Rank : stage[q] = "done"
    BY <1>2, <2>1, <2>2 DEF BootFirst
  <2>6. PICK t, a, k, dest, d : t = "comm" /\ a = m.app /\ k = m.taskid /\ dest = m.dest /\ d = 1
    OBVIOUS
  <2>7. /\ t \in Threads /\ a \in Nat \ {0} /\ k \in Nat /\ dest \in Rank /\ d \in {0, 1}
        /\ gzll_node_migrate(r, t, a, k, dest) /\ d <= Len(queue[r])
        /\ \A q \in Rank : queue'[q] = IF q = r THEN SubSeq(queue[r], d + 1, Len(queue[r])) ELSE queue[q]
    BY <2>1, <2>2, <2>4, <2>6 DEF Threads
  <2>8. UNCHANGED <<stage, pos, taskdir, buffer>>
    BY <1>1, <2>2
  <2> QED BY <2>1, <2>5, <2>7, <2>8, NodeMigrateStep
<1> QED BY <1>1, <1>3, <1>4, <1>5, <1>6

(* The agent, which only runs on rank 0.                                   *)
LEMMA AgentMigrateStep ==
  ASSUME Inv, NEW a \in Nat \ {0}, NEW k \in Nat, NEW dest \in Rank, AgentMigrate(a, k, dest)
  PROVE  Inv'
<1>1. PICK r, t, d : r = 0 /\ t = "agent" /\ d = 0
  OBVIOUS
<1>2. r \in Rank /\ t \in Threads /\ d \in {0, 1}
  BY <1>1, GzllAssumption DEF Rank, Threads
<1>3. /\ \A q \in Rank : stage[q] = "done" /\ gzll_node_migrate(r, t, a, k, dest)
      /\ queue' = queue /\ UNCHANGED <<stage, pos, taskdir, buffer>>
  BY <1>1 DEF AgentMigrate, bootVars
<1>4. TypeOK
  BY DEF Inv
<1>5. queue' \in [Rank -> Seq(Msg)] /\ \A q \in Rank : queue'[q] \in Seq(MsgTo(q))
  BY <1>3, <1>4 DEF TypeOK
<1>6. d <= Len(queue[r]) /\ SubSeq(queue[r], d + 1, Len(queue[r])) = queue[r]
  <2>1. queue[r] \in Seq(Msg)
    BY <1>2, <1>4 DEF TypeOK
  <2>2. PICK s, S : s = queue[r] /\ S = Msg
    OBVIOUS
  <2>3. s \in Seq(S) /\ d + 1 = 1
    BY <1>1, <2>1, <2>2
  <2>4. SubSeq(s, 1, Len(s)) = s /\ Len(s) \in Nat
    BY <2>3
  <2> QED BY <1>1, <2>2, <2>3, <2>4
<1>7. \A q \in Rank : queue'[q] = IF q = r THEN SubSeq(queue[r], d + 1, Len(queue[r])) ELSE queue[q]
  BY <1>3, <1>6
<1>8. \A q \in Rank : stage[q] = "done"
  BY <1>3
<1> QED BY <1>2, <1>3, <1>5, <1>6, <1>7, <1>8, NodeMigrateStep

(* A step of a task: it sends nothing and starts nothing.                  *)
LEMMA TaskStep ==
  ASSUME Inv, TypeOK', Tame, PagesPrivate', UNCHANGED <<stage, pos, out, queue, taskdir, nxtid>>
  PROVE  Inv'
<1>1. /\ TypeOK /\ BootOrder /\ OwnNodes /\ BootFirst /\ OwnEntries /\ NodesStarted
      /\ FetchesTrue /\ RunsOnce /\ FetchedNotRunning /\ FetchedOnce /\ TaskdirTruthful
  BY DEF Inv
<1>2. ASSUME NEW l PROVE Messages(l)' = Messages(l)
  BY DEF Messages
<1>3. OwnNodes' /\ RunsOnce'
  BY <1>1, NodesKept
<1>4. OwnEntries'
  BY <1>1, EntriesKept
<1>5. NodesStarted'
  <2>1. \A q \in Rank, a \in DOMAIN Apps : \A i \in DOMAIN Apps[a] : Passed(q, a, i) => Passed(q, a, i)'
    BY DEF Passed
  <2> QED BY <1>1, <2>1, StartedKept
<1>6. FetchesTrue' /\ FetchedNotRunning'
  <2>1. \A l \in Line : \A x \in DOMAIN Messages(l) : Fetch(Messages(l)[x]) => Messages(l)[x].source \in Rank
    BY <1>1, FetchSource
  <2>2. \A l \in Line : \A x \in DOMAIN Messages(l)' : Fetch(Messages(l)'[x]) =>
           \E n \in Line : \E y \in DOMAIN Messages(n) : Messages(l)'[x] = Messages(n)[y]
    BY <1>2
  <2> QED BY <1>1, <2>1, <2>2, FetchesKept
<1>7. FetchedOnce'
  BY <1>1, <1>2 DEF FetchedOnce, Fetch
<1>8. BootFirst'
  <2> SUFFICES ASSUME \E q \in Rank : stage[q] # "done"
               PROVE  /\ \A r \in Rank : Len(nodes'[r]) = nxtid[r] - 1
                      /\ \A l \in Line : \A x \in DOMAIN Messages(l)' : Messages(l)'[x].type = "node_new"
    BY DEF BootFirst
  <2>1. \A r \in Rank : Len(nodes[r]) = nxtid[r] - 1
    BY <1>1 DEF BootFirst
  <2>2. \A l \in Line : \A x \in DOMAIN Messages(l) : Messages(l)[x].type = "node_new"
    BY <1>1 DEF BootFirst
  <2>3. ASSUME NEW r \in Rank PROVE Len(nodes'[r]) = Len(nodes[r])
    <3>1. nodes[r] \in Seq(NodeRecord) /\ nodes'[r] \in Seq(NodeRecord)
      BY <1>1 DEF TypeOK
    <3>2. DOMAIN nodes'[r] = DOMAIN nodes[r]
      BY DEF Tame
    <3> QED BY <3>1, <3>2
  <2> QED BY <1>2, <2>1, <2>2, <2>3
<1>9. BootOrder' /\ TaskdirTruthful'
  BY <1>1, DirectoryKept
<1> QED BY <1>3, <1>4, <1>5, <1>6, <1>7, <1>8, <1>9 DEF Inv

LEMMA ThreadExitStep ==
  ASSUME Inv, NEW r \in Rank, NEW i \in DOMAIN nodes[r], ThreadExit(r, i)
  PROVE  Inv'
<1>1. TypeOK /\ PagesPrivate
  BY DEF Inv
<1>2. /\ nodes' = [nodes EXCEPT ![r][i].ready = FALSE]
      /\ UNCHANGED <<stage, pos, failed, out, queue, taskdir, nxtid, pool, buffer>>
  BY DEF ThreadExit, bootVars
<1>3. /\ nodes' \in [Rank -> Seq(NodeRecord)] /\ Tame
      /\ \A q \in Rank : /\ DOMAIN nodes'[q] = DOMAIN nodes[q]
                         /\ \A j \in DOMAIN nodes[q] : nodes'[q][j].pages = nodes[q][j].pages
  BY <1>1, <1>2, ReadyCleared
<1>4. PagesPrivate'
  BY <1>1, <1>2, <1>3, PagesKept
<1>5. TypeOK'
  BY <1>1, <1>2, <1>3 DEF TypeOK
<1> QED BY <1>2, <1>3, <1>4, <1>5, TaskStep

(* A page moves from the pool to a task.                                   *)
LEMMA AllocPageStep ==
  ASSUME Inv, NEW r \in Rank, NEW i \in DOMAIN nodes[r], AllocPage(r, i)
  PROVE  Inv'
<1>1. TypeOK /\ PagesPrivate
  BY DEF Inv
<1>2. UNCHANGED <<stage, pos, out, queue, taskdir, nxtid, buffer>>
  BY DEF AllocPage, bootVars
<1>3. CASE pool[r] = <<>>
  <2>1. failed' = failed \cup {r} /\ UNCHANGED <<nodes, pool>>
    BY <1>3 DEF AllocPage, Fail
  <2>2. TypeOK'
    BY <1>1, <1>2, <2>1 DEF TypeOK
  <2>3. Tame
    BY <2>1 DEF Tame
  <2>4. PagesPrivate'
    BY <1>1, <2>1 DEF PagesPrivate
  <2> QED BY <1>2, <2>2, <2>3, <2>4, TaskStep
<1>4. CASE pool[r] # <<>>
  <2> DEFINE p == pool[r]
             old == nodes[r]
             x == old[i]
             F == 0 .. FRAMES
             G == 1 .. FRAMES
             node == [x EXCEPT !.pages = Append(@, Head(p))]
             new == [old EXCEPT ![i] = node]
  <2>1. /\ nodes' = [nodes EXCEPT ![r][i].pages = Append(@, Head(pool[r]))]
        /\ pool' = [pool EXCEPT ![r] = Tail(@)] /\ failed' = failed
    BY <1>4 DEF AllocPage
  <2>2. nodes \in [Rank -> Seq(NodeRecord)] /\ pool \in [Rank -> Seq(G)]
    BY <1>1 DEF TypeOK
  <2>3. old \in Seq(NodeRecord) /\ p \in Seq(G) /\ x \in NodeRecord
    BY <2>2
  <2>4. x.pages \in Seq(F) /\ Head(p) \in F /\ Head(p) # 0 /\ Head(p) = p[1]
        /\ Len(p) \in Nat /\ 1 <= Len(p) /\ DOMAIN p = 1 .. Len(p)
        /\ Tail(p) \in Seq(G) /\ Len(Tail(p)) = Len(p) - 1
        /\ DOMAIN Tail(p) = 1 .. Len(Tail(p))
        /\ \A y \in 1 .. Len(p) - 1 : Tail(p)[y] = p[y + 1]
    <3>1. x.pages \in Seq(F)
      BY <2>3 DEF NodeRecord
    <3>2. p # <<>>
      BY <1>4
    <3>3. G \subseteq F /\ 0 \notin G
      BY GzllAssumption
    <3> HIDE DEF p, x, F, G
    <3>4. Head(p) \in G /\ Head(p) = p[1]
      BY <2>3, <3>2
    <3>5. Len(p) \in Nat /\ 1 <= Len(p) /\ DOMAIN p = 1 .. Len(p)
      BY <2>3, <3>2
    <3>6. Tail(p) \in Seq(G) /\ Len(Tail(p)) = Len(p) - 1 /\ DOMAIN Tail(p) = 1 .. Len(Tail(p))
      BY <2>3, <3>2
    <3>7. \A y \in 1 .. Len(p) - 1 : Tail(p)[y] = p[y + 1]
      BY <2>3, <3>2
    <3> QED BY <3>1, <3>3, <3>4, <3>5, <3>6, <3>7
  <2>5. PICK c, h : c = Len(x.pages) /\ h = Head(p)
    OBVIOUS
  <2>6. /\ Append(x.pages, h) \in Seq(F) /\ c \in Nat /\ DOMAIN x.pages = 1 .. c
        /\ DOMAIN Append(x.pages, h) = 1 .. c + 1 /\ Append(x.pages, h)[c + 1] = h
        /\ \A k \in 1 .. c : Append(x.pages, h)[k] = x.pages[k]
    <3> DEFINE s == x.pages
    <3>1. s \in Seq(F) /\ h \in F /\ c = Len(s)
      BY <2>4, <2>5
    <3> HIDE DEF s, F
    <3>2. /\ Append(s, h) \in Seq(F) /\ c \in Nat /\ DOMAIN s = 1 .. c
          /\ DOMAIN Append(s, h) = 1 .. c + 1 /\ Append(s, h)[c + 1] = h
          /\ \A k \in 1 .. c : Append(s, h)[k] = s[k]
      BY <3>1
    <3> QED BY <3>2 DEF s
  <2>7. PICK w : w = Append(x.pages, h)
    OBVIOUS
  <2>8. /\ node \in NodeRecord /\ node.id = x.id /\ node.task = x.task /\ node.pages = w
        /\ node.ready = x.ready
    <3> DEFINE T == (Nat \ {0}) \X Nat
               I == Nat \cup {INVALID}
               S == Seq(F)
               R == [id : Nat, app : Nat, taskid : I, pages : S, ready : BOOLEAN, task : T]
    <3>1. x \in R /\ node = [x EXCEPT !.pages = w] /\ w \in S
      BY <2>3, <2>5, <2>6, <2>7 DEF NodeRecord
    <3> HIDE DEF T, I, S, x, node
    <3>2. /\ node \in R /\ node.id = x.id /\ node.task = x.task /\ node.pages = w
          /\ node.ready = x.ready
      BY <3>1
    <3> QED BY <3>2 DEF NodeRecord, T, I, S
  <2>9. nodes' = [nodes EXCEPT ![r] = new]
    BY <2>1, <2>2
  <2> HIDE DEF node
  <2>10. new \in Seq(NodeRecord) /\ DOMAIN new = DOMAIN old /\ \A j \in DOMAIN old : new[j] = IF j = i THEN node ELSE old[j]
    <3>1. i \in DOMAIN old
      OBVIOUS
    <3> HIDE DEF old
    <3> QED BY <2>3, <2>8, <3>1
  <2> HIDE DEF new
  <2>11. /\ nodes' \in [Rank -> Seq(NodeRecord)]
         /\ \A q \in Rank : nodes'[q] = IF q = r THEN new ELSE nodes[q]
    BY <2>2, <2>9, <2>10
  <2>12. /\ pool' \in [Rank -> Seq(G)]
         /\ \A q \in Rank : pool'[q] = IF q = r THEN Tail(p) ELSE pool[q]
    BY <2>1, <2>2, <2>4
  <2>13. TypeOK'
    BY <1>1, <1>2, <2>1, <2>11, <2>12 DEF TypeOK
  <2>14. ASSUME NEW q \in Rank
         PROVE  /\ DOMAIN nodes'[q] = DOMAIN nodes[q]
                /\ \A j \in DOMAIN nodes[q] :
                     /\ nodes'[q][j].id = nodes[q][j].id /\ nodes'[q][j].task = nodes[q][j].task
                     /\ nodes'[q][j].ready = nodes[q][j].ready
                     /\ nodes'[q][j].pages = IF q = r /\ j = i THEN w ELSE nodes[q][j].pages
    <3>1. CASE q = r
      BY <2>8, <2>10, <2>11, <3>1
    <3>2. CASE q # r
      BY <2>11, <3>2
    <3> QED BY <3>1, <3>2
  <2>15. Tame
    BY <2>14 DEF Tame
  <2>16. PagesPrivate'
    <3>1. ASSUME NEW q \in Rank, q # r
          PROVE  pool'[q] = pool[q] /\ DOMAIN nodes'[q] = DOMAIN nodes[q]
                 /\ \A j \in DOMAIN nodes[q] : nodes'[q][j].pages = nodes[q][j].pages
      BY <2>11, <2>12, <3>1
    <3> DEFINE P(j) == nodes[r][j].pages
               D == DOMAIN nodes[r]
    <3>2. /\ \A j \in D : \A k \in DOMAIN P(j) :
               IF P(j)[k] = 0 THEN p = <<>>
               ELSE /\ \A y \in 1 .. Len(p) : p[y] # P(j)[k]
                    /\ \A m \in D : \A l \in DOMAIN P(m) : P(m)[l] = P(j)[k] => m = j /\ l = k
          /\ \A k, l \in 1 .. Len(p) : p[k] = p[l] => k = l
      BY <1>1, <2>4 DEF PagesPrivate, Contains
    <3>3. /\ i \in D /\ DOMAIN nodes'[r] = D
          /\ \A j \in D : nodes'[r][j].pages = IF j = i THEN w ELSE P(j)
          /\ DOMAIN w = 1 .. c + 1 /\ w[c + 1] = h /\ \A k \in 1 .. c : w[k] = P(i)[k]
          /\ DOMAIN P(i) = 1 .. c /\ c \in Nat
          /\ pool'[r] = Tail(p) /\ h # 0 /\ h = p[1]
      BY <2>4, <2>5, <2>6, <2>7, <2>12, <2>14
    <3>4. PICK Q : Q = [j \in D |-> IF j = i THEN w ELSE P(j)]
      OBVIOUS
    <3> HIDE DEF P, p, D
    <3>5. ASSUME NEW j \in D, NEW k \in DOMAIN Q[j]
          PROVE  \/ k \in DOMAIN P(j) /\ Q[j][k] = P(j)[k]
                 \/ j = i /\ k = c + 1 /\ Q[j][k] = h
      <4>1. CASE j = i
        <5>1. Q[j] = w /\ k \in 1 .. c + 1
          BY <3>3, <3>4, <3>5, <4>1
        <5>2. CASE k = c + 1
          BY <3>3, <4>1, <5>1, <5>2
        <5>3. CASE k # c + 1
          <6>1. k \in 1 .. c
            BY <3>3, <5>1, <5>3
          <6> QED BY <3>3, <4>1, <5>1, <6>1
        <5> QED BY <5>2, <5>3
      <4>2. CASE j # i
        BY <3>4, <3>5, <4>2
      <4> QED BY <4>1, <4>2
    <3>6. ASSUME NEW j \in D, NEW k \in DOMAIN Q[j]
          PROVE  Q[j][k] # 0 /\ \A y \in 1 .. Len(p) - 1 : p[y + 1] # Q[j][k]
      <4>1. p # <<>> /\ 1 \in 1 .. Len(p) /\ Len(p) \in Nat
        BY <1>4, <2>4 DEF p
      <4>2. CASE k \in DOMAIN P(j) /\ Q[j][k] = P(j)[k]
        <5>1. P(j)[k] # 0 /\ \A y \in 1 .. Len(p) : p[y] # P(j)[k]
          BY <3>2, <4>1, <4>2
        <5>2. \A y \in 1 .. Len(p) - 1 : y + 1 \in 1 .. Len(p)
          BY <4>1
        <5> QED BY <4>2, <5>1, <5>2
      <4>3. CASE Q[j][k] = h
        <5>1. ASSUME NEW y \in 1 .. Len(p) - 1 PROVE p[y + 1] # h
          <6>1. y + 1 \in 1 .. Len(p) /\ y + 1 # 1
            BY <4>1
          <6> QED BY <3>2, <3>3, <4>1, <6>1
        <5> QED BY <3>3, <4>3, <5>1
      <4> QED BY <3>5, <4>2, <4>3
    <3>7. ASSUME NEW j \in D, NEW k \in DOMAIN Q[j], NEW m \in D, NEW l \in DOMAIN Q[m], Q[m][l] = Q[j][k]
          PROVE  m = j /\ l = k
      <4>0. p # <<>> /\ 1 \in 1 .. Len(p)
        BY <1>4, <2>4 DEF p
      <4>1. ASSUME NEW a \in D, NEW b \in DOMAIN P(a) PROVE P(a)[b] # h
        <5>1. P(a)[b] # 0
          BY <3>2, <4>0
        <5>2. \A y \in 1 .. Len(p) : p[y] # P(a)[b]
          BY <3>2, <5>1
        <5> QED BY <3>3, <4>0, <5>2
      <4>2. CASE k \in DOMAIN P(j) /\ Q[j][k] = P(j)[k] /\ l \in DOMAIN P(m) /\ Q[m][l] = P(m)[l]
        <5>1. P(m)[l] = P(j)[k] /\ P(j)[k] # 0
          BY <3>2, <3>7, <4>0, <4>2
        <5> QED BY <3>2, <4>2, <5>1
      <4> QED BY <3>5, <3>7, <4>1, <4>2
    <3>8. ASSUME NEW k \in 1 .. Len(p) - 1, NEW l \in 1 .. Len(p) - 1, p[k + 1] = p[l + 1]
          PROVE  k = l
      <4>1. k + 1 \in 1 .. Len(p) /\ l + 1 \in 1 .. Len(p) /\ k \in Nat /\ l \in Nat
        BY <2>4
      <4>2. k + 1 = l + 1
        BY <3>2, <3>8, <4>1
      <4> QED BY <4>1, <4>2
    <3>9. /\ DOMAIN nodes'[r] = D /\ \A j \in D : nodes'[r][j].pages = Q[j]
          /\ DOMAIN pool'[r] = 1 .. Len(p) - 1 /\ \A y \in 1 .. Len(p) - 1 : pool'[r][y] = p[y + 1]
          /\ Len(pool'[r]) = Len(p) - 1
      BY <2>4, <3>3, <3>4
    <3>10. ASSUME NEW j \in D, NEW k \in DOMAIN Q[j]
           PROVE  ~Contains(pool'[r], Q[j][k])
      BY <3>6, <3>9 DEF Contains
    <3> SUFFICES ASSUME NEW q \in Rank
                 PROVE  /\ \A j \in DOMAIN nodes'[q] : \A k \in DOMAIN nodes'[q][j].pages :
                             LET page == nodes'[q][j].pages[k]
                             IN IF page = 0 THEN pool'[q] = <<>>
                                ELSE /\ ~Contains(pool'[q], page)
                                     /\ \A m \in DOMAIN nodes'[q] : \A l \in DOMAIN nodes'[q][m].pages :
                                          nodes'[q][m].pages[l] = page => m = j /\ l = k
                        /\ \A k, l \in DOMAIN pool'[q] : pool'[q][k] = pool'[q][l] => k = l
      BY DEF PagesPrivate
    <3>11. CASE q = r
      <4>1. ASSUME NEW j \in D, NEW k \in DOMAIN Q[j]
            PROVE  /\ Q[j][k] # 0 /\ ~Contains(pool'[r], Q[j][k])
                   /\ \A m \in D : \A l \in DOMAIN Q[m] : Q[m][l] = Q[j][k] => m = j /\ l = k
        BY <3>6, <3>7, <3>10
      <4>2. \A k, l \in DOMAIN pool'[r] : pool'[r][k] = pool'[r][l] => k = l
        BY <3>8, <3>9
      <4>3. ASSUME NEW j \in DOMAIN nodes'[r], NEW k \in DOMAIN nodes'[r][j].pages
            PROVE  LET page == nodes'[r][j].pages[k]
                   IN IF page = 0 THEN pool'[r] = <<>>
                      ELSE /\ ~Contains(pool'[r], page)
                           /\ \A m \in DOMAIN nodes'[r] : \A l \in DOMAIN nodes'[r][m].pages :
                                nodes'[r][m].pages[l] = page => m = j /\ l = k
        <5>1. j \in D /\ k \in DOMAIN Q[j] /\ nodes'[r][j].pages[k] = Q[j][k]
          BY <3>9, <4>3
        <5>2. ASSUME NEW m \in DOMAIN nodes'[r], NEW l \in DOMAIN nodes'[r][m].pages,
                     nodes'[r][m].pages[l] = Q[j][k]
              PROVE  m = j /\ l = k
          <6>1. m \in D /\ l \in DOMAIN Q[m] /\ Q[m][l] = Q[j][k]
            BY <3>9, <5>2
          <6> QED BY <4>1, <5>1, <6>1
        <5>3. Q[j][k] # 0 /\ ~Contains(pool'[r], Q[j][k])
          BY <4>1, <5>1
        <5> QED BY <5>1, <5>2, <5>3
      <4> QED BY <3>11, <4>2, <4>3
    <3>12. CASE q # r
      BY <1>1, <3>1, <3>12 DEF PagesPrivate
    <3> QED BY <3>11, <3>12
  <2> QED BY <1>2, <2>13, <2>15, <2>16, TaskStep
<1> QED BY <1>3, <1>4

-----------------------------------------------------------------------------
(* The theorems.                                                           *)

LEMMA Nothing ==
  ASSUME NEW s, s = <<>>
  PROVE  DOMAIN s = {} /\ Len(s) = 0 /\ \A S : s \in Seq(S)
OBVIOUS

LEMMA InitInv ==
  ASSUME Init PROVE Inv
<1> DEFINE P == [app : Nat \ {0}, idx : Nat, offset : Nat, peer : Nat]
           D == DirEntry \cup {INVALID}
<1>1. ASSUME NEW r \in Rank
      PROVE  /\ stage[r] = "main" /\ pos[r] = [app |-> 1, idx |-> 0, offset |-> 0, peer |-> 0]
             /\ queue[r] = <<>> /\ taskdir[r] = <<>> /\ nxtid[r] = 1 /\ nodes[r] = <<>>
             /\ pool[r] = [i \in 1 .. FRAMES |-> i] /\ \A t \in Threads : out[r][t] = <<>>
  BY DEF Init
<1>2. TypeOK
  <2>1. FRAMES \in Nat /\ Stale \subseteq Seq(Words)
    BY GzllAssumption
  <2>2. [i \in 1 .. FRAMES |-> i] \in Seq(1 .. FRAMES)
    BY <2>1
  <2>3. pos \in [Rank -> P] /\ stage \in [Rank -> {"main", "create", "getep", "app", "map", "done"}]
    <3>1. [app |-> 1, idx |-> 0, offset |-> 0, peer |-> 0] \in P
      OBVIOUS
    <3> QED BY <3>1 DEF Init
  <2>4. out \in [Rank -> [Threads -> Seq(Outgoing)]] /\ queue \in [Rank -> Seq(Msg)]
    BY DEF Init
  <2>5. ASSUME NEW r \in Rank PROVE queue[r] \in Seq(MsgTo(r))
    <3>1. queue[r] = <<>>
      BY <1>1
    <3> QED BY <3>1, Nothing
  <2>6. taskdir \in [Rank -> Seq(Seq(D))] /\ nodes \in [Rank -> Seq(NodeRecord)]
    BY DEF Init
  <2>7. pool \in [Rank -> Seq(1 .. FRAMES)] /\ buffer \in [Rank -> Seq(Words)]
    BY <2>1, <2>2 DEF Init
  <2>8. nxtid \in [Rank -> Nat \ {0}] /\ failed \in SUBSET Rank
    BY DEF Init
  <2> QED BY <2>3, <2>4, <2>5, <2>6, <2>7, <2>8 DEF TypeOK
<1>3. \A l \in Line : DOMAIN Messages(l) = {}
  <2> SUFFICES ASSUME NEW l \in Line PROVE DOMAIN Messages(l) = {}
    OBVIOUS
  <2>1. l[1] \in Rank /\ (l[2] = "endpoint" \/ l[2] \in Threads)
    BY DEF Line
  <2>2. CASE l[2] = "endpoint"
    <3>1. Messages(l) = queue[l[1]] /\ queue[l[1]] = <<>>
      BY <1>1, <2>1, <2>2 DEF Messages
    <3> QED BY <3>1, Nothing
  <2>3. CASE l[2] # "endpoint"
    <3>1. out[l[1]][l[2]] = <<>> /\ DOMAIN Messages(l) = DOMAIN out[l[1]][l[2]]
      BY <1>1, <2>1, <2>3 DEF Messages
    <3> QED BY <3>1, Nothing
  <2> QED BY <2>2, <2>3
<1>4. ASSUME NEW r \in Rank
      PROVE  /\ DOMAIN nodes[r] = {} /\ Len(nodes[r]) = 0 /\ Len(taskdir[r]) = 0 /\ DOMAIN taskdir[r] = {}
             /\ stage[r] = "main" /\ pos[r].app = 1 /\ nxtid[r] = 1
  <2>1. /\ nodes[r] = <<>> /\ taskdir[r] = <<>> /\ stage[r] = "main" /\ nxtid[r] = 1
        /\ pos[r] = [app |-> 1, idx |-> 0, offset |-> 0, peer |-> 0]
    BY <1>1
  <2>2. pos[r].app = 1
    BY <2>1
  <2> QED BY <2>1, <2>2, Nothing
<1>5. BootOrder
  <2>1. Len(Apps) \in Nat
    BY AppsAssumption
  <2> QED BY <1>4, <2>1 DEF BootOrder
<1>6. OwnNodes /\ BootFirst
  <2>1. OwnNodes
    BY <1>4 DEF OwnNodes
  <2>2. BootFirst
    BY <1>3, <1>4 DEF BootFirst
  <2> QED BY <2>1, <2>2
<1>7. OwnEntries /\ TaskdirTruthful
  BY <1>4 DEF OwnEntries, TaskdirTruthful
<1>8. NodesStarted /\ RunsOnce
  BY <1>4 DEF NodesStarted, RunsOnce
<1>9. FetchesTrue /\ FetchedNotRunning /\ FetchedOnce
  BY <1>3 DEF FetchesTrue, FetchedNotRunning, FetchedOnce
<1>10. PagesPrivate
  <2>1. ASSUME NEW r \in Rank, NEW k \in DOMAIN pool[r], NEW l \in DOMAIN pool[r], pool[r][k] = pool[r][l]
        PROVE  k = l
    <3>1. PICK p : p = [i \in 1 .. FRAMES |-> i]
      OBVIOUS
    <3>2. pool[r] = p
      BY <1>1, <3>1
    <3> QED BY <2>1, <3>1, <3>2
  <2> QED BY <1>4, <2>1 DEF PagesPrivate
<1> QED BY <1>2, <1>5, <1>6, <1>7, <1>8, <1>9, <1>10 DEF Inv

LEMMA StutterInv ==
  ASSUME Inv, UNCHANGED vars PROVE Inv'
<1>1. UNCHANGED <<stage, failed, pos, out, queue, taskdir, nxtid, nodes, pool, buffer>>
  BY DEF vars
<1>2. TypeOK' /\ Tame /\ PagesPrivate'
  <2>1. TypeOK'
    BY <1>1 DEF Inv, TypeOK
  <2>2. Tame
    BY <1>1 DEF Tame
  <2>3. PagesPrivate'
    BY <1>1 DEF Inv, PagesPrivate
  <2> QED BY <2>1, <2>2, <2>3
<1> QED BY <1>1, <1>2, TaskStep

LEMMA BootstrapStep ==
  ASSUME Inv, NEW r \in Rank, Bootstrap(r) PROVE Inv'
<1>1. PICK a, i : a = pos[r].app /\ i = pos[r].idx
  OBVIOUS
<1>2. CASE \/ i = Len(Apps[a]) \/ Apps[a][i + 1].rank \notin {r, EVERYWHERE}
           \/ Len(pool[r]) < Apps[a][i + 1].pages + 1
  BY <1>1, <1>2, BootstrapQuietStep
<1>3. CASE /\ i # Len(Apps[a]) /\ Apps[a][i + 1].rank \in {r, EVERYWHERE}
           /\ ~(Len(pool[r]) < Apps[a][i + 1].pages + 1)
  BY <1>1, <1>3, NodeStartStep
<1> QED BY <1>2, <1>3

LEMMA NextInv ==
  ASSUME Inv, Next PROVE Inv'
<1>1. ASSUME NEW r \in Rank, Init1(r) PROVE Inv'
  BY <1>1, EarlyBootStep, AppNewStep, BootstrapStep DEF Init1
<1>2. ASSUME NEW r \in Rank, CommThread(r) PROVE Inv'
  BY <1>2, CommThreadStep
<1>3. ASSUME NEW r \in Rank, NEW t \in Threads, Deliver(r, t) PROVE Inv'
  <2>1. PICK h : h = Head(out[r][t])
    OBVIOUS
  <2> QED BY <1>3, <2>1, DeliverStep
<1>4. ASSUME NEW k \in Task, NEW dest \in Rank, AgentMigrate(k[1], k[2], dest) PROVE Inv'
  <2>1. k[1] \in Nat \ {0} /\ k[2] \in Nat
    <3>1. PICK a \in DOMAIN Apps : k \in {a} \X (0 .. FirstId(a, Len(Apps[a]) + 1) - 1)
      BY DEF Task
    <3>2. a \in Nat \ {0}
      BY AppsAssumption
    <3>3. k[1] = a /\ k[2] \in 0 .. FirstId(a, Len(Apps[a]) + 1) - 1
      BY <3>1
    <3>4. FirstId(a, Len(Apps[a]) + 1) \in Nat
      <4>1. Len(Apps[a]) + 1 \in 1 .. Len(Apps[a]) + 1
        BY MappingFields
      <4> QED BY <4>1, FirstIds
    <3> QED BY <3>2, <3>3, <3>4
  <2>2. PICK a, b : a = k[1] /\ b = k[2]
    OBVIOUS
  <2> QED BY <1>4, <2>1, <2>2, AgentMigrateStep
<1>5. ASSUME NEW r \in Rank, NEW i \in DOMAIN nodes[r], AllocPage(r, i) \/ ThreadExit(r, i) PROVE Inv'
  BY <1>5, AllocPageStep, ThreadExitStep
<1> QED BY <1>1, <1>2, <1>3, <1>4, <1>5 DEF Next

(* The invariant holds for every number of ranks, every boot mapping, any  *)
(* size of pool and endpoint, any number of migrations.                    *)
LEMMA Invariance == Spec => []Inv
<1>1. Init => Inv
  BY InitInv
<1>2. Inv /\ [Next]_vars => Inv'
  BY NextInv, StutterInv
<1> QED BY <1>1, <1>2, PTL DEF Spec

(* Whatever the order in which announcements of new nodes arrive and       *)
(* overwrite the buffer of the communication thread, an entry of a task    *)
(* directory names the rank that the boot mapping puts the task on, with   *)
(* the name of the task.                                                   *)
THEOREM DirectoriesTruthful == Spec => []TaskdirTruthful
<1>1. Inv => TaskdirTruthful
  BY DEF Inv
<1> QED BY <1>1, Invariance, PTL

(* A page of a rank is in its pool or belongs to one task, also when tasks *)
(* with the same node id are fetched from other ranks, and page 0 is       *)
(* handed out by an empty pool only.                                       *)
THEOREM PagesNeverShared == Spec => []PagesPrivate
<1>1. Inv => PagesPrivate
  BY DEF Inv
<1> QED BY <1>1, Invariance, PTL

(* However often tasks are migrated, and whichever thread is preempted, a  *)
(* task can run on one rank at most, on none while it is to be fetched,    *)
(* and one fetch at most is on the way, for a node of that task.           *)
THEOREM TasksInOnePlace == Spec => []TaskInOnePlace
<1>1. Inv => TaskInOnePlace
  <2> SUFFICES ASSUME Inv, NEW k \in Task
               PROVE  /\ \A r, s \in Rank : \A i \in DOMAIN nodes[r], j \in DOMAIN nodes[s] :
                           Runs(r, i, k) /\ Runs(s, j, k) => r = s /\ i = j
                      /\ \A l \in Line : \A x \in DOMAIN Messages(l) :
                           Fetches(Messages(l)[x], k) =>
                             /\ nodes[Messages(l)[x].source][Messages(l)[x].node].task = k
                             /\ \A r \in Rank : \A i \in DOMAIN nodes[r] : ~Runs(r, i, k)
                             /\ \A n \in Line : \A y \in DOMAIN Messages(n) :
                                  Fetches(Messages(n)[y], k) => l = n /\ x = y
    BY Zenon DEF TaskInOnePlace
  <2>1. FetchesTrue /\ RunsOnce /\ FetchedNotRunning /\ FetchedOnce
    BY DEF Inv
  <2>2. \A r, s \in Rank : \A i \in DOMAIN nodes[r], j \in DOMAIN nodes[s] :
          Runs(r, i, k) /\ Runs(s, j, k) => r = s /\ i = j
    BY <2>1, Zenon DEF RunsOnce, Runs
  <2>3. ASSUME NEW l \in Line, NEW x \in DOMAIN Messages(l), Fetches(Messages(l)[x], k)
        PROVE  /\ nodes[Messages(l)[x].source][Messages(l)[x].node].task = k
               /\ \A r \in Rank : \A i \in DOMAIN nodes[r] : ~Runs(r, i, k)
               /\ \A n \in Line : \A y \in DOMAIN Messages(n) :
                    Fetches(Messages(n)[y], k) => l = n /\ x = y
    <3>1. Fetch(Messages(l)[x]) /\ <<Messages(l)[x].app, Messages(l)[x].taskid>> = k
      BY <2>3 DEF Fetches, Fetch
    <3>2. nodes[Messages(l)[x].source][Messages(l)[x].node].task = k
      BY <2>1, <3>1 DEF FetchesTrue
    <3>3. \A r \in Rank : \A i \in DOMAIN nodes[r] : ~Runs(r, i, k)
      BY <2>1, <3>1 DEF FetchedNotRunning, Runs
    <3>4. ASSUME NEW n \in Line, NEW y \in DOMAIN Messages(n), Fetches(Messages(n)[y], k)
          PROVE  l = n /\ x = y
      <4>1. Fetch(Messages(n)[y]) /\ <<Messages(n)[y].app, Messages(n)[y].taskid>> = k
        BY <3>4 DEF Fetches, Fetch
      <4> QED BY <2>1, <3>1, <4>1, Zenon DEF FetchedOnce
    <3> QED BY <3>2, <3>3, <3>4
  <2> QED BY <2>2, <2>3
<1> QED BY <1>1, Invariance, PTL

=============================================================================
