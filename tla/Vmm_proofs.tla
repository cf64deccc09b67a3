------------------------------ MODULE Vmm_proofs ------------------------------
(***************************************************************************)
(* Proofs about the virtual memory of libruntime, for any number of cores, *)
(* TLBs, pages and page tables and any number of calls of                  *)
(* optimsoc_vmm_map.                                                       *)
(***************************************************************************)
EXTENDS Vmm, TLAPS

USE VmmAssumption

-----------------------------------------------------------------------------
(* The inductive invariant.                                                *)

(* The three places in optimsoc_vmm_map between two accesses to memory.    *)
Mapping == {"setdir", "loadpte", "setpte"}

Call == [vaddr : VPages, paddr : Pages, table : Tables]

TlbEntry == [vpn : VPages, ppn : Pages]

TypeOK ==
  /\ dir \in [L1 -> Tables \cup {None}]
  /\ table \in [Tables -> [L2 -> Pages \cup {None}]]
  /\ heap \subseteq Tables
  /\ pc \in [Cores -> Mapping \cup {"idle", "halted"}]
  /\ arg \in [Cores -> Call \cup {None}]
  /\ \A c \in Cores : pc[c] \in Mapping => arg[c] \in Call
  /\ DOMAIN link = Cores
  /\ tlb \in [Tlbs -> [TlbIndex -> TlbEntry \cup {None}]]
  /\ unmapped \subseteq VPages

(* A core that is about to set a table owns it: it is allocated, in no     *)
(* entry of the directory and in the hands of no other core.               *)
TablesOwned ==
  \A c \in Cores : pc[c] = "setdir" =>
    /\ arg[c].table \in heap
    /\ \A i \in L1 : dir[i] # arg[c].table
    /\ \A d \in Cores \ {c} : pc[d] = "setdir" => arg[d].table # arg[c].table

(* What the load-linked read is still true while the link holds.           *)
DirLinkHolds ==
  \A c \in Cores : pc[c] = "setdir" /\ link[c] = DirLoc(arg[c].vaddr[1]) =>
    dir[arg[c].vaddr[1]] = None

PteLinkHolds ==
  \A c \in Cores : pc[c] = "setpte" /\ link[c] = PteLoc(arg[c].table, arg[c].vaddr[2]) =>
    table[arg[c].table][arg[c].vaddr[2]] = None

(* Every entry of a TLB, whatever its index, agrees with the directory     *)
(* unless its page was unmapped.                                           *)
TlbEntriesTrue ==
  \A b \in Tlbs, x \in TlbIndex :
    tlb[b][x] # None /\ tlb[b][x].vpn \notin unmapped =>
      lookup(tlb[b][x].vpn) = tlb[b][x].ppn

Inv ==
  /\ TypeOK
  /\ LinkedTablesLive
  /\ TablesOwned
  /\ DirLinkHolds
  /\ PteLinkHolds

-----------------------------------------------------------------------------
(* What a core in optimsoc_vmm_map works on.                               *)
LEMMA CallFields ==
  ASSUME TypeOK, NEW c \in Cores, pc[c] \in Mapping
  PROVE  /\ arg[c] \in Call
         /\ arg[c].vaddr \in VPages /\ arg[c].vaddr[1] \in L1 /\ arg[c].vaddr[2] \in L2
         /\ arg[c].paddr \in Pages /\ arg[c].table \in Tables
<1>1. arg[c] \in Call
  BY DEF TypeOK
<1> QED BY <1>1 DEF Call

(* Locations are distinct from each other and from a broken link.          *)
LEMMA Locations ==
  /\ \A i \in L1 : DirLoc(i) # None
  /\ \A t \in Tables, j \in L2 : PteLoc(t, j) # None
  /\ \A i, k \in L1 : DirLoc(i) = DirLoc(k) => i = k
  /\ \A i \in L1, t \in Tables, j \in L2 : DirLoc(i) # PteLoc(t, j)
  /\ \A t, u \in Tables, j, k \in L2 : PteLoc(t, j) = PteLoc(u, k) => t = u /\ j = k
BY DEF DirLoc, PteLoc

(* Each step of the cores preserves the invariant.                         *)
LEMMA MapCallInv ==
  ASSUME Inv, NEW c \in Cores, NEW v \in VPages, NEW p \in Pages, MapCall(c, v, p)
  PROVE  Inv'
<1>0. v[1] \in L1 /\ v[2] \in L2 /\ pc[c] = "idle" /\ UNCHANGED <<dir, tlb, unmapped>>
  BY DEF MapCall
<1>1. CASE dir[v[1]] # None
  <2>1. /\ arg' = [arg EXCEPT ![c] = [vaddr |-> v, paddr |-> p, table |-> dir[v[1]]]]
        /\ link' = [link EXCEPT ![c] = DirLoc(v[1])]
        /\ pc' = [pc EXCEPT ![c] = "loadpte"]
        /\ UNCHANGED <<table, heap>>
    BY <1>1 DEF MapCall
  <2>2. [vaddr |-> v, paddr |-> p, table |-> dir[v[1]]] \in Call
    BY <1>0, <1>1 DEF Inv, TypeOK, Call
  <2>3. TypeOK'
    BY <1>0, <2>1, <2>2 DEF Inv, TypeOK, Mapping
  <2>4. LinkedTablesLive'
    BY <1>0, <2>1 DEF Inv, LinkedTablesLive
  <2>5. TablesOwned'
    BY <1>0, <2>1 DEF Inv, TablesOwned, TypeOK
  <2>6. DirLinkHolds' /\ PteLinkHolds'
    BY <1>0, <2>1 DEF Inv, DirLinkHolds, PteLinkHolds, TypeOK
  <2> QED BY <2>3, <2>4, <2>5, <2>6 DEF Inv
<1>2. CASE dir[v[1]] = None
  <2>1. PICK t \in Tables \ heap :
             /\ arg' = [arg EXCEPT ![c] = [vaddr |-> v, paddr |-> p, table |-> t]]
             /\ heap' = heap \cup {t}
             /\ table' = [table EXCEPT ![t] = Empty]
             /\ link' = [Broken({PteLoc(t, j) : j \in L2}) EXCEPT ![c] = DirLoc(v[1])]
             /\ pc' = [pc EXCEPT ![c] = "setdir"]
    BY <1>2 DEF MapCall
  <2>2. [vaddr |-> v, paddr |-> p, table |-> t] \in Call
    BY DEF Call
  <2>3. TypeOK'
    BY <1>0, <2>1, <2>2 DEF Inv, TypeOK, Mapping, Empty, Broken
  <2>4. LinkedTablesLive'
    BY <1>0, <2>1 DEF Inv, LinkedTablesLive
  <2>5. \A i \in L1 : dir[i] # t
    BY DEF Inv, LinkedTablesLive, TypeOK
  <2>6. TablesOwned'
    BY <1>0, <2>1, <2>5 DEF Inv, TablesOwned, TypeOK
  <2>7. \A d \in Cores \ {c} : link'[d] = link[d] \/ link'[d] = None
    BY <2>1 DEF Inv, TypeOK, Broken
  <2>8. DirLinkHolds'
    <3> SUFFICES ASSUME NEW d \in Cores, pc'[d] = "setdir",
                        link'[d] = DirLoc(arg'[d].vaddr[1])
                 PROVE  dir'[arg'[d].vaddr[1]] = None
      BY DEF DirLinkHolds
    <3>1. CASE d = c
      BY <1>0, <1>2, <2>1, <3>1 DEF Inv, TypeOK
    <3>2. CASE d # c
      <4>1. pc[d] = "setdir" /\ arg'[d] = arg[d]
        BY <2>1, <3>2 DEF Inv, TypeOK
      <4>2. link'[d] # None
        BY <4>1, CallFields, Locations DEF Inv, Mapping
      <4> QED BY <1>0, <2>7, <3>2, <4>1, <4>2 DEF Inv, DirLinkHolds
    <3> QED BY <3>1, <3>2
  <2>9. PteLinkHolds'
    <3> SUFFICES ASSUME NEW d \in Cores, pc'[d] = "setpte",
                        link'[d] = PteLoc(arg'[d].table, arg'[d].vaddr[2])
                 PROVE  table'[arg'[d].table][arg'[d].vaddr[2]] = None
      BY DEF PteLinkHolds
    <3>1. d # c /\ pc[d] = "setpte" /\ arg'[d] = arg[d]
      BY <2>1 DEF Inv, TypeOK
    <3>2. arg[d].table \in Tables /\ arg[d].vaddr[2] \in L2
      BY <3>1, CallFields DEF Inv, Mapping
    <3>3. link[d] = link'[d]
      BY <2>7, <3>1, <3>2, Locations
    <3>4. table[arg[d].table][arg[d].vaddr[2]] = None
      BY <3>1, <3>3 DEF Inv, PteLinkHolds
    <3> QED BY <2>1, <3>1, <3>2, <3>4 DEF Inv, TypeOK, Empty
  <2> QED BY <2>3, <2>4, <2>6, <2>8, <2>9 DEF Inv
<1> QED BY <1>1, <1>2

(* The table of the core that wins the race enters the directory; the      *)
(* links of the others on that entry break.                                *)
LEMMA SetDirInv ==
  ASSUME Inv, NEW c \in Cores, SetDir(c)
  PROVE  Inv'
<1> DEFINE i == arg[c].vaddr[1]
           t == arg[c].table
<1>1. /\ pc[c] = "setdir" /\ link[c] = DirLoc(i)
      /\ dir' = [dir EXCEPT ![i] = t]
      /\ link' = StoreTo(c, DirLoc(i))
      /\ pc' = [pc EXCEPT ![c] = "loadpte"]
      /\ UNCHANGED <<table, heap, arg, tlb, unmapped>>
  BY DEF SetDir
<1>2. i \in L1 /\ t \in Tables
  BY <1>1, CallFields DEF Inv, Mapping
<1>3. t \in heap /\ \A k \in L1 : dir[k] # t
  BY <1>1 DEF Inv, TablesOwned
<1> HIDE DEF i, t
<1>4. TypeOK'
  BY <1>1, <1>2 DEF Inv, TypeOK, Mapping, StoreTo, Broken
<1>5. LinkedTablesLive'
  BY <1>1, <1>2, <1>3 DEF Inv, LinkedTablesLive, TypeOK
<1>6. TablesOwned'
  <2> SUFFICES ASSUME NEW d \in Cores, pc'[d] = "setdir"
               PROVE  /\ arg'[d].table \in heap'
                      /\ \A k \in L1 : dir'[k] # arg'[d].table
                      /\ \A e \in Cores \ {d} : pc'[e] = "setdir" => arg'[e].table # arg'[d].table
    BY DEF TablesOwned
  <2>1. d # c /\ pc[d] = "setdir"
    BY <1>1 DEF Inv, TypeOK
  <2>2. arg[d].table # t
    BY <1>1, <2>1 DEF Inv, TablesOwned, t
  <2>3. \A e \in Cores : pc'[e] = "setdir" => pc[e] = "setdir"
    BY <1>1 DEF Inv, TypeOK
  <2> QED BY <1>1, <1>2, <2>1, <2>2, <2>3 DEF Inv, TablesOwned, TypeOK
<1>7. \A d \in Cores : link'[d] = None \/ (link'[d] = link[d] /\ link[d] # DirLoc(i))
  BY <1>1 DEF StoreTo, Broken
<1>8. DirLinkHolds'
  <2> SUFFICES ASSUME NEW d \in Cores, pc'[d] = "setdir",
                      link'[d] = DirLoc(arg'[d].vaddr[1])
               PROVE  dir'[arg'[d].vaddr[1]] = None
    BY DEF DirLinkHolds
  <2>1. d # c /\ pc[d] = "setdir" /\ arg'[d] = arg[d]
    BY <1>1 DEF Inv, TypeOK
  <2>2. arg[d].vaddr[1] \in L1
    BY <2>1, CallFields DEF Inv, Mapping
  <2>3. link[d] = DirLoc(arg[d].vaddr[1]) /\ arg[d].vaddr[1] # i
    BY <1>7, <2>1, <2>2, Locations
  <2> QED BY <1>1, <1>2, <2>1, <2>2, <2>3 DEF Inv, DirLinkHolds, TypeOK
<1>9. PteLinkHolds'
  <2> SUFFICES ASSUME NEW d \in Cores, pc'[d] = "setpte",
                      link'[d] = PteLoc(arg'[d].table, arg'[d].vaddr[2])
               PROVE  table'[arg'[d].table][arg'[d].vaddr[2]] = None
    BY DEF PteLinkHolds
  <2>1. pc[d] = "setpte" /\ arg'[d] = arg[d]
    BY <1>1 DEF Inv, TypeOK
  <2>2. arg[d].table \in Tables /\ arg[d].vaddr[2] \in L2
    BY <2>1, CallFields DEF Inv, Mapping
  <2>3. PteLoc(arg[d].table, arg[d].vaddr[2]) # None
    BY <2>2, Locations
  <2>4. link[d] = PteLoc(arg[d].table, arg[d].vaddr[2])
    BY <1>7, <2>1, <2>3
  <2> QED BY <1>1, <2>1, <2>4 DEF Inv, PteLinkHolds
<1> QED BY <1>4, <1>5, <1>6, <1>8, <1>9 DEF Inv

(* The core that loses the race frees its own table, which nobody shares.  *)
LEMMA SetDirFailsInv ==
  ASSUME Inv, NEW c \in Cores, SetDirFails(c)
  PROVE  Inv'
<1> DEFINE i == arg[c].vaddr[1]
           t == arg[c].table
<1>1. /\ pc[c] = "setdir"
      /\ link' = [link EXCEPT ![c] = DirLoc(i)]
      /\ \/ dir[i] # None /\ heap' = heap \ {t} /\ pc' = [pc EXCEPT ![c] = "loadpte"]
         \/ dir[i] = None /\ UNCHANGED <<heap, pc>>
      /\ UNCHANGED <<dir, table, arg, tlb, unmapped>>
  BY DEF SetDirFails
<1>2. i \in L1 /\ t \in Tables
  BY <1>1, CallFields DEF Inv, Mapping
<1>3. t \in heap /\ \A k \in L1 : dir[k] # t
  BY <1>1 DEF Inv, TablesOwned
<1>4. \A d \in Cores \ {c} : pc[d] = "setdir" => arg[d].table # t
  BY <1>1 DEF Inv, TablesOwned
<1>5. /\ \A d \in Cores \ {c} : pc'[d] = pc[d] /\ link'[d] = link[d]
      /\ pc'[c] = "setdir" => dir[i] = None /\ UNCHANGED <<heap, pc>>
      /\ pc'[c] # "setpte"
  BY <1>1 DEF Inv, TypeOK
<1> HIDE DEF t
<1>6. TypeOK'
  BY <1>1, <1>2 DEF Inv, TypeOK, Mapping
<1>7. LinkedTablesLive'
  BY <1>1, <1>3 DEF Inv, LinkedTablesLive
<1>8. TablesOwned'
  BY <1>1, <1>3, <1>4, <1>5 DEF Inv, TablesOwned
<1>9. DirLinkHolds'
  BY <1>1, <1>5 DEF Inv, DirLinkHolds
<1>10. PteLinkHolds'
  BY <1>1, <1>5 DEF Inv, PteLinkHolds
<1> QED BY <1>6, <1>7, <1>8, <1>9, <1>10 DEF Inv

(* LoadPte and SetPteFails: the entry is load-linked.                      *)
LEMMA PteLoadedInv ==
  ASSUME Inv, NEW c \in Cores, pc[c] \in {"loadpte", "setpte"}, PteLoaded(c)
  PROVE  Inv'
<1> DEFINE v == arg[c].vaddr
           t == arg[c].table
<1>1. /\ link' = [link EXCEPT ![c] = PteLoc(t, v[2])]
      /\ pc' = [pc EXCEPT ![c] = IF table[t][v[2]] = None THEN "setpte" ELSE "idle"]
      /\ arg' = [arg EXCEPT ![c] = IF table[t][v[2]] = None THEN @ ELSE None]
      /\ UNCHANGED <<dir, table, heap, tlb, unmapped>>
  BY DEF PteLoaded
<1>2. /\ \A d \in Cores \ {c} : pc'[d] = pc[d] /\ arg'[d] = arg[d] /\ link'[d] = link[d]
      /\ pc'[c] # "setdir"
      /\ pc'[c] = "setpte" => arg'[c] = arg[c] /\ table[t][v[2]] = None
  BY <1>1 DEF Inv, TypeOK
<1>3. TypeOK'
  <2>1. arg[c] \in Call
    BY CallFields DEF Inv, Mapping
  <2> QED BY <1>1, <2>1 DEF Inv, TypeOK, Mapping
<1>4. LinkedTablesLive'
  BY <1>1 DEF Inv, LinkedTablesLive
<1>5. TablesOwned' /\ DirLinkHolds'
  BY <1>1, <1>2 DEF Inv, TablesOwned, DirLinkHolds
<1>6. PteLinkHolds'
  <2> SUFFICES ASSUME NEW d \in Cores, pc'[d] = "setpte",
                      link'[d] = PteLoc(arg'[d].table, arg'[d].vaddr[2])
               PROVE  table'[arg'[d].table][arg'[d].vaddr[2]] = None
    BY DEF PteLinkHolds
  <2>1. CASE d = c
    BY <1>1, <1>2, <2>1
  <2>2. CASE d # c
    <3>1. pc[d] = "setpte" /\ arg'[d] = arg[d] /\ link[d] = PteLoc(arg[d].table, arg[d].vaddr[2])
      BY <1>2, <2>2
    <3> QED BY <1>1, <3>1 DEF Inv, PteLinkHolds
  <2> QED BY <2>1, <2>2
<1> QED BY <1>3, <1>4, <1>5, <1>6 DEF Inv

(* The winner writes the entry; the links of the others on it break.       *)
LEMMA SetPteInv ==
  ASSUME Inv, NEW c \in Cores, SetPte(c)
  PROVE  Inv'
<1> DEFINE j == arg[c].vaddr[2]
           t == arg[c].table
<1>1. /\ pc[c] = "setpte"
      /\ table' = [table EXCEPT ![t][j] = arg[c].paddr]
      /\ link' = StoreTo(c, PteLoc(t, j))
      /\ pc' = [pc EXCEPT ![c] = "idle"]
      /\ arg' = [arg EXCEPT ![c] = None]
      /\ UNCHANGED <<dir, heap, tlb, unmapped>>
  BY DEF SetPte
<1>2. t \in Tables /\ j \in L2 /\ arg[c].paddr \in Pages
  BY <1>1, CallFields DEF Inv, Mapping
<1>3. /\ \A d \in Cores \ {c} : pc'[d] = pc[d] /\ arg'[d] = arg[d]
      /\ pc'[c] = "idle"
  BY <1>1 DEF Inv, TypeOK
<1>4. \A d \in Cores : link'[d] = None \/ (link'[d] = link[d] /\ link[d] # PteLoc(t, j))
  BY <1>1 DEF StoreTo, Broken
<1> HIDE DEF j, t
<1>5. TypeOK'
  BY <1>1, <1>2 DEF Inv, TypeOK, Mapping, StoreTo, Broken
<1>6. LinkedTablesLive'
  BY <1>1 DEF Inv, LinkedTablesLive
<1>7. TablesOwned'
  BY <1>1, <1>3 DEF Inv, TablesOwned
<1>8. DirLinkHolds'
  <2> SUFFICES ASSUME NEW d \in Cores, pc'[d] = "setdir",
                      link'[d] = DirLoc(arg'[d].vaddr[1])
               PROVE  dir'[arg'[d].vaddr[1]] = None
    BY DEF DirLinkHolds
  <2>1. pc[d] = "setdir" /\ arg'[d] = arg[d]
    BY <1>3
  <2>2. arg[d].vaddr[1] \in L1
    BY <2>1, CallFields DEF Inv, Mapping
  <2>3. link[d] = DirLoc(arg[d].vaddr[1])
    BY <1>4, <2>1, <2>2, Locations
  <2> QED BY <1>1, <2>1, <2>3 DEF Inv, DirLinkHolds
<1>9. PteLinkHolds'
  <2> SUFFICES ASSUME NEW d \in Cores, pc'[d] = "setpte",
                      link'[d] = PteLoc(arg'[d].table, arg'[d].vaddr[2])
               PROVE  table'[arg'[d].table][arg'[d].vaddr[2]] = None
    BY DEF PteLinkHolds
  <2>1. pc[d] = "setpte" /\ arg'[d] = arg[d]
    BY <1>3
  <2>2. arg[d].table \in Tables /\ arg[d].vaddr[2] \in L2
    BY <2>1, CallFields DEF Inv, Mapping
  <2>3. /\ link[d] = PteLoc(arg[d].table, arg[d].vaddr[2])
        /\ PteLoc(arg[d].table, arg[d].vaddr[2]) # PteLoc(t, j)
    BY <1>4, <2>1, <2>2, Locations
  <2>4. table[arg[d].table][arg[d].vaddr[2]] = None
    BY <2>1, <2>3 DEF Inv, PteLinkHolds
  <2>5. arg[d].table # t \/ arg[d].vaddr[2] # j
    BY <2>3
  <2> QED BY <1>1, <1>2, <2>1, <2>2, <2>4, <2>5 DEF Inv, TypeOK
<1> QED BY <1>5, <1>6, <1>7, <1>8, <1>9 DEF Inv

(* Unmapping clears an entry and breaks the links on it.                   *)
LEMMA UnmapInv ==
  ASSUME Inv, NEW c \in Cores, NEW v \in VPages, Unmap(c, v)
  PROVE  Inv'
<1> DEFINE t == dir[v[1]]
           j == v[2]
<1>1. /\ table' = [table EXCEPT ![t][j] = None]
      /\ link' = Broken({PteLoc(t, j)})
      /\ unmapped' = unmapped \cup {v}
      /\ UNCHANGED <<dir, heap, pc, arg, tlb>>
  BY DEF Unmap
<1>2. t \in Tables /\ j \in L2
  BY DEF Unmap, lookup, Inv, TypeOK
<1>3. \A d \in Cores : link'[d] = None \/ link'[d] = link[d]
  BY <1>1 DEF Broken
<1> HIDE DEF t, j
<1>4. TypeOK'
  BY <1>1, <1>2 DEF Inv, TypeOK, Broken
<1>5. LinkedTablesLive' /\ TablesOwned'
  BY <1>1 DEF Inv, LinkedTablesLive, TablesOwned
<1>6. DirLinkHolds'
  <2> SUFFICES ASSUME NEW d \in Cores, pc[d] = "setdir",
                      link'[d] = DirLoc(arg[d].vaddr[1])
               PROVE  dir[arg[d].vaddr[1]] = None
    BY <1>1 DEF DirLinkHolds
  <2>1. arg[d].vaddr[1] \in L1
    BY CallFields DEF Inv, Mapping
  <2>2. DirLoc(arg[d].vaddr[1]) # None
    BY <2>1, Locations
  <2>3. link[d] = DirLoc(arg[d].vaddr[1])
    BY <1>3, <2>2
  <2> QED BY <2>3 DEF Inv, DirLinkHolds
<1>7. PteLinkHolds'
  <2> SUFFICES ASSUME NEW d \in Cores, pc[d] = "setpte",
                      link'[d] = PteLoc(arg[d].table, arg[d].vaddr[2])
               PROVE  table'[arg[d].table][arg[d].vaddr[2]] = None
    BY <1>1 DEF PteLinkHolds
  <2>1. arg[d].table \in Tables /\ arg[d].vaddr[2] \in L2
    BY CallFields DEF Inv, Mapping
  <2>2. PteLoc(arg[d].table, arg[d].vaddr[2]) # None
    BY <2>1, Locations
  <2>3. link[d] = PteLoc(arg[d].table, arg[d].vaddr[2])
    BY <1>3, <2>2
  <2>4. table[arg[d].table][arg[d].vaddr[2]] = None
    BY <2>3 DEF Inv, PteLinkHolds
  <2> QED BY <1>1, <1>2, <2>1, <2>4 DEF Inv, TypeOK
<1> QED BY <1>4, <1>5, <1>6, <1>7 DEF Inv

(* A TLB miss fills an entry with what the lookup finds.                   *)
LEMMA TlbMissInv ==
  ASSUME Inv, NEW b \in Tlbs, NEW v \in VPages, TlbMiss(b, v)
  PROVE  Inv'
<1>1. /\ tlb' = [tlb EXCEPT ![b][tlbindex(v)] = [vpn |-> v, ppn |-> lookup(v)]]
      /\ UNCHANGED <<dir, table, heap, pc, arg, link, unmapped>>
  BY DEF TlbMiss
<1>2. [vpn |-> v, ppn |-> lookup(v)] \in TlbEntry
  <2>1. lookup(v) # None /\ v[1] \in L1 /\ v[2] \in L2
    BY DEF TlbMiss
  <2>2. lookup(v) \in Pages
    <3>1. dir[v[1]] # None /\ lookup(v) = table[dir[v[1]]][v[2]]
      BY <2>1 DEF lookup
    <3>2. dir[v[1]] \in Tables
      BY <2>1, <3>1 DEF Inv, TypeOK
    <3>3. table[dir[v[1]]] \in [L2 -> Pages \cup {None}]
      BY <3>2 DEF Inv, TypeOK
    <3>4. lookup(v) \in Pages \cup {None}
      BY <2>1, <3>1, <3>3, Zenon
    <3> QED BY <2>1, <3>4
  <2> QED BY <2>2 DEF TlbEntry
<1>3. TypeOK'
  BY <1>1, <1>2 DEF Inv, TypeOK
<1>4. LinkedTablesLive' /\ TablesOwned' /\ DirLinkHolds' /\ PteLinkHolds'
  BY <1>1 DEF Inv, LinkedTablesLive, TablesOwned, DirLinkHolds, PteLinkHolds
<1> QED BY <1>3, <1>4 DEF Inv

(* A page fault stops a core that is not mapping.                          *)
LEMMA PageFaultInv ==
  ASSUME Inv, NEW b \in Tlbs, NEW v \in VPages, PageFault(b, v)
  PROVE  Inv'
<1>1. /\ pc' = [pc EXCEPT ![b[1]] = "halted"]
      /\ UNCHANGED <<dir, table, heap, arg, link, tlb, unmapped>>
  BY DEF PageFault
<1>2. \A d \in Cores : pc'[d] = pc[d] \/ pc'[d] = "halted"
  BY <1>1 DEF Inv, TypeOK
<1>3. TypeOK'
  BY <1>1, <1>2 DEF Inv, TypeOK, Mapping
<1>4. LinkedTablesLive' /\ TablesOwned' /\ DirLinkHolds' /\ PteLinkHolds'
  BY <1>1, <1>2 DEF Inv, LinkedTablesLive, TablesOwned, DirLinkHolds, PteLinkHolds
<1> QED BY <1>3, <1>4 DEF Inv

(* Destroying the directory happens while no core is mapping.              *)
LEMMA DestroyInv ==
  ASSUME Inv, Destroy
  PROVE  Inv'
<1>1. /\ \A c \in Cores : pc[c] \in {"idle", "halted"}
      /\ heap' = heap \ {dir[i] : i \in L1}
      /\ dir' = [i \in L1 |-> None]
      /\ unmapped' = unmapped \cup {v \in VPages : lookup(v) # None}
      /\ UNCHANGED <<table, pc, arg, link, tlb>>
  BY DEF Destroy
<1>2. TypeOK'
  BY <1>1 DEF Inv, TypeOK
<1>3. LinkedTablesLive' /\ TablesOwned' /\ DirLinkHolds' /\ PteLinkHolds'
  BY <1>1 DEF LinkedTablesLive, TablesOwned, DirLinkHolds, PteLinkHolds
<1> QED BY <1>2, <1>3 DEF Inv

(* The invariant holds in every state of every tile.                       *)
LEMMA Invariance == Spec => []Inv
<1>1. Init => Inv
  BY DEF Init, Inv, TypeOK, Mapping, Empty, LinkedTablesLive, TablesOwned,
         DirLinkHolds, PteLinkHolds
<1>2. Inv /\ [Next]_vars => Inv'
  <2> SUFFICES ASSUME Inv, [Next]_vars PROVE Inv'
    OBVIOUS
  <2>1. ASSUME NEW c \in Cores, Map(c) PROVE Inv'
    BY <2>1, MapCallInv, SetDirInv, SetDirFailsInv, SetPteInv, PteLoadedInv
       DEF Map, LoadPte, SetPteFails
  <2>2. CASE UNCHANGED vars
    BY <2>2 DEF vars, Inv, TypeOK, LinkedTablesLive, TablesOwned, DirLinkHolds, PteLinkHolds
  <2> QED BY <2>1, <2>2, UnmapInv, TlbMissInv, PageFaultInv, DestroyInv DEF Next
<1> QED BY <1>1, <1>2, PTL DEF Spec

(* The tables in the directory are allocated and in one entry each, in     *)
(* every interleaving of the cores.                                        *)
THEOREM TablesLive == Spec => []LinkedTablesLive
BY Invariance, PTL DEF Inv

-----------------------------------------------------------------------------
(* One step never changes the page that a lookup finds, unless it unmaps   *)
(* that page or destroys the directory.                                    *)
LEMMA LookupStable ==
  ASSUME Inv, Next, NEW v \in VPages, lookup(v) # None, lookup(v)' # lookup(v)
  PROVE  Destroy \/ \E c \in Cores : Unmap(c, v)
<1> DEFINE i == v[1]
           j == v[2]
           u == dir[i]
<1>1. i \in L1 /\ j \in L2 /\ v = <<i, j>> /\ u \in Tables /\ u \in heap
      /\ lookup(v) = table[u][j] /\ table[u][j] # None
  <2>1. i \in L1 /\ j \in L2 /\ v = <<i, j>>
    OBVIOUS
  <2>2. u # None /\ lookup(v) = table[u][j]
    BY DEF lookup
  <2> QED BY <2>1, <2>2 DEF Inv, TypeOK, LinkedTablesLive
<1>2. lookup(v)' = IF dir'[i] = None THEN None ELSE table'[dir'[i]][j]
  BY DEF lookup
<1> HIDE DEF i, j, u
<1>3. ~(dir'[i] = u /\ table'[u][j] = table[u][j])
  BY <1>1, <1>2
<1>4. ASSUME NEW c \in Cores, Map(c) PROVE FALSE
  <2>1. ASSUME NEW w \in VPages, NEW p \in Pages, MapCall(c, w, p) PROVE FALSE
    BY <1>1, <1>3, <2>1 DEF MapCall, Inv, TypeOK, u
  <2>2. ASSUME SetDir(c) PROVE FALSE
    <3>1. dir[arg[c].vaddr[1]] = None
      BY <2>2 DEF SetDir, Inv, DirLinkHolds
    <3>2. table' = table /\ dir' = [dir EXCEPT ![arg[c].vaddr[1]] = arg[c].table]
      BY <2>2 DEF SetDir
    <3> QED BY <1>1, <1>3, <3>1, <3>2 DEF Inv, TypeOK, u
  <2>3. ASSUME SetPte(c) PROVE FALSE
    <3> DEFINE t == arg[c].table
               k == arg[c].vaddr[2]
    <3>1. table[t][k] = None
      BY <2>3 DEF SetPte, Inv, PteLinkHolds
    <3>2. dir' = dir /\ table' = [table EXCEPT ![t][k] = arg[c].paddr]
      BY <2>3 DEF SetPte
    <3> HIDE DEF t, k
    <3> QED BY <1>1, <1>3, <3>1, <3>2 DEF Inv, TypeOK, u
  <2>4. ASSUME SetDirFails(c) \/ LoadPte(c) \/ SetPteFails(c) PROVE FALSE
    BY <1>3, <2>4 DEF SetDirFails, LoadPte, SetPteFails, PteLoaded, u
  <2> QED BY <1>4, <2>1, <2>2, <2>3, <2>4 DEF Map
<1>5. ASSUME NEW c \in Cores, NEW w \in VPages, Unmap(c, w) PROVE w = v
  <2>1. /\ table' = [table EXCEPT ![dir[w[1]]][w[2]] = None]
        /\ dir' = dir /\ w = <<w[1], w[2]>> /\ w[1] \in L1 /\ w[2] \in L2
    BY <1>5 DEF Unmap
  <2>2. dir[w[1]] = u /\ w[2] = j
    BY <1>1, <1>3, <2>1 DEF Inv, TypeOK, u
  <2>3. w[1] = i
    BY <1>1, <2>1, <2>2 DEF Inv, LinkedTablesLive, TypeOK, u
  <2> QED BY <1>1, <2>1, <2>2, <2>3
<1>6. ASSUME NEW b \in Tlbs, NEW w \in VPages, TlbMiss(b, w) \/ PageFault(b, w)
      PROVE  FALSE
  BY <1>3, <1>6 DEF TlbMiss, PageFault, u
<1> QED BY <1>4, <1>5, <1>6 DEF Next

(* Mapping never replaces a mapping: concurrent calls of optimsoc_vmm_map  *)
(* cannot change or lose a page that a lookup has found.                   *)
THEOREM MappingsNeverReplaced == Spec => MappingsStable
<1>1. Inv /\ [Next]_vars =>
      [\A v \in VPages : lookup(v) # None /\ lookup(v)' # lookup(v) =>
         Destroy \/ \E c \in Cores : Unmap(c, v)]_vars
  BY LookupStable
<1> QED BY <1>1, Invariance, PTL DEF Spec, MappingsStable

-----------------------------------------------------------------------------
(* A TLB that is filled at a miss and never invalidated offers for a page  *)
(* that was not unmapped the frame that the directory holds now.           *)
THEOREM TlbsFaithful == Spec => []TlbFaithful
<1>1. Init => TlbEntriesTrue
  BY DEF Init, TlbEntriesTrue
<1>2. Inv /\ Inv' /\ TlbEntriesTrue /\ [Next]_vars => TlbEntriesTrue'
  <2> SUFFICES ASSUME Inv, TypeOK', TlbEntriesTrue, [Next]_vars,
                      NEW b \in Tlbs, NEW x \in TlbIndex, NEW e,
                      e = tlb'[b][x], e # None, e.vpn \notin unmapped'
               PROVE  (IF dir'[e.vpn[1]] = None THEN None
                       ELSE table'[dir'[e.vpn[1]]][e.vpn[2]]) = e.ppn
    BY DEF TlbEntriesTrue, Inv, lookup
  <2>1. CASE UNCHANGED vars
    <3>1. lookup(e.vpn) = e.ppn
      BY <2>1 DEF vars, TlbEntriesTrue
    <3> QED BY <2>1, <3>1 DEF vars, lookup
  <2>2. CASE Next
    <3>1. e \in TlbEntry /\ e.vpn \in VPages /\ e.ppn \in Pages
      BY DEF TypeOK, TlbEntry
    <3>2. unmapped \subseteq unmapped'
      BY <2>2 DEF Next, Map, MapCall, SetDir, SetDirFails, LoadPte, SetPte, SetPteFails,
                  PteLoaded, Unmap, TlbMiss, PageFault, Destroy
    <3>3. lookup(e.vpn) = e.ppn
      <4>1. CASE tlb' = tlb
        BY <3>2, <4>1 DEF TlbEntriesTrue
      <4>2. ASSUME NEW a \in Tlbs, NEW w \in VPages, TlbMiss(a, w)
            PROVE  lookup(e.vpn) = e.ppn
        <5>1. tlb' = [tlb EXCEPT ![a][tlbindex(w)] = [vpn |-> w, ppn |-> lookup(w)]]
          BY <4>2 DEF TlbMiss
        <5>2. e = tlb[b][x] \/ e = [vpn |-> w, ppn |-> lookup(w)]
          BY <5>1 DEF Inv, TypeOK
        <5> QED BY <3>2, <5>2 DEF TlbEntriesTrue
      <4>3. tlb' = tlb \/ \E a \in Tlbs, w \in VPages : TlbMiss(a, w)
        BY <2>2 DEF Next, Map, MapCall, SetDir, SetDirFails, LoadPte, SetPte, SetPteFails,
                    PteLoaded, Unmap, PageFault, Destroy
      <4> QED BY <4>1, <4>2, <4>3
    <3>4. lookup(e.vpn) # None
      BY <3>1, <3>3
    <3>5. ~Destroy /\ \A c \in Cores : ~Unmap(c, e.vpn)
      BY <3>1, <3>4 DEF Destroy, Unmap
    <3>6. lookup(e.vpn)' = lookup(e.vpn)
      BY <2>2, <3>1, <3>4, <3>5, LookupStable
    <3> QED BY <3>3, <3>6 DEF lookup
  <2> QED BY <2>1, <2>2
<1>3. TypeOK /\ TlbEntriesTrue => TlbFaithful
  <2> SUFFICES ASSUME TypeOK, TlbEntriesTrue, NEW b \in Tlbs, NEW v \in VPages \ unmapped,
                      TlbHit(b, v)
               PROVE  TlbPage(b, v) = lookup(v)
    BY DEF TlbFaithful
  <2>1. tlbindex(v) \in TlbIndex
    <3>1. v[2] \in L2 /\ TLBSIZE \in Nat /\ TLBSIZE > 0
      OBVIOUS
    <3>2. \A a, n \in Nat : n > 0 => a % n \in 0 .. n - 1
      BY SMT
    <3>3. v[2] \in Nat
      BY <3>1
    <3> QED BY <3>1, <3>2, <3>3 DEF tlbindex, TlbIndex
  <2> QED BY <2>1 DEF TlbHit, TlbPage, TlbEntriesTrue
<1> QED BY <1>1, <1>2, <1>3, Invariance, PTL DEF Spec, Inv
===============================================================================
