--------------------------------- MODULE Vmm ---------------------------------
(***************************************************************************)
(* Virtual memory of libruntime (vmm.c): a page directory shared by the    *)
(* threads of an application, its page tables on the heap, the             *)
(* load-linked/store-conditional protocol with which the cores of a tile   *)
(* map pages concurrently, and the translation look-aside buffers that     *)
(* the miss handlers fill.  A virtual page is its pair of indices <<L1,    *)
(* L2>>; a page table entry is the physical page, or None if the PRESENT   *)
(* bit is not set.  The access rights of an entry are always the same.     *)
(***************************************************************************)
EXTENDS Integers, FiniteSets

CONSTANTS
  Cores,     \* cores of the tile
  Tlbs,      \* the TLBs observed: pairs of a core and "I" or "D"
  L1, L2,    \* indices into the directory and into a page table
  VPages,    \* the virtual pages in use, a subset of L1 \X L2
  Pages,     \* physical pages
  Tables,    \* addresses memalign may return for a page table
  TLBSIZE,   \* entries of a TLB, 64 in the processor
  MaxCalls,  \* bound: calls of optimsoc_vmm_map
  None

ASSUME VmmAssumption ==
  /\ L1 \subseteq Nat /\ L2 \subseteq Nat /\ VPages \subseteq L1 \X L2
  /\ TLBSIZE \in Nat \ {0} /\ MaxCalls \in Nat
  /\ Tlbs \subseteq Cores \X {"I", "D"}
  /\ None \notin Pages \cup Tables
  /\ \A i \in L1 : None # <<"dir", i>>
  /\ \A t \in Tables, j \in L2 : None # <<"pte", t, j>>

VARIABLES
  dir,       \* the page directory: the table at each L1 index
  table,     \* contents of the page tables, freed ones included
  heap,      \* tables that are allocated
  pc,        \* per core: where it is in optimsoc_vmm_map
  arg,       \* per core: the call's vaddr, paddr and local variable table
  link,      \* per core: the location linked by or1k_sync_ll, if any
  tlb,       \* per TLB: match and translation register of each index
  calls,     \* calls of optimsoc_vmm_map so far
  granted,   \* history: the page of each vaddr for which map returned 1
  unmapped   \* history: virtual pages that were unmapped at some time

vars == <<dir, table, heap, pc, arg, link, tlb, calls, granted, unmapped>>

TlbIndex == 0 .. TLBSIZE - 1

Empty == [j \in L2 |-> None]

DirLoc(i) == <<"dir", i>>

PteLoc(t, j) == <<"pte", t, j>>

Init ==
  /\ dir = [i \in L1 |-> None]
  /\ table = [t \in Tables |-> Empty]
  /\ heap = {}
  /\ pc = [c \in Cores |-> "idle"]
  /\ arg = [c \in Cores |-> None]
  /\ link = [c \in Cores |-> None]
  /\ tlb = [b \in Tlbs |-> [x \in TlbIndex |-> None]]
  /\ calls = 0
  /\ granted = [v \in VPages |-> None]
  /\ unmapped = {}

(* The entry _optimsoc_vmm_lookup finds: two levels, either may be absent. *)
lookup(v) == IF dir[v[1]] = None THEN None ELSE table[dir[v[1]]][v[2]]

Broken_Never(locs) == link

(* A store to locations breaks the links other cores hold on them.         *)
Broken(locs) == [c \in Cores |-> IF link[c] \in locs THEN None ELSE link[c]]

StoreTo(c, loc) == [Broken({loc}) EXCEPT ![c] = None]

(* optimsoc_vmm_map loads the directory entry and, if there is no table,   *)
(* allocates one and clears it.                                            *)
MapCall(c, v, p) ==
  /\ pc[c] = "idle"
  /\ calls < MaxCalls
  /\ calls' = calls + 1
  /\ \/ /\ dir[v[1]] # None
        /\ arg' = [arg EXCEPT ![c] = [vaddr |-> v, paddr |-> p, table |-> dir[v[1]]]]
        /\ link' = [link EXCEPT ![c] = DirLoc(v[1])]
        /\ pc' = [pc EXCEPT ![c] = "loadpte"]
        /\ UNCHANGED <<table, heap>>
     \/ /\ dir[v[1]] = None
        /\ \E t \in Tables \ heap :
             /\ arg' = [arg EXCEPT ![c] = [vaddr |-> v, paddr |-> p, table |-> t]]
             /\ heap' = heap \cup {t}
             /\ table' = [table EXCEPT ![t] = Empty]
             /\ link' = [Broken({PteLoc(t, j) : j \in L2}) EXCEPT ![c] = DirLoc(v[1])]
        /\ pc' = [pc EXCEPT ![c] = "setdir"]
  /\ UNCHANGED <<dir, tlb, granted, unmapped>>

(* or1k_sync_sc of the directory entry succeeds.                           *)
SetDir(c) ==
  LET i == arg[c].vaddr[1]
  IN  /\ pc[c] = "setdir"
      /\ link[c] = DirLoc(i)
      /\ dir' = [dir EXCEPT ![i] = arg[c].table]
      /\ link' = StoreTo(c, DirLoc(i))
      /\ pc' = [pc EXCEPT ![c] = "loadpte"]
      /\ UNCHANGED <<table, heap, arg, tlb, calls, granted, unmapped>>

(* The failing core frees the table that is now in the directory.          *)
SetDirFails_FreesOther(c) ==
  LET i == arg[c].vaddr[1]
  IN  /\ pc[c] = "setdir"
      /\ link' = [link EXCEPT ![c] = DirLoc(i)]
      /\ \/ dir[i] # None /\ heap' = heap \ {dir[i]} /\ pc' = [pc EXCEPT ![c] = "loadpte"]
         \/ dir[i] = None /\ UNCHANGED <<heap, pc>>
      /\ UNCHANGED <<dir, table, arg, tlb, calls, granted, unmapped>>

(* It fails, for a broken link or spuriously, and the entry is loaded      *)
(* again.  If another core has set a table by now, the own one is freed;   *)
(* the variable table still points to it.                                  *)
SetDirFails(c) ==
  LET i == arg[c].vaddr[1]
  IN  /\ pc[c] = "setdir"
      /\ link' = [link EXCEPT ![c] = DirLoc(i)]
      /\ \/ dir[i] # None /\ heap' = heap \ {arg[c].table} /\ pc' = [pc EXCEPT ![c] = "loadpte"]
         \/ dir[i] = None /\ UNCHANGED <<heap, pc>>
      /\ UNCHANGED <<dir, table, arg, tlb, calls, granted, unmapped>>

(* The entry in the page table is load-linked; if the page is mapped       *)
(* already, the call returns 0.                                            *)
PteLoaded(c) ==
  LET v == arg[c].vaddr
      t == arg[c].table
  IN  /\ link' = [link EXCEPT ![c] = PteLoc(t, v[2])]
      /\ pc' = [pc EXCEPT ![c] = IF table[t][v[2]] = None THEN "setpte" ELSE "idle"]
      /\ arg' = [arg EXCEPT ![c] = IF table[t][v[2]] = None THEN @ ELSE None]
      /\ UNCHANGED <<dir, table, heap, tlb, calls, granted, unmapped>>

LoadPte(c) == pc[c] = "loadpte" /\ PteLoaded(c)

(* or1k_sync_sc of the page table entry succeeds and the call returns 1.   *)
SetPte(c) ==
  LET v == arg[c].vaddr
      t == arg[c].table
  IN  /\ pc[c] = "setpte"
      /\ link[c] = PteLoc(t, v[2])
      /\ table' = [table EXCEPT ![t][v[2]] = arg[c].paddr]
      /\ link' = StoreTo(c, PteLoc(t, v[2]))
      /\ pc' = [pc EXCEPT ![c] = "idle"]
      /\ arg' = [arg EXCEPT ![c] = None]
      /\ granted' = [granted EXCEPT ![v] = arg[c].paddr]
      /\ UNCHANGED <<dir, heap, tlb, calls, unmapped>>

(* It fails: the entry is loaded again, as before.                         *)
SetPteFails(c) == pc[c] = "setpte" /\ PteLoaded(c)

(* optimsoc_vmm_unmap.  It is not thread safe: the caller guarantees that  *)
(* no other operation on this page is under way.  Nothing invalidates the  *)
(* TLB entries.                                                            *)
Unmap(c, v) ==
  /\ pc[c] = "idle"
  /\ \A d \in Cores : pc[d] \notin {"idle", "halted"} => arg[d].vaddr # v
  /\ lookup(v) # None
  /\ table' = [table EXCEPT ![dir[v[1]]][v[2]] = None]
  /\ link' = Broken({PteLoc(dir[v[1]], v[2])})
  /\ granted' = [granted EXCEPT ![v] = None]
  /\ unmapped' = unmapped \cup {v}
  /\ UNCHANGED <<dir, heap, pc, arg, tlb, calls>>

(* The index of a virtual page in a TLB.                                   *)
tlbindex(v) == v[2] % TLBSIZE

(* The match register compares the L2 index only.                          *)
TlbHit_IndexOnly(b, v) ==
  LET e == tlb[b][tlbindex(v)] IN e # None /\ e.vpn[2] = v[2]

(* A translation matches only if the whole page number agrees: many pages  *)
(* share an index.                                                         *)
TlbHit(b, v) ==
  LET e == tlb[b][tlbindex(v)] IN e # None /\ e.vpn = v

TlbPage(b, v) == tlb[b][tlbindex(v)].ppn

(* _optimsoc_dtlb_miss and _optimsoc_itlb_miss: the entry found is put     *)
(* into the TLB.                                                           *)
TlbMiss(b, v) ==
  /\ pc[b[1]] = "idle"
  /\ ~TlbHit(b, v)
  /\ lookup(v) # None
  /\ tlb' = [tlb EXCEPT ![b][tlbindex(v)] = [vpn |-> v, ppn |-> lookup(v)]]
  /\ UNCHANGED <<dir, table, heap, pc, arg, link, calls, granted, unmapped>>

(* If there is none, the page fault handler registered by the kernel is    *)
(* called; the one of gzll stops the core.                                 *)
PageFault(b, v) ==
  /\ pc[b[1]] = "idle"
  /\ ~TlbHit(b, v)
  /\ lookup(v) = None
  /\ pc' = [pc EXCEPT ![b[1]] = "halted"]
  /\ UNCHANGED <<dir, table, heap, arg, link, tlb, calls, granted, unmapped>>

(* optimsoc_vmm_destroy_page_dir frees the tables in the directory; the    *)
(* next application begins with a new directory (create_page_dir).  The    *)
(* cores are restarted with empty TLBs only by a reset, but the pages of   *)
(* the old application count as unmapped.                                  *)
Destroy ==
  /\ \A c \in Cores : pc[c] \in {"idle", "halted"}
  /\ dir # [i \in L1 |-> None]
  /\ heap' = heap \ {dir[i] : i \in L1}
  /\ dir' = [i \in L1 |-> None]
  /\ granted' = [v \in VPages |-> None]
  /\ unmapped' = unmapped \cup {v \in VPages : lookup(v) # None}
  /\ UNCHANGED <<table, pc, arg, link, tlb, calls>>

Map(c) ==
  \/ \E v \in VPages, p \in Pages : MapCall(c, v, p)
  \/ SetDir(c) \/ SetDirFails(c) \/ LoadPte(c) \/ SetPte(c) \/ SetPteFails(c)

Next ==
  \/ \E c \in Cores : Map(c) \/ \E v \in VPages : Unmap(c, v)
  \/ \E b \in Tlbs, v \in VPages : TlbMiss(b, v) \/ PageFault(b, v)
  \/ Destroy

Spec == Init /\ [][Next]_vars

-----------------------------------------------------------------------------
(* The tables in the directory are allocated and no table is shared by two *)
(* entries, however many cores set tables and free the ones they lost the  *)
(* race with.                                                              *)
LinkedTablesLive ==
  /\ \A i \in L1 : dir[i] # None => dir[i] \in heap
  /\ \A i, j \in L1 : dir[i] # None /\ dir[i] = dir[j] => i = j

(* Mapping never replaces a mapping: a page that a lookup finds is found   *)
(* by every later lookup, with the same frame, until it is unmapped or the *)
(* directory is destroyed.                                                 *)
MappingsStable ==
  [][\A v \in VPages : lookup(v) # None /\ lookup(v)' # lookup(v) =>
       Destroy \/ \E c \in Cores : Unmap(c, v)]_vars

(* A translation that a TLB offers for a page is the one in the directory, *)
(* unless the page was unmapped since.                                     *)
TlbFaithful ==
  \A b \in Tlbs, v \in VPages \ unmapped : TlbHit(b, v) => TlbPage(b, v) = lookup(v)

(* "Mapping pages is thread-safe": a map that returned 1 is in effect.     *)
MapIsThreadSafe ==
  \A v \in VPages : granted[v] # None => lookup(v) = granted[v]
=============================================================================
