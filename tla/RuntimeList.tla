----------------------------- MODULE RuntimeList -----------------------------
(***************************************************************************)
(* The doubly linked list of libruntime (list.c), pointer by pointer.  The *)
(* entries come from malloc; the contents of a freed entry stay in memory  *)
(* and stale pointers to it remain.  remove_head leaves the prev pointer   *)
(* of the new head on the freed entry, which list_remove later takes for   *)
(* an entry in the middle: the two operations do not go together on one    *)
(* list.  Usage says which of them the owner of the list calls; the lists  *)
(* of timers, nodes and suspended threads use remove, the page pool and    *)
(* the join lists remove_head, and the ready queue both.                   *)
(***************************************************************************)
EXTENDS Integers, Sequences, FiniteSets

CONSTANTS
  Data,      \* the data pointers stored
  Capacity,  \* entries that malloc can provide
  Usages,    \* subset of {"queue", "set", "both"}
  NULL

VARIABLES
  head, tail,   \* the list structure
  entry,        \* the memory of the entries: data, prev and next
  live,         \* entries allocated
  ret,          \* result of the last call
  usage         \* how this list is used

vars == <<head, tail, entry, live, ret, usage>>

Entries == 1 .. Capacity

Init ==
  /\ head = NULL
  /\ tail = NULL
  /\ entry = [e \in Entries |-> [data |-> NULL, prev |-> NULL, next |-> NULL]]
  /\ live = {}
  /\ ret = NULL
  /\ usage \in Usages

(* malloc returns some entry that is not in use.                           *)
Alloc(e) == e \in Entries \ live /\ live' = live \cup {e}

AddTail(d) ==
  \E e \in Entries :
    /\ Alloc(e)
    /\ tail' = e
    /\ head' = IF tail = NULL THEN e ELSE head
    /\ LET new == [entry EXCEPT ![e] = [data |-> d, prev |-> tail, next |-> NULL]]
       IN  entry' = IF tail = NULL THEN new ELSE [new EXCEPT ![tail].next = e]
    /\ ret' = NULL
    /\ UNCHANGED usage

AddHead(d) ==
  \E e \in Entries :
    /\ Alloc(e)
    /\ head' = e
    /\ tail' = IF head = NULL THEN e ELSE tail
    /\ LET new == [entry EXCEPT ![e] = [data |-> d, prev |-> NULL, next |-> head]]
       IN  entry' = IF head = NULL THEN new ELSE [new EXCEPT ![head].prev = e]
    /\ ret' = NULL
    /\ UNCHANGED usage

(* The entry after the head becomes the head; its prev pointer keeps       *)
(* pointing to the entry that is freed.                                    *)
RemoveHead ==
  /\ usage \in {"queue", "both"}
  /\ \/ head = NULL /\ ret' = NULL /\ UNCHANGED <<head, tail, live>>
     \/ /\ head # NULL
        /\ ret' = entry[head].data
        /\ head' = entry[head].next
        /\ tail' = IF head' = NULL THEN NULL ELSE tail
        /\ live' = live \ {head}
  /\ UNCHANGED <<entry, usage>>

(* The entries met from the head on.                                       *)
Walk ==
  LET at[n \in 1 .. Capacity] ==
        IF n = 1 THEN head ELSE IF at[n - 1] = NULL THEN NULL ELSE entry[at[n - 1]].next
      len == Cardinality({n \in 1 .. Capacity : at[n] # NULL})
  IN  [n \in 1 .. len |-> at[n]]

(* The elements as contains, find_content_header, length, first_element    *)
(* and next_element meet them, and as list_dma_copy copies them to another *)
(* tile.                                                                   *)
Contents == [n \in DOMAIN Walk |-> entry[Walk[n]].data]

(* The case of the head does not reset the prev pointer of the next entry. *)
Unlink_KeepPrev(e) ==
  LET p == entry[e].prev
      n == entry[e].next
  IN  IF e = head /\ e = tail THEN head' = NULL /\ tail' = NULL /\ UNCHANGED entry
      ELSE IF p = NULL THEN head' = n /\ UNCHANGED <<entry, tail>>
      ELSE IF n = NULL THEN tail' = p /\ entry' = [entry EXCEPT ![p].next = NULL] /\ UNCHANGED head
      ELSE entry' = [entry EXCEPT ![p].next = n, ![n].prev = p] /\ UNCHANGED <<head, tail>>

(* Unlink entry e, by the four cases of list_remove.                       *)
Unlink(e) ==
  LET p == entry[e].prev
      n == entry[e].next
  IN  IF e = head /\ e = tail THEN head' = NULL /\ tail' = NULL /\ UNCHANGED entry
      ELSE IF p = NULL THEN head' = n /\ entry' = [entry EXCEPT ![n].prev = NULL] /\ UNCHANGED tail
      ELSE IF n = NULL THEN tail' = p /\ entry' = [entry EXCEPT ![p].next = NULL] /\ UNCHANGED head
      ELSE entry' = [entry EXCEPT ![p].next = n, ![n].prev = p] /\ UNCHANGED <<head, tail>>

(* The first entry with the data is removed.                               *)
Remove(d) ==
  LET hits == {n \in DOMAIN Contents : Contents[n] = d}
  IN  /\ usage \in {"set", "both"}
      /\ \/ hits = {} /\ ret' = 0 /\ UNCHANGED <<head, tail, entry, live>>
         \/ \E n \in hits :
              /\ \A m \in hits : n <= m
              /\ Unlink(Walk[n])
              /\ live' = live \ {Walk[n]}
              /\ ret' = 1
      /\ UNCHANGED usage

Next ==
  \/ \E d \in Data : AddTail(d) \/ AddHead(d) \/ Remove(d)
  \/ RemoveHead

Spec == Init /\ [][Next]_vars

-----------------------------------------------------------------------------
Queue == INSTANCE ListQueue WITH q <- Contents, ret <- ret

(* The list behaves as the sequence it promises to be: every operation has *)
(* the effect and the result of the one on sequences.                      *)
ListImplementsQueue == Queue!Spec
=============================================================================
