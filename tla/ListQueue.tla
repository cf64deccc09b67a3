------------------------------ MODULE ListQueue ------------------------------
(***************************************************************************)
(* What the lists of libruntime promise: a sequence with operations at     *)
(* both ends and the removal of the first element with given data.         *)
(***************************************************************************)
EXTENDS Integers, Sequences

LOCAL INSTANCE SequencesExt

CONSTANTS Data, Capacity, NULL

VARIABLES
  q,     \* the elements, head first
  ret    \* result of the last call

vars == <<q, ret>>

Init == q = <<>> /\ ret = NULL

AddTail(d) == Len(q) < Capacity /\ q' = Append(q, d) /\ ret' = NULL

AddHead(d) == Len(q) < Capacity /\ q' = <<d>> \o q /\ ret' = NULL

RemoveHead ==
  \/ q = <<>> /\ ret' = NULL /\ UNCHANGED q
  \/ q # <<>> /\ ret' = Head(q) /\ q' = Tail(q)

ListRemove(d) ==
  \/ /\ ~Contains(q, d)
     /\ ret' = 0
     /\ UNCHANGED q
  \/ /\ Contains(q, d)
     /\ ret' = 1
     /\ q' = RemoveFirst(q, d)

Next ==
  \/ \E d \in Data : AddTail(d) \/ AddHead(d) \/ ListRemove(d)
  \/ RemoveHead

Spec == Init /\ [][Next]_vars
=============================================================================
