-------------------------------- MODULE MCVmm --------------------------------
(* vmm.c on small instances.                                               *)
EXTENDS Vmm, TLC

CONSTANTS c1, c2

(* Two pages in one page table and one in another.                         *)
ThreePages == {<<0, 0>>, <<0, 1>>, <<1, 0>>}

(* The data TLB of one core and the instruction TLB of the other.          *)
TwoTlbs == {<<c1, "D">>, <<c2, "I">>}

Symmetry == Permutations(Pages) \cup Permutations(Tables)
=============================================================================
