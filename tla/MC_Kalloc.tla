------------------------------ MODULE MC_Kalloc ------------------------------
(* Kalloc with three CPUs and pages of 2 address units: end = 1 leaves the *)
(* low pages 2, 4, 6 below P2V(4MB) = 8, taken by the kernel page table    *)
(* and the two AP stacks, and the high pages 8, 10, 12 below PHYSTOP = 14, *)
(* of which the first process takes one and processes on the three CPUs   *)
(* compete for the other two.                                              *)
EXTENDS Kalloc

MCCPUs == 0..2
====
