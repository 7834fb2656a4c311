------------------------------ MODULE MCKalloc ------------------------------
(* Kalloc on three CPUs; all CPUs but the one that boots are alike. *)
EXTENDS Kalloc, TLC

Symmetry == Permutations(Cpus \ {BootCpu}) \cup Permutations(Pages)
=============================================================================
