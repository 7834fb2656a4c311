----------------------------- MODULE MCSpinlock -----------------------------
(* Spinlock on two or three CPUs. *)
EXTENDS Spinlock
=============================================================================
