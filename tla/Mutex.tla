------------------------------- MODULE Mutex -------------------------------
(***************************************************************************)
(* What a spinlock of mvmm promises its callers: one CPU at a time is       *)
(* between the end of acquire() and the end of release().  Spinlock.tla     *)
(* is shown to implement this; Kalloc.tla is built on it.                   *)
(***************************************************************************)
CONSTANTS Cpus, NoCpu

VARIABLE holder      \* the CPU inside the critical section, or NoCpu

TypeOK == holder \in Cpus \cup {NoCpu}

Init == holder = NoCpu

\* acquire() returns on c.
Take(c) == /\ holder = NoCpu
           /\ holder' = c

\* The critical section c was in ends.
Drop(c) == /\ holder = c
           /\ holder' = NoCpu

Next == \E c \in Cpus : Take(c) \/ Drop(c)

Spec == Init /\ [][Next]_holder
=============================================================================
