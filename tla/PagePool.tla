------------------------------ MODULE PagePool ------------------------------
(***************************************************************************)
(* What the page allocator promises: a page leaves the pool when kalloc()   *)
(* hands it out and enters it when kfree() gives it back, one page a time,  *)
(* and a page outside the pool is never handed out.                         *)
(***************************************************************************)
CONSTANT Pages

VARIABLE free        \* the pages in the pool

Init == free = {}

Alloc(p) == p \in free /\ free' = free \ {p}

Free(p) == p \notin free /\ free' = free \cup {p}

Next == \E p \in Pages : Alloc(p) \/ Free(p)

Spec == Init /\ [][Next]_free
=============================================================================
