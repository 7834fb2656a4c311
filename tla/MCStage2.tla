------------------------------ MODULE MCStage2 -------------------------------
(***************************************************************************)
(* Tables of two entries, so sixteen guest pages, of which those that are   *)
(* used and their neighbours.  The queue, pages 7 and 8, lies in two tables *)
(* at every level but the first; the region 2, 3 is trapped and never       *)
(* mapped; the copy is to 5 and 6.                                          *)
(***************************************************************************)
EXTENDS Stage2

AllIpas == (2 .. 8) \cup {15}
TwoEntries == [v \in AllIpas |-> [l \in 0 .. 3 |-> (v \div 2 ^ (3 - l)) % 2]]
FreeList == [n \in 1 .. 16 |-> 100 + n]
=============================================================================
