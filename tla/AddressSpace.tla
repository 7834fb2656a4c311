---------------------------- MODULE AddressSpace -----------------------------
(***************************************************************************)
(* What src/mm.c promises of a guest's stage 2: a map from guest pages to   *)
(* pages, in which no page stands at two places.                            *)
(***************************************************************************)
CONSTANTS Ipas, Nil

VARIABLE map   \* map[v]: the page at guest page v, or Nil

Init == map = [v \in Ipas |-> Nil]

\* pagemap(), one page
Map(v, p) ==
  /\ p # Nil /\ map[v] = Nil
  /\ \A w \in Ipas : map[w] # p
  /\ map' = [map EXCEPT ![v] = p]

\* pageunmap(), one page
Unmap(v) ==
  /\ map[v] # Nil
  /\ map' = [map EXCEPT ![v] = Nil]

Next == \E v \in Ipas : Map(v, map'[v]) \/ Unmap(v)

Spec == Init /\ [][Next]_map
=============================================================================
