----------------------------- MODULE MCVgicIrq ------------------------------
(***************************************************************************)
(* Two CPUs: a private level-triggered interrupt on each (the timer), one   *)
(* shared interrupt that either may take, and an SGI of c2.                 *)
(***************************************************************************)
EXTENDS VgicIrq

CONSTANTS c1, c2, ppi1, ppi2, spi, sgi2

AllIrqs == {ppi1, ppi2, spi, sgi2}

\* The shared interrupt goes to either CPU ...
SharedTargets ==
  [i \in AllIrqs |-> IF i = ppi1 THEN {c1} ELSE IF i = spi THEN {c1, c2} ELSE {c2}]

\* ... or to c1 only.
FixedTargets ==
  [i \in AllIrqs |-> IF i \in {ppi1, spi} THEN {c1} ELSE {c2}]
=============================================================================
