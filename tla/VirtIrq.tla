------------------------------ MODULE VirtIrq -------------------------------
(***************************************************************************)
(* What interrupt virtualization promises the guest: an interrupt that a    *)
(* device or an SGI raises is given to the guest once, taken once, and ends *)
(* once; raised again meanwhile, it is given again after it has ended.      *)
(***************************************************************************)
CONSTANTS Irqs,
          Levels    \* those that may be withdrawn before they are given

VARIABLES line,    \* "idle", "pending" (raised), "given" to the guest, "taken" by it
          again    \* raised again while the guest has it

vars == <<line, again>>

Init == line = [i \in Irqs |-> "idle"] /\ again = [i \in Irqs |-> FALSE]

Raise(S) ==
  /\ line' = [i \in Irqs |-> IF i \in S /\ line[i] = "idle" THEN "pending" ELSE line[i]]
  /\ again' = [i \in Irqs |-> again[i] \/ (i \in S /\ line[i] \in {"given", "taken"})]

\* The device of a level-triggered interrupt falls quiet.
Withdraw(i) ==
  /\ i \in Levels
  /\ \/ line[i] = "pending" /\ line' = [line EXCEPT ![i] = "idle"] /\ UNCHANGED again
     \/ line[i] \in {"given", "taken"} /\ again' = [again EXCEPT ![i] = FALSE] /\ UNCHANGED line

Move(i, from, to) == line[i] = from /\ line' = [line EXCEPT ![i] = to]

Give(i) == Move(i, "pending", "given") /\ UNCHANGED again

Take(i) == Move(i, "given", "taken") /\ UNCHANGED again

Finish(i) ==
  /\ Move(i, "taken", IF again[i] THEN "pending" ELSE "idle")
  /\ again' = [again EXCEPT ![i] = FALSE]

Next == \/ \E S \in SUBSET Irqs : Raise(S)
        \/ \E i \in Irqs : Withdraw(i) \/ Give(i) \/ Take(i) \/ Finish(i)

Spec == Init /\ [][Next]_vars
=============================================================================
