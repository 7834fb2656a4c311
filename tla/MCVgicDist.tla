---------------------------- MODULE MCVgicDist -----------------------------
(* VgicRegs: the virtual timer and interrupts of several words of SPIs, the  *)
(* last two of a machine with as many lines as one page of vgic->spis allows *)
(* for.                                                                      *)
EXTENDS VgicRegs

PriorityUntouched == \A b \in Banks, i \in Fields :
  may["priority"][b][i] = {InitByte("priority", b, i)}
TargetUntouched == \A b \in Banks, i \in Fields :
  may["target"][b][i] = {InitByte("target", b, i)}
EnableUntouched == \A c \in Cpus :
  op[c] = "set" /\ todo[c] = {} /\ asked[c] = {} /\ asked[Dist] = {}

\* Registers of one kind at a time: the handlers of different kinds share no
\* variable.
OneKind ==
  \/ EnableUntouched /\ (PriorityUntouched \/ TargetUntouched)
  \/ PriorityUntouched /\ TargetUntouched
=============================================================================
