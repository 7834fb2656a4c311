------------------------------ MODULE VgicRegs ------------------------------
(***************************************************************************)
(* The trapped registers of the GIC together: a CPU is in one handler at a   *)
(* time, of an enable register or of a register of bytes, while the other    *)
(* CPUs may be in either.                                                    *)
(* The handlers of the two kinds share the CPUs and nothing else: none of    *)
(* them takes vgic->lock.                                                    *)
(***************************************************************************)
EXTENDS VgicDist, VgicBytes

regsVars == <<vars, byteVars>>

RegsInit == Init /\ ByteInit

\* vgicd_mmio_write() and vgicr_mmio_write(): a write goes to one register.
EnableStep(c) ==
  /\ (Access(c) /\ step[c] = "guest") \/ Bit(c)
  /\ UNCHANGED byteVars
ByteStep(c) ==
  /\ (ByteAccess(c) /\ at[c] = "guest") \/ Byte(c)
  /\ UNCHANGED vars

RegsNext == \E c \in Cpus : EnableStep(c) \/ ByteStep(c)

RegsSpec == RegsInit /\ [][RegsNext]_regsVars
=============================================================================
