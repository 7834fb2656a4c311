----------------------------- MODULE MCVcpuBoot -----------------------------
(* VcpuBoot with four vCPUs, the last of which has no CPU. *)
EXTENDS VcpuBoot

Cpus3 == 0 .. 2
=============================================================================
