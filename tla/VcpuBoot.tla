------------------------------ MODULE VcpuBoot ------------------------------
(***************************************************************************)
(* The life of a vCPU: create_vm() on cpu0, PSCI CPU_ON by a guest          *)
(* (src/vpsci.c), the boot of a secondary CPU (src/init.c), its entry into  *)
(* the guest (src/vcpu.c), and the guest's program counter across every     *)
(* kind of trap (src/vector.S, src/trap.c, src/vsysreg.c).                  *)
(*                                                                          *)
(* vcpu->state and vcpu->reg.elr are written by several CPUs without a      *)
(* lock; every access to them is a step.  vCPU v runs on CPU v only.  The   *)
(* firmware that psci_call() calls is external.                             *)
(***************************************************************************)
EXTENDS Naturals

CONSTANTS NumVcpu,      \* vm->nvcpu
          PhysCpus,     \* the CPUs the machine has; 0 boots
          NumPc,        \* how many program counters the guest has
          Entry,        \* vmconfig.entrypoint
          OncePerCpu    \* TRUE: the guest asks for each CPU once, as an OS
                        \* that serializes CPU hotplug does

ASSUME VcpuBootAssumption ==
  /\ NumVcpu \in Nat \ {0}
  /\ PhysCpus \subseteq 0 .. NumVcpu - 1 /\ 0 \in PhysCpus
  /\ NumPc \in Nat \ {0} /\ Entry \in 1 .. NumPc
  /\ OncePerCpu \in BOOLEAN

VARIABLES state,    \* vcpu->state
          elr,      \* vcpu->reg.elr
          fw,       \* fw[c]: the firmware's view of CPU c
          at,       \* where CPU c is
          pc,       \* pc[c]: the guest's program counter; in a trap, history:
                    \* the one at which the guest has to go on
          target,   \* target[c], entry[c]: the arguments of the CPU_ON that
          entry,    \* c handles, if it handles one
          asked,    \* history: the vCPUs a guest has called CPU_ON for
          granted   \* history: the entry point of the CPU_ON that started v

vars == <<state, elr, fw, at, pc, target, entry, asked, granted>>

Vcpus == 0 .. NumVcpu - 1
Targets == 0 .. NumVcpu      \* one target that does not exist

\* 0, of a vCPU that no one has started, is not a program counter.  The
\* instruction after the last one is the first.
Pcs == 1 .. NumPc
After(p) == IF p = NumPc THEN 1 ELSE p + 1

\* Before the guest, and in the handler of a trap.
Booting == {"off", "create", "enter", "switch", "load"}
Trapped == {"exit", "emulate", "unknown", "setelr", "ready", "psci"}
CpuOn == {"setelr", "ready", "psci"}

TypeOK ==
  /\ state \in [Vcpus -> {"UNUSED", "CREATED", "READY", "RUNNING"}]
  /\ elr \in [Vcpus -> Pcs \cup {0}]
  /\ \A v \in Vcpus : state[v] \in {"READY", "RUNNING"} => elr[v] \in Pcs
  /\ fw \in [PhysCpus -> {"off", "pending", "on"}]
  /\ at \in [PhysCpus -> Booting \cup {"guest", "panic"} \cup Trapped]
  /\ pc \in [PhysCpus -> Pcs]
  /\ target \in [PhysCpus -> Targets]
  /\ entry \in [PhysCpus -> Pcs]
  /\ asked \subseteq Targets
  /\ granted \in [Vcpus -> Pcs]

Init ==
  /\ state = [v \in Vcpus |-> "UNUSED"]
  /\ elr = [v \in Vcpus |-> 0]
  /\ fw = [c \in PhysCpus |-> IF c = 0 THEN "on" ELSE "off"]
  /\ at = [c \in PhysCpus |-> IF c = 0 THEN "create" ELSE "off"]
  /\ pc = [c \in PhysCpus |-> Entry]
  /\ target = [c \in PhysCpus |-> NumVcpu]
  /\ entry = [c \in PhysCpus |-> Entry]
  /\ asked = {0}
  /\ granted = [v \in Vcpus |-> Entry]

Goto(c, a) == at' = [at EXCEPT ![c] = a]
SetState(v, s) == state' = [state EXCEPT ![v] = s]

-----------------------------------------------------------------------------
(* Boot *)

\* Mutant: new_vcpu() leaves reg.elr zero.
CreateWithoutEntry(v) ==
  /\ at[0] = "create"
  /\ state[v] = "UNUSED" /\ \A u \in Vcpus : u < v => state[u] # "UNUSED"
  /\ SetState(v, "CREATED")
  /\ UNCHANGED <<elr, fw, at, pc, target, entry, asked, granted>>

\* create_vm() calls new_vcpu(), whose allocvcpu() takes the first unused
\* slot: slot and cpuid agree because only cpu0 allocates.  All but vCPU 0
\* get 0 for an entry point.
CreateVcpu(v) ==
  /\ at[0] = "create"
  /\ state[v] = "UNUSED" /\ \A u \in Vcpus : u < v => state[u] # "UNUSED"
  /\ SetState(v, "CREATED")
  /\ elr' = [elr EXCEPT ![v] = IF v = 0 THEN Entry ELSE 0]
  /\ UNCHANGED <<fw, at, pc, target, entry, asked, granted>>

\* vcpu_ready(vm->vcpus[0]), the last thing create_vm() does
Created ==
  /\ at[0] = "create"
  /\ \A v \in Vcpus : state[v] # "UNUSED"
  /\ SetState(0, "READY")
  /\ Goto(0, "enter")
  /\ UNCHANGED <<elr, fw, pc, target, entry, asked, granted>>

\* The firmware starts c at _start; vmm_init_secondary() runs up to enter_vcpu().
BootSecondary(c) ==
  /\ fw[c] = "pending"
  /\ fw' = [fw EXCEPT ![c] = "on"]
  /\ Goto(c, "enter")
  /\ UNCHANGED <<state, elr, pc, target, entry, asked, granted>>

\* enter_vcpu(): "uninitalized vcpu"
EnterVcpu(c) ==
  /\ at[c] = "enter"
  /\ Goto(c, IF state[c] = "READY" THEN "switch" ELSE "panic")
  /\ UNCHANGED <<state, elr, fw, pc, target, entry, asked, granted>>

\* switch_vcpu()
SwitchVcpu(c) ==
  /\ at[c] = "switch"
  /\ SetState(c, "RUNNING")
  /\ Goto(c, "load")
  /\ UNCHANGED <<elr, fw, pc, target, entry, asked, granted>>

\* trapret: vm_restore_reg and eret, for a new vCPU and after a trap
TrapRet(c) ==
  /\ at[c] \in {"load", "exit"}
  /\ pc' = [pc EXCEPT ![c] = elr[c]]
  /\ Goto(c, "guest")
  /\ UNCHANGED <<state, elr, fw, target, entry, asked, granted>>

-----------------------------------------------------------------------------
(* The guest runs, and traps *)

\* The guest runs on.
GuestRun(c, p) ==
  /\ at[c] = "guest"
  /\ pc[c] # p
  /\ pc' = [pc EXCEPT ![c] = p]
  /\ UNCHANGED <<state, elr, fw, at, target, entry, asked, granted>>

\* vm_save_reg saves elr_el2.
Save(c, p) == elr' = [elr EXCEPT ![c] = p]

\* vm_irq_handler()
Irq(c) ==
  /\ at[c] = "guest"
  /\ Save(c, pc[c])
  /\ Goto(c, "exit")
  /\ UNCHANGED <<state, fw, pc, target, entry, asked, granted>>

\* What vm_sync_handler() emulates: WFI and WFE, a data abort of an address
\* that has a handler, reads of the identification registers and writes of
\* ICC_SGI1R_EL1; not "other" registers or aborts.
TrapKinds == {"wfx", "dabort", "idreg", "sgi1r", "other"}
Emulates(k, write) ==
  \/ k \in {"wfx", "dabort"}
  \/ k = "idreg" /\ ~write
  \/ k = "sgi1r" /\ write

\* The exception gives the trapped instruction, and the guest goes on after it;
\* what is not emulated is a panic.
SyncTrap(c, k, write) ==
  /\ at[c] = "guest"
  /\ Save(c, pc[c])
  /\ IF Emulates(k, write)
       THEN pc' = [pc EXCEPT ![c] = After(@)] /\ Goto(c, "emulate")
       ELSE Goto(c, "unknown") /\ UNCHANGED pc
  /\ UNCHANGED <<state, fw, target, entry, asked, granted>>

\* Mutant: the guest is sent back to the trapped instruction.
NotAdvanced(c) ==
  /\ at[c] = "emulate"
  /\ Goto(c, "exit")
  /\ UNCHANGED <<state, elr, fw, pc, target, entry, asked, granted>>

\* vcpu->reg.elr += 4
Emulated(c) ==
  /\ at[c] = "emulate"
  /\ Save(c, After(elr[c]))
  /\ Goto(c, "exit")
  /\ UNCHANGED <<state, fw, pc, target, entry, asked, granted>>

\* An hvc: the exception gives the instruction after it.
Hvc(c) ==
  /\ at[c] = "guest"
  /\ Save(c, After(pc[c]))
  /\ pc' = [pc EXCEPT ![c] = After(@)]

\* A PSCI call that leaves the vCPUs alone: PSCI_VERSION and
\* MIGRATE_INFO_TYPE go to the firmware, SYSTEM_OFF and SYSTEM_RESET nowhere.
\* Any other function is a panic, and so is an hvc that is not #0.
CallPsci(c, known) ==
  /\ Hvc(c)
  /\ Goto(c, IF known THEN "exit" ELSE "unknown")
  /\ UNCHANGED <<state, fw, target, entry, asked, granted>>

\* The guest on c asks for vCPU t to start at e.
CallCpuOn(c, t, e) ==
  /\ OncePerCpu => t \notin asked
  /\ Hvc(c)
  /\ target' = [target EXCEPT ![c] = t]
  /\ entry' = [entry EXCEPT ![c] = e]
  /\ asked' = asked \cup {t}
  /\ Goto(c, "setelr")
  /\ UNCHANGED <<state, fw, granted>>

-----------------------------------------------------------------------------
(* vpsci_cpu_on() *)

\* No arguments are kept.
Return(c) ==
  /\ target' = [target EXCEPT ![c] = NumVcpu]
  /\ entry' = [entry EXCEPT ![c] = Entry]
  /\ Goto(c, "exit")

\* Mutant: the caller's vCPU gets the entry point.
SetOwnElr(c) ==
  /\ at[c] = "setelr"
  /\ IF target[c] \notin Vcpus
       THEN Return(c) /\ UNCHANGED elr
       ELSE /\ elr' = [elr EXCEPT ![c] = entry[c]]
            /\ Goto(c, "ready") /\ UNCHANGED <<target, entry>>
  /\ UNCHANGED <<state, fw, pc, asked, granted>>

\* A target that does not exist, or target->reg.elr = ep_addr
SetElr(c) ==
  /\ at[c] = "setelr"
  /\ IF target[c] \notin Vcpus
       THEN Return(c) /\ UNCHANGED elr
       ELSE /\ elr' = [elr EXCEPT ![target[c]] = entry[c]]
            /\ Goto(c, "ready") /\ UNCHANGED <<target, entry>>
  /\ UNCHANGED <<state, fw, pc, asked, granted>>

\* Mutant: vcpu_ready() is not called.
SkipReady(c) ==
  /\ at[c] = "ready"
  /\ Goto(c, "psci")
  /\ UNCHANGED <<state, elr, fw, pc, target, entry, asked, granted>>

\* vcpu_ready(target)
VcpuReady(c) ==
  /\ at[c] = "ready"
  /\ SetState(target[c], "READY")
  /\ Goto(c, "psci")
  /\ UNCHANGED <<elr, fw, pc, target, entry, asked, granted>>

\* psci_call(): the firmware starts a CPU that is off and refuses any other.
PsciCall(c) ==
  LET t == target[c] IN
  /\ at[c] = "psci"
  /\ IF t \in PhysCpus /\ fw[t] = "off"
       THEN /\ fw' = [fw EXCEPT ![t] = "pending"]
            /\ granted' = [granted EXCEPT ![t] = entry[c]]
       ELSE UNCHANGED <<fw, granted>>
  /\ Return(c)
  /\ UNCHANGED <<state, elr, pc, asked>>

\* What mvmm does next on c.
Vmm(c) ==
  \/ BootSecondary(c) \/ EnterVcpu(c) \/ SwitchVcpu(c) \/ TrapRet(c)
  \/ Emulated(c) \/ SetElr(c) \/ VcpuReady(c) \/ PsciCall(c)

Guest(c) ==
  \/ \E p \in Pcs : GuestRun(c, p)
  \/ Irq(c)
  \/ \E k \in TrapKinds, write \in BOOLEAN : SyncTrap(c, k, write)
  \/ \E known \in BOOLEAN : CallPsci(c, known)
  \/ \E t \in Targets, e \in Pcs : CallCpuOn(c, t, e)

Next ==
  \/ \E v \in Vcpus : CreateVcpu(v)
  \/ Created
  \/ \E c \in PhysCpus : Vmm(c) \/ Guest(c)

Spec == Init /\ [][Next]_vars

\* The hypervisor and the firmware do not stop; the guest may do anything.
FairSpec == Spec /\ \A c \in PhysCpus : WF_vars(Vmm(c))
-----------------------------------------------------------------------------
(* Properties *)

\* vcpu.c:125-126: a CPU that boots finds its vCPU ready, however the CPU_ON
\* of several vCPUs interleave with the boot.
NeverUninitialized == \A c \in PhysCpus : at[c] # "panic"

\* A trapped guest goes on where it was, or after the instruction that was
\* emulated, and no CPU_ON of another CPU changes that (vpsci.c:19 writes elr
\* whatever the target does; trap.c:179, 195, 203 read it and write it back).
ResumesWhereTrapped == \A c \in PhysCpus : target[c] # c =>
  /\ at[c] = "emulate" => After(elr[c]) = pc[c]
  /\ at[c] \in Trapped \ {"emulate"} => elr[c] = pc[c]

\* A CPU starts where the CPU_ON that the firmware granted says, not where a
\* later one says.
StartsWhereAsked == \A c \in PhysCpus :
  fw[c] # "off" /\ at[c] \in Booting \ {"create"} => elr[c] = granted[c]

\* A CPU_ON that the firmware grants brings the vCPU into the guest.
GrantedRuns == \A c \in PhysCpus : fw[c] = "pending" ~> at[c] = "guest"
=============================================================================
