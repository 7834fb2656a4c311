------------------------------ MODULE VgicIrq -------------------------------
(***************************************************************************)
(* How a physical interrupt becomes a virtual one: vm_irq_handler() of      *)
(* src/trap.c with the list-register book-keeping of src/vgic.c and the CPU *)
(* interface of src/gic.c, on every CPU that runs a vCPU.                   *)
(*                                                                          *)
(* The GIC (states of physical interrupts, deactivation through a list      *)
(* register with its HW bit) and the guest are external.  EL2 runs with     *)
(* interrupts masked, so the handler takes two steps here: up to the read   *)
(* of ICC_IAR1, which races with the other CPUs and with the devices, and   *)
(* from that read on, where it touches only its own CPU's registers.        *)
(***************************************************************************)
EXTENDS Naturals, FiniteSets

CONSTANTS Cpus,      \* the CPUs, each with its own vCPU
          Irqs,      \* physical interrupts; a private one exists per CPU
          Targets,   \* Targets[i]: the CPUs that i may interrupt, the routing of the GIC
          Levels,    \* the interrupts that may go away before they are taken:
                     \* level-triggered, their device quieted from another CPU
          Sgis,      \* the interrupts that a guest raises through ICC_SGI1R
          NumLr,     \* gic_lr_max
          Spurious   \* the INTID 1023

ASSUME VgicIrqAssumption ==
  /\ Targets \in [Irqs -> SUBSET Cpus]
  /\ Levels \subseteq Irqs /\ Sgis \subseteq Irqs
  /\ NumLr \in Nat \ {0}
  /\ Spurious \notin Irqs

VARIABLES gic,       \* gic[i]: the state of physical interrupt i
          lrState,   \* lrState[c][n], lrIrq[c][n]: list register n of CPU c
          lrIrq,
          used,      \* used[c]: vgic_cpu->used_lr, as a set
          at,        \* where CPU c is: "off", "guest", "hyp", "panic"
          iar        \* iar[c]: what ICC_IAR1 last gave the handler on c

vars == <<gic, lrState, lrIrq, used, at, iar>>

Lrs == 0 .. NumLr - 1

TypeOK ==
  /\ gic \in [Irqs -> {"inactive", "pending", "active", "actpend"}]
  /\ lrState \in [Cpus -> [Lrs -> {"inactive", "pending", "active"}]]
  /\ lrIrq \in [Cpus -> [Lrs -> Irqs \cup {Spurious}]]
  /\ used \in [Cpus -> SUBSET Lrs]
  /\ at \in [Cpus -> {"off", "guest", "hyp", "panic"}]
  /\ iar \in [Cpus -> Irqs \cup {Spurious}]

\* The static vgic_cpus and vcpus are zero; no interrupt has been raised.
Init ==
  /\ gic = [i \in Irqs |-> "inactive"]
  /\ lrState = [c \in Cpus |-> [n \in Lrs |-> "inactive"]]
  /\ lrIrq = [c \in Cpus |-> [n \in Lrs |-> Spurious]]
  /\ used = [c \in Cpus |-> {}]
  /\ at = [c \in Cpus |-> "off"]
  /\ iar = [c \in Cpus |-> Spurious]

Goto(c, a) == at' = [at EXCEPT ![c] = a]

-----------------------------------------------------------------------------
(* The physical interrupts *)

Raised(s) == IF s = "inactive" THEN "pending" ELSE IF s = "active" THEN "actpend" ELSE s
Deactivated(s) == IF s = "actpend" THEN "pending" ELSE "inactive"
Active(i) == gic[i] \in {"active", "actpend"}

\* A device raises i.
Raise(i) ==
  /\ gic[i] \in {"inactive", "active"}
  /\ gic' = [gic EXCEPT ![i] = Raised(gic[i])]
  /\ UNCHANGED <<lrState, lrIrq, used, at, iar>>

\* A device stops asserting i.
Withdraw(i) ==
  /\ i \in Levels
  /\ gic[i] \in {"pending", "actpend"}
  /\ gic' = [gic EXCEPT ![i] = IF gic[i] = "pending" THEN "inactive" ELSE "active"]
  /\ UNCHANGED <<lrState, lrIrq, used, at, iar>>

\* What ICC_IAR1 can give CPU c.
Signalled(c) == {i \in Irqs : gic[i] = "pending" /\ c \in Targets[i]}

-----------------------------------------------------------------------------
(* mvmm *)

\* switch_vcpu(): gic_restore_state() writes the list registers saved in the
\* vCPU, which are zero, and the guest starts.
Enter(c) ==
  /\ at[c] = "off"
  /\ lrState' = [lrState EXCEPT ![c] = [n \in Lrs |-> "inactive"]]
  /\ lrIrq' = [lrIrq EXCEPT ![c] = [n \in Lrs |-> Spurious]]
  /\ Goto(c, "guest")
  /\ UNCHANGED <<gic, used, iar>>

\* Mutant: a pending register is taken for a free one.
NotActiveLrs(c) == {n \in Lrs : lrState[c][n] # "active"}

\* Mutant: registers are never given back.
NoLrs(c) == {}

\* The list registers that vgic_irq_enter() finds done.
InactiveLrs(c) == {n \in Lrs : lrState[c][n] = "inactive"}

\* An interrupt traps to vm_irq_handler(): vgic_irq_enter() gives back the
\* list registers "already handled by guest".
Trap(c) ==
  /\ at[c] = "guest"
  /\ Signalled(c) # {}
  /\ used' = [used EXCEPT ![c] = @ \ InactiveLrs(c)]
  /\ Goto(c, "hyp")
  /\ UNCHANGED <<gic, lrState, lrIrq, iar>>

FreeLrs(c) == Lrs \ used[c]

\* vgic_cpu_alloc_lr() takes the first register that is not marked used.
FirstFree(c, n) == \A m \in FreeLrs(c) : n <= m

\* gic_make_lr(): pending, with the HW bit and i as both INTIDs
MakeLr(i) == [state |-> "pending", irq |-> i]

\* gic_write_lr()
WriteLr(c, n, lr) ==
  /\ lrState' = [lrState EXCEPT ![c][n] = lr.state]
  /\ lrIrq' = [lrIrq EXCEPT ![c][n] = lr.irq]

\* vgic_inject_virq()
Inject(c, i) ==
  \/ /\ FreeLrs(c) = {}
     /\ Goto(c, "panic")
     /\ UNCHANGED <<lrState, lrIrq, used>>
  \/ \E n \in FreeLrs(c) :
       /\ FirstFree(c, n)
       /\ used' = [used EXCEPT ![c] = @ \cup {n}]
       /\ WriteLr(c, n, MakeLr(i))
       /\ Goto(c, "guest")

\* Mutant: gic_host_eoi(), which deactivates as well.
HostEoi == "inactive"

\* The state gic_guest_eoi() leaves: the priority drops, and no more.
GuestEoiState == "active"

\* The rest of vm_irq_handler(): ICC_IAR1 activates i, gic_guest_eoi() drops
\* the priority and leaves i active, and i is injected.
Forward(c, i) ==
  /\ at[c] = "hyp"
  /\ i \in Signalled(c)
  /\ gic' = [gic EXCEPT ![i] = GuestEoiState]
  /\ iar' = [iar EXCEPT ![c] = i]
  /\ Inject(c, i)

\* The same when no interrupt is left to acknowledge: 1023 is injected too.
ForwardSpurious(c) ==
  /\ at[c] = "hyp"
  /\ Signalled(c) = {}
  /\ iar' = [iar EXCEPT ![c] = Spurious]
  /\ Inject(c, Spurious)
  /\ UNCHANGED gic

\* A guest writes ICC_SGI1R: vgic_emulate_sgi1r() hands the value to the
\* physical register, which raises the SGI of every target.
SendSgi(c, S) ==
  /\ at[c] = "guest"
  /\ gic' = [i \in Irqs |-> IF i \in S THEN Raised(gic[i]) ELSE gic[i]]
  /\ UNCHANGED <<lrState, lrIrq, used, at, iar>>

-----------------------------------------------------------------------------
(* The guest, at the virtual CPU interface *)

\* It acknowledges the interrupt of register n; a special INTID makes the
\* register invalid at once.
GuestAck(c, n) ==
  /\ at[c] = "guest"
  /\ lrState[c][n] = "pending"
  /\ lrState' = [lrState EXCEPT
       ![c][n] = IF lrIrq[c][n] = Spurious THEN "inactive" ELSE "active"]
  /\ UNCHANGED <<gic, lrIrq, used, at, iar>>

\* It ends it: with the HW bit, the physical interrupt is deactivated.
GuestEoi(c, n) ==
  /\ at[c] = "guest"
  /\ lrState[c][n] = "active"
  /\ lrState' = [lrState EXCEPT ![c][n] = "inactive"]
  /\ gic' = [gic EXCEPT ![lrIrq[c][n]] = Deactivated(@)]
  /\ UNCHANGED <<lrIrq, used, at, iar>>

Handle(c) == (\E i \in Irqs : Forward(c, i)) \/ ForwardSpurious(c)

Next ==
  \/ \E i \in Irqs : Raise(i) \/ Withdraw(i)
  \/ \E c \in Cpus :
       \/ Enter(c) \/ Trap(c) \/ Handle(c)
       \/ \E S \in SUBSET Sgis : SendSgi(c, S)
       \/ \E n \in Lrs : GuestAck(c, n) \/ GuestEoi(c, n)

Spec == Init /\ [][Next]_vars

(***************************************************************************)
(* A CPU that runs the guest takes the interrupts signalled to it (HCR_EL2  *)
(* routes them to EL2 whatever the guest masks), and the handler runs on.   *)
(* Nothing makes the guest acknowledge or end an interrupt.                 *)
(***************************************************************************)
FairSpec == Spec /\ \A c \in Cpus : WF_vars(Trap(c)) /\ WF_vars(Handle(c))
-----------------------------------------------------------------------------
(* Properties *)

\* Register n of c holds an interrupt the guest has not ended.
InFlight(c, n) == lrState[c][n] # "inactive"

\* The book-keeping never frees a register that is in flight, so no
\* injection overwrites an interrupt the guest has not ended (vgic.c:50-73).
InFlightUsed == \A c \in Cpus, n \in Lrs : InFlight(c, n) => n \in used[c]

\* A physical interrupt is active exactly while one list register, of one
\* CPU, will deactivate it: it is never lost (active for ever, and so never
\* signalled again) and never deactivated under another CPU's hands.  Only a
\* panic ("no lr", vgic.c:114) leaves one active without a register.
Carries(c, n, i) == InFlight(c, n) /\ lrIrq[c][n] = i

OneCarrier == \A i \in Irqs, c, d \in Cpus, n, m \in Lrs :
  Carries(c, n, i) /\ Carries(d, m, i) => c = d /\ n = m

CarriedIsActive == \A i \in Irqs, c \in Cpus, n \in Lrs : Carries(c, n, i) => Active(i)

ActiveIsCarried == \A i \in Irqs : Active(i) =>
  \/ \E c \in Cpus, n \in Lrs : Carries(c, n, i)
  \/ \E c \in Cpus : at[c] = "panic" /\ iar[c] = i

ActiveCarried == OneCarrier /\ CarriedIsActive /\ ActiveIsCarried

\* The handler runs out of registers only when the guest really has an
\* unfinished interrupt in each of them.
PanicOnlyWhenFull == \A c \in Cpus : at[c] = "panic" => \A n \in Lrs : InFlight(c, n)

\* vgic.c:113-114: a register is free whenever one is needed.
NeverNoLr == \A c \in Cpus : at[c] # "panic"

\* Once nothing more is raised, every interrupt signalled to CPUs that run the
\* guest is taken, whatever the guest does with those it was given before.
Quiet == <>[][\A i \in Irqs : gic'[i] = Raised(gic[i]) => gic'[i] = gic[i]]_vars
Forwarded == Quiet => \A i \in Irqs :
  gic[i] = "pending" /\ (\A c \in Targets[i] : at[c] # "off") ~> gic[i] # "pending"

Given(i) == \E c \in Cpus, n \in Lrs : Carries(c, n, i)

\* An interrupt that a panic leaves active without a register is pending: the
\* guest has not been given it.
Line(i) ==
  IF Given(i)
    THEN IF \E c \in Cpus, n \in Lrs : Carries(c, n, i) /\ lrState[c][n] = "active"
           THEN "taken" ELSE "given"
    ELSE IF gic[i] = "inactive" THEN "idle" ELSE "pending"

\* Raised again while the guest has it.
Again(i) == gic[i] = "actpend" /\ Given(i)

Virt == INSTANCE VirtIrq WITH
  line <- [i \in Irqs |-> Line(i)],
  again <- [i \in Irqs |-> Again(i)]

\* Every interrupt is given to the guest once for each time it is signalled.
ImplementsVirtIrq == Virt!Spec
=============================================================================
