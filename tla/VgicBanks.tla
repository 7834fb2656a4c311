----------------------------- MODULE VgicBanks ------------------------------
(***************************************************************************)
(* The interrupts of a VM and where the vgic keeps what it knows of them     *)
(* (src/vgic.c, include/vgic.h): PPIs in the struct vgic_cpu of each vCPU,   *)
(* SPIs in an array that is one page, vgic->spis.                            *)
(***************************************************************************)
EXTENDS Naturals

CONSTANTS NumVcpu,  \* vm->nvcpu
          NumPhys,  \* the CPUs, and so the redistributors, of the machine
          Dist,     \* the bank of the SPIs
          Lines,    \* ITLinesNumber in the GICD_TYPER of the machine
          Irqs      \* the PPIs and SPIs that the guest uses

\* A vCPU runs on the CPU of its number: switch_vcpu() panics otherwise.
Cpus == {c \in 0 .. NumVcpu : c < NumVcpu /\ c < NumPhys}
Banks == Cpus \cup {Dist}

\* gic_max_spi()
MaxSpi == IF 32 * (Lines + 1) - 1 < 1020 THEN 32 * (Lines + 1) - 1 ELSE 1019

\* GICD_TYPER as the guest reads it, from nspis = spi_max - 31
NumSpis == MaxSpi - 31
GuestLines == ((NumSpis + 32) \div 32) - 1

ASSUME VgicBanksAssumption ==
  /\ NumVcpu \in Nat /\ NumPhys \in Nat
  /\ Lines \in 1 .. 31
  /\ Dist \notin 0 .. NumVcpu
  /\ Irqs \subseteq 16 .. 32 * (GuestLines + 1) - 1

IsSpi(i) == i >= 32

\* vgic_get_irq(): the bank that holds interrupt i of vCPU v, and for an SPI
\* its place in vgic->spis.
VirtBank(v, i) == IF IsSpi(i) THEN Dist ELSE v
Slot(i) == i - 32

\* Mutant: the bits are a byte each.
SlotSizeWide == 4

\* sizeof(struct vgic_irq): two bytes and two bits
SlotSize == 3

\* kalloc() gives new_vgic() one page.
SpisSize == 4096

\* The place of interrupt i is in the page.
InSpis(i) == IsSpi(i) => (Slot(i) + 1) * SlotSize <= SpisSize
=============================================================================
