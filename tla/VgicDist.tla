------------------------------ MODULE VgicDist ------------------------------
(***************************************************************************)
(* Which interrupts are enabled: the enable registers of the distributor    *)
(* and redistributors that the guest sees (src/vgic.c) and those of the GIC *)
(* (src/gic.c).  A guest writes a set of bits; the handler goes through     *)
(* them in order, and for each one notes it in the vgic and then reads,     *)
(* changes and writes a register of the GIC.  The handlers take no lock, so *)
(* those of several CPUs interleave.                                        *)
(*                                                                          *)
(* The handler of GICD_ICENABLER(w) counts from GICD_ISENABLER(0): the      *)
(* interrupts that it works on are 1024 too high, and the register of the   *)
(* GIC that it reads and writes, GICD_ICENABLER(w + 32), is GICD_ISPENDR(w). *)
(*                                                                          *)
(* The driver of a CPU writes to the redistributor frame of that CPU.  How  *)
(* it finds the frame is not modelled.                                      *)
(*                                                                          *)
(* The registers of the GIC are external: one bits written to ISENABLER are *)
(* set, and it reads as the enables.  Its pending bits are not kept.        *)
(***************************************************************************)
EXTENDS VgicBanks

CONSTANT Clears     \* the SPIs that the guest also disables

ASSUME VgicDistAssumption == Clears \subseteq {i \in Irqs : i >= 32}

VARIABLES enabled,  \* enabled[b]: the interrupts of bank b with irq->enabled = 1
          hw,       \* hw[b]: those enabled in the GIC
          asked,    \* history: asked[b], those that the guest wants enabled
          at,       \* where CPU c is
          op,       \* op[c]: the register written, "set" or "clear"
          todo,     \* todo[c]: the bits of the write that are left
          seen      \* seen[c]: what the handler on c read from the GIC

vars == <<enabled, hw, asked, at, op, todo, seen>>
reqVars == <<asked, op>>

Word(i) == i \div 32

TypeOK ==
  /\ enabled \in [Banks -> SUBSET Irqs]
  /\ hw \in [Banks -> SUBSET Irqs]
  /\ asked \in [Banks -> SUBSET Irqs]
  /\ at \in [Cpus -> {"guest", "mark", "read", "write"}]
  /\ op \in [Cpus -> {"set", "clear"}]
  /\ todo \in [Cpus -> SUBSET Irqs]
  /\ seen \in [Cpus -> SUBSET Irqs]

\* new_vgic() and new_vgic_cpu(): no PPI and no SPI is enabled.
Init ==
  /\ enabled = [b \in Banks |-> {}]
  /\ hw = [b \in Banks |-> {}]
  /\ asked = [b \in Banks |-> {}]
  /\ at = [c \in Cpus |-> "guest"]
  /\ op = [c \in Cpus |-> "set"]
  /\ todo = [c \in Cpus |-> {}]
  /\ seen = [c \in Cpus |-> {}]

Goto(c, a) == at' = [at EXCEPT ![c] = a]

-----------------------------------------------------------------------------
(* The guest writes a register *)

\* The handler on c starts with the bits B of the write.
Accessed(c, o, B) ==
  /\ at[c] = "guest" /\ B # {}
  /\ asked' = [b \in Banks |->
       LET W == {i \in B : VirtBank(c, i) = b} IN
       IF o = "set" THEN asked[b] \cup W ELSE asked[b] \ W]
  /\ op' = [op EXCEPT ![c] = o]
  /\ todo' = [todo EXCEPT ![c] = B]
  /\ Goto(c, "mark")
  /\ UNCHANGED <<enabled, hw, seen>>

\* GICD_ISENABLER(w) and GICD_ICENABLER(w)
WriteDist(c, o, w) ==
  \E B \in SUBSET {i \in Irqs : Word(i) = w /\ (o = "clear" => i \in Clears)} :
    Accessed(c, o, B)

\* GICR_ISENABLER0 in the frame of c, that of vCPU c; GICR_ICENABLER0 does
\* nothing.
WriteRdist(c) ==
  \E B \in SUBSET {i \in Irqs : ~ IsSpi(i)} : Accessed(c, "set", B)

-----------------------------------------------------------------------------
(* The handlers, one interrupt after the other *)

\* The next bit of the loop on c.
NextBit(c, i) == i \in todo[c] /\ \A j \in todo[c] : i <= j

\* The interrupt that the handler takes bit i for.
Intid(c, i) == IF op[c] = "set" THEN i ELSE i + 1024

\* Mutant: always the redistributor of one CPU.
FirstRedist(c, i) == IF IsSpi(i) THEN Dist ELSE 0

\* vgic_irq_enable(): the redistributor is that of the CPU that runs this.
HwBank(c, i) == IF IsSpi(i) THEN Dist ELSE c

\* irq->enabled = 1, or 0
Mark(c, i) ==
  LET n == Intid(c, i)
      b == VirtBank(c, n) IN
  /\ at[c] = "mark" /\ NextBit(c, i)
  /\ enabled' = [enabled EXCEPT ![b] = IF op[c] = "set" THEN @ \cup {n} ELSE @ \ {n}]
  /\ Goto(c, "read")
  /\ UNCHANGED <<hw, reqVars, todo, seen>>

SameWord(i) == {j \in Irqs : Word(j) = Word(i)}

\* is = gicd_r(...), gicr_r32(...): the enables of the word, or its pending
\* bits, which may be any.
ReadHw(c, i) ==
  /\ at[c] = "read" /\ NextBit(c, i)
  /\ \E P \in SUBSET SameWord(i) :
       /\ op[c] = "set" => P = hw[HwBank(c, i)] \cap SameWord(i)
       /\ seen' = [seen EXCEPT ![c] = P]
  /\ Goto(c, "write")
  /\ UNCHANGED <<enabled, hw, reqVars, todo>>

\* is |= 1 << (irq % 32)
Value(c, i) == seen[c] \cup {i}

\* Mutant: the word becomes what is written, as in a register that has no
\* separate one to clear bits.
Replaced(c, i) ==
  IF op[c] = "set" THEN (hw[HwBank(c, i)] \ SameWord(i)) \cup Value(c, i) ELSE hw[HwBank(c, i)]

\* What the write leaves enabled in the bank: with ISENABLER the one bits are
\* added, with ISPENDR nothing changes.
Enables(c, i) ==
  IF op[c] = "set" THEN hw[HwBank(c, i)] \cup Value(c, i) ELSE hw[HwBank(c, i)]

\* gicd_w(...), gicr_w32(...), and on to the next bit, or back to the guest.
WriteHw(c, i) ==
  /\ at[c] = "write" /\ NextBit(c, i)
  /\ hw' = [hw EXCEPT ![HwBank(c, i)] = Enables(c, i)]
  /\ todo' = [todo EXCEPT ![c] = @ \ {i}]
  /\ Goto(c, IF todo[c] = {i} THEN "guest" ELSE "mark")
  /\ seen' = [seen EXCEPT ![c] = {}]
  /\ UNCHANGED <<enabled, reqVars>>

Bit(c) == \E i \in Irqs : Mark(c, i) \/ ReadHw(c, i) \/ WriteHw(c, i)

Access(c) ==
  \/ \E i \in Irqs, o \in {"set", "clear"} : WriteDist(c, o, Word(i))
  \/ WriteRdist(c)

Next == \E c \in Cpus : Access(c) \/ Bit(c)

Spec == Init /\ [][Next]_vars
-----------------------------------------------------------------------------
(* Properties *)

Wanted(v, i) == i \in asked[VirtBank(v, i)]

\* What a read of ISENABLER tells the guest of vCPU v (vgic.c:237-247, 437-447).
SaysEnabled(v, i) == i \in enabled[VirtBank(v, i)]
Enabled(v, i) == i \in hw[VirtBank(v, i)]

\* No handler is about to set or clear i of vCPU v.
Settled(v, i) == \A c \in Cpus : i \in todo[c] => VirtBank(c, i) # VirtBank(v, i)

\* An interrupt that the guest wants enabled is so in the GIC, and reads as
\* enabled: no bit is lost between the read and the write of the register
\* (gic.c:148-164), whatever the other CPUs set meanwhile.
EnablesKept == \A v \in Cpus, i \in Irqs :
  Wanted(v, i) /\ Settled(v, i) => Enabled(v, i) /\ SaysEnabled(v, i)

\* Of the interrupts that the guest never disables, only those that it wants
\* are enabled in the GIC or read as enabled: no write for one interrupt, or
\* of one vCPU, enables another's.
OnlyWanted == \A v \in Cpus, i \in Irqs \ Clears :
  Enabled(v, i) \/ SaysEnabled(v, i) => Wanted(v, i)

\* An interrupt that the guest has disabled with GICD_ICENABLER, which sets
\* "irq->enabled = 0" (vgic.c:356), is not enabled in the GIC.
Disables == \A v \in Cpus, i \in Clears :
  ~ Wanted(v, i) /\ Settled(v, i) => ~ Enabled(v, i)

\* Whatever a handler marks is in the page of vgic->spis (vgic.c:584), also the
\* interrupt 1024 further on that a write of GICD_ICENABLER marks.
StaysInSpis == \A c \in Cpus, i \in Irqs :
  at[c] = "mark" /\ NextBit(c, i) => InSpis(Intid(c, i))
=============================================================================
