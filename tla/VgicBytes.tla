----------------------------- MODULE VgicBytes ------------------------------
(***************************************************************************)
(* The registers of the distributor that hold a byte for each of four       *)
(* interrupts: GICD_IPRIORITYR, with GICR_IPRIORITYR in the frame of the    *)
(* CPU, and GICD_ITARGETSR (src/vgic.c).  A handler stores the bytes of the *)
(* word one after the other; the target of an SPI it also passes to         *)
(* gic_set_target() (src/gic.c), which reads the word of the GIC and writes *)
(* it back with that byte replaced.  No lock is taken.                      *)
(*                                                                          *)
(* GICD_ITARGETSR of the GIC is external: a register that keeps what is     *)
(* written (with affinity routing it keeps nothing, and route is unused).   *)
(***************************************************************************)
EXTENDS VgicBanks, Functions

CONSTANTS Fields,  \* the interrupts whose bytes are followed
          Bytes    \* the priorities or targets that the guest writes

ASSUME VgicBytesAssumption == Fields \subseteq Irqs /\ Bytes \subseteq Nat

VARIABLES field,  \* field[r][b][i]: irq->priority, irq->target of i in bank b
          route,  \* route[i]: the byte of i in GICD_ITARGETSR of the GIC
          may,    \* history: may[r][b][i], what the byte may be now
          step,   \* where the handler on CPU c is
          reg,    \* reg[c]: the register of its write, of which
          quad,   \* quad[c]: the word, and
          value,  \* value[c]: what the guest writes to it
          alone,  \* history: alone[c], no other write to the word since
          left,   \* left[c]: the bytes that are left
          arg,    \* arg[c]: the target that gic_set_target() is called with
          word    \* word[c]: what it has read from the GIC

place == <<reg, quad>>
handler == <<value, alone, left>>
byteVars == <<field, route, may, step, place, handler, arg, word>>

Regs == {"priority", "target"}
Quad(q) == {i \in Fields : i \div 4 = q}

\* new_vgic(): the page is zero; new_vgic_cpu(): a PPI's target is its vCPU.
InitByte(r, b, i) == IF r = "target" /\ b # Dist THEN 2^b ELSE 0

ByteInit ==
  /\ field = [r \in Regs |-> [b \in Banks |-> [i \in Fields |-> InitByte(r, b, i)]]]
  /\ route = [i \in Fields |-> 0]
  /\ may = [r \in Regs |-> [b \in Banks |-> [i \in Fields |-> {InitByte(r, b, i)}]]]
  /\ step = [c \in Cpus |-> "guest"]
  /\ reg = [c \in Cpus |-> "priority"]
  /\ quad = [c \in Cpus |-> 0]
  /\ value = [c \in Cpus |-> [i \in Fields |-> 0]]
  /\ alone = [c \in Cpus |-> TRUE]
  /\ left = [c \in Cpus |-> {}]
  /\ arg = [c \in Cpus |-> 0]
  /\ word = [c \in Cpus |-> [i \in Fields |-> 0]]

GoStep(c, s) == step' = [step EXCEPT ![c] = s]

\* The next byte of the loop on c.
NextByte(c, i) == i \in left[c] /\ \A j \in left[c] : i <= j

\* The bank of the word that the handler on c writes.
BankOf(c) == IF 4 * quad[c] >= 32 THEN Dist ELSE c

\* CPU d is in a write to word q of register r in bank b.
Writing(d, r, b, q) == step[d] # "guest" /\ reg[d] = r /\ quad[d] = q /\ BankOf(d) = b

-----------------------------------------------------------------------------
\* The guest writes word q of register r: the byte of an interrupt may be the
\* old or the new one until the write is over.
WriteWordOf(c, r, q) ==
  LET b == IF 4 * q >= 32 THEN Dist ELSE c
      Others == {d \in Cpus \ {c} : Writing(d, r, b, q)} IN
  /\ step[c] = "guest" /\ Quad(q) # {}
  /\ \E v \in [Quad(q) -> Bytes] :
       /\ value' = [value EXCEPT ![c] = [i \in Fields |-> IF i \in Quad(q) THEN v[i] ELSE 0]]
       /\ may' = [may EXCEPT ![r][b] =
            [i \in Fields |-> IF i \in Quad(q) THEN @[i] \cup {v[i]} ELSE @[i]]]
  /\ alone' = [d \in Cpus |-> IF d = c THEN Others = {} ELSE alone[d] /\ d \notin Others]
  /\ reg' = [reg EXCEPT ![c] = r]
  /\ quad' = [quad EXCEPT ![c] = q]
  /\ left' = [left EXCEPT ![c] = Quad(q)]
  /\ GoStep(c, "store")
  /\ UNCHANGED <<field, route, arg, word>>

\* The loop goes on, or the handler returns: a write that was alone has set
\* each byte to what was written.
Advance(c, i) ==
  LET b == BankOf(c) IN
  /\ left' = [left EXCEPT ![c] = @ \ {i}]
  /\ GoStep(c, IF left[c] = {i} THEN "guest" ELSE "store")
  /\ value' = IF left[c] = {i} THEN [value EXCEPT ![c] = [j \in Fields |-> 0]] ELSE value
  /\ alone' = IF left[c] = {i} THEN [alone EXCEPT ![c] = TRUE] ELSE alone
  /\ may' = IF left[c] = {i} /\ alone[c]
              THEN [may EXCEPT ![reg[c]][b] =
                      [j \in Fields |-> IF j \in Quad(quad[c]) THEN {value[c][j]} ELSE @[j]]]
              ELSE may

\* irq->priority = ..., or irq->target = ...; vgic_set_target() ignores PPIs.
Store(c, i) ==
  /\ step[c] = "store" /\ NextByte(c, i)
  /\ field' = [field EXCEPT ![reg[c]][BankOf(c)][i] = value[c][i]]
  /\ IF reg[c] = "target" /\ IsSpi(i)
       THEN GoStep(c, "call") /\ UNCHANGED <<may, handler>>
       ELSE Advance(c, i)
  /\ UNCHANGED <<route, place, arg, word>>

\* vgic_set_target(vcpu, intid+i, irq->target): the byte just stored, or what
\* is in memory by now.
Call(c, i) ==
  /\ step[c] = "call" /\ NextByte(c, i)
  /\ \E t \in {value[c][i], field["target"][Dist][i]} : arg' = [arg EXCEPT ![c] = t]
  /\ GoStep(c, "read")
  /\ UNCHANGED <<field, route, may, place, handler, word>>

\* itargetsr = gicd_r(GICD_ITARGETSR(irq / 4))
ReadWord(c, i) ==
  /\ step[c] = "read" /\ NextByte(c, i)
  /\ word' = [word EXCEPT ![c] =
       [j \in Fields |-> IF j \in Quad(quad[c]) THEN route[j] ELSE 0]]
  /\ GoStep(c, "write")
  /\ UNCHANGED <<field, route, may, place, handler, arg>>

\* Mutant: the byte of the lowest interrupt of the word, whatever irq % 4.
FirstByte(c, i) ==
  [word[c] EXCEPT ![CHOOSE j \in Quad(quad[c]) : \A k \in Quad(quad[c]) : j <= k] = arg[c]]

\* itargetsr with the byte of irq replaced
Replace(c, i) == [word[c] EXCEPT ![i] = arg[c]]

\* gicd_w(GICD_ITARGETSR(irq / 4), ...)
WriteWord(c, i) ==
  /\ step[c] = "write" /\ NextByte(c, i)
  /\ route' = [j \in Fields |-> IF j \in Quad(quad[c]) THEN Replace(c, i)[j] ELSE route[j]]
  /\ Advance(c, i)
  /\ arg' = [arg EXCEPT ![c] = 0]
  /\ word' = [word EXCEPT ![c] = [j \in Fields |-> 0]]
  /\ UNCHANGED <<field, place>>

ByteAccess(c) == \E r \in Regs, i \in Fields : WriteWordOf(c, r, i \div 4)
Byte(c) == \E i \in Fields : Store(c, i) \/ Call(c, i) \/ ReadWord(c, i) \/ WriteWord(c, i)

ByteNext == \E c \in Cpus : ByteAccess(c) \/ Byte(c)

ByteSpec == ByteInit /\ [][ByteNext]_byteVars
-----------------------------------------------------------------------------
(* Properties *)

\* What a read of the register tells the guest of vCPU v.
SaysByte(r, v, i) == field[r][VirtBank(v, i)][i]

\* A byte that the guest reads, and a target that the GIC has, is one that the
\* guest wrote: in the last write that had the word for itself, or since then.
\* Handlers that work on one word of the GIC at the same time (gic.c:184-186)
\* may undo each other's bytes, but invent none, leave the other words alone,
\* and the next write without a race puts everything right.
BytesKept ==
  /\ \A r \in Regs, v \in Cpus, i \in Fields : SaysByte(r, v, i) \in may[r][VirtBank(v, i)][i]
  /\ \A i \in Fields : IsSpi(i) => route[i] \in may["target"][Dist][i]
=============================================================================
