--------------------------- MODULE VgicRegsProofs ---------------------------
(***************************************************************************)
(* Proofs about the trapped registers of the GIC, for any number of CPUs,    *)
(* interrupts and values: the enable registers (VgicDist), the registers of  *)
(* bytes (VgicBytes), and the two together (VgicRegs).                       *)
(***************************************************************************)
EXTENDS VgicRegs, TLAPS

-----------------------------------------------------------------------------
(* The enable registers.  The invariant says what a handler in the middle of *)
(* its loop has done: which bits it has marked, and what it has read from    *)
(* the GIC.                                                                  *)

\* A write is to one word, clears only what the guest disables, and is done
\* when the handler returns.
OneWord == \A c \in Cpus :
  /\ at[c] = "guest" => todo[c] = {}
  /\ \A i, j \in todo[c] : Word(i) = Word(j)
  /\ op[c] = "clear" => todo[c] \subseteq Clears

\* What a handler that sets bits has read is enabled in the GIC.
SeenEnabled == \A c \in Cpus : \A i \in todo[c] :
  at[c] = "write" /\ op[c] = "set" => seen[c] \subseteq hw[HwBank(c, i)]

\* It has marked its bit.
Marked == \A c \in Cpus : \A i \in todo[c] :
  at[c] \in {"read", "write"} /\ NextBit(c, i) /\ op[c] = "set" => i \in enabled[HwBank(c, i)]

\* It sets what the guest wants, unless another write has disabled it since.
Setting == \A c \in Cpus : \A i \in todo[c] \ Clears :
  op[c] = "set" => i \in asked[HwBank(c, i)]

\* What is wanted, and not about to be set, has been set.
SetDone(v, i) == \A c \in Cpus : i \in todo[c] /\ op[c] = "set" => HwBank(c, i) # VirtBank(v, i)
Kept == \A v \in Cpus, i \in Irqs :
  Wanted(v, i) /\ SetDone(v, i) => Enabled(v, i) /\ SaysEnabled(v, i)

IInv == /\ TypeOK
        /\ OneWord
        /\ SeenEnabled /\ Marked /\ Setting
        /\ Kept /\ OnlyWanted
-----------------------------------------------------------------------------
\* Cpus are numbers, and Dist is none of them.
LEMMA CpusDist == Cpus \subseteq Nat /\ Dist \notin Cpus /\ 0 \in Nat
BY VgicBanksAssumption DEF Cpus

\* The interrupts of the guest are PPIs and SPIs.
LEMMA IrqRange ==
  /\ Irqs \subseteq 16 .. 1019
  /\ Lines <= 10 => Irqs \subseteq 16 .. 351
<1> DEFINE last == 32 * (GuestLines + 1) - 1
<1>1. MaxSpi \in 63 .. 1019 /\ (Lines <= 10 => MaxSpi <= 351)
  BY VgicBanksAssumption DEF MaxSpi
<1>2. last \in Nat /\ last <= 1019 /\ (Lines <= 10 => last <= 351)
  BY <1>1 DEF GuestLines, NumSpis
<1>3. Irqs \subseteq 16 .. last
  BY VgicBanksAssumption
<1> HIDE DEF last
<1>4. Irqs \subseteq 16 .. 1019
  BY <1>2, <1>3
<1>5. ASSUME Lines <= 10 PROVE Irqs \subseteq 16 .. 351
  BY <1>2, <1>3, <1>5
<1> QED BY <1>4, <1>5

\* Two interrupts of one word are in one bank.
LEMMA WordBank ==
  ASSUME NEW i \in Irqs, NEW j \in Irqs, Word(i) = Word(j)
  PROVE  IsSpi(i) <=> IsSpi(j)
BY IrqRange DEF Word, IsSpi

\* Word 0 is that of the private interrupts.
LEMMA WordZero ==
  ASSUME NEW i \in Irqs PROVE Word(i) = 0 <=> ~ IsSpi(i)
BY IrqRange DEF Word, IsSpi

LEMMA Banked ==
  ASSUME NEW c \in Cpus, NEW i \in Irqs
  PROVE  /\ HwBank(c, i) \in Banks
         /\ VirtBank(c, i) = HwBank(c, i)
BY DEF HwBank, VirtBank, Banks

\* The mark of a cleared bit is on an interrupt that does not exist.
LEMMA MarkedBank ==
  ASSUME TypeOK, NEW c \in Cpus, NEW i \in Irqs, Mark(c, i)
  PROVE  enabled' = IF op[c] = "set"
                      THEN [enabled EXCEPT ![VirtBank(c, i)] = @ \cup {i}]
                      ELSE enabled
<1>1. CASE op[c] = "set"
  BY <1>1 DEF Mark, Intid
<1>2. CASE op[c] # "set"
  <2>1. i + 1024 \notin Irqs /\ IsSpi(i + 1024)
    BY IrqRange DEF IsSpi
  <2>2. enabled' = [enabled EXCEPT ![Dist] = @ \ {i + 1024}]
    BY <1>2, <2>1 DEF Mark, Intid, VirtBank
  <2>3. enabled[Dist] \ {i + 1024} = enabled[Dist]
    BY <2>1 DEF TypeOK, Banks
  <2> QED BY <1>2, <2>2, <2>3 DEF TypeOK
<1> QED BY <1>1, <1>2

LEMMA InitInv == Init => IInv
BY VgicBanksAssumption, CpusDist DEF Init, IInv, TypeOK, OneWord, SeenEnabled, Marked, Setting, Kept,
  OnlyWanted, Wanted, Enabled, SaysEnabled, Banks, VirtBank
-----------------------------------------------------------------------------
LEMMA TypeStep == TypeOK /\ [Next]_vars => TypeOK'
<1> SUFFICES ASSUME TypeOK, [Next]_vars PROVE TypeOK'
  OBVIOUS
<1> USE DEF TypeOK
<1>0. ASSUME NEW c \in Cpus, NEW o \in {"set", "clear"}, NEW B \in SUBSET Irqs,
             Accessed(c, o, B)
      PROVE  TypeOK'
  <2>1. asked' \in [Banks -> SUBSET Irqs]
    BY <1>0 DEF Accessed
  <2> QED BY <1>0, <2>1 DEF Accessed, Goto
<1>1. ASSUME NEW c \in Cpus, NEW i \in Irqs, NEW o \in {"set", "clear"}, WriteDist(c, o, Word(i))
      PROVE  TypeOK'
  <2>1. PICK B \in SUBSET {j \in Irqs : Word(j) = Word(i) /\ (o = "clear" => j \in Clears)} :
               Accessed(c, o, B)
    BY <1>1 DEF WriteDist
  <2>2. B \in SUBSET Irqs
    OBVIOUS
  <2> QED BY <1>0, <2>1, <2>2
<1>2. ASSUME NEW c \in Cpus, WriteRdist(c) PROVE TypeOK'
  BY <1>0, <1>2 DEF WriteRdist
<1>3. ASSUME NEW c \in Cpus, NEW i \in Irqs, Mark(c, i) PROVE TypeOK'
  <2>2. enabled' \in [Banks -> SUBSET Irqs]
    BY <1>3, MarkedBank
  <2>3. at' = [at EXCEPT ![c] = "read"] /\ UNCHANGED <<hw, asked, op, todo, seen>>
    BY <1>3 DEF Mark, Goto, reqVars
  <2> QED BY <2>2, <2>3
<1>4. ASSUME NEW c \in Cpus, NEW i \in Irqs, ReadHw(c, i) PROVE TypeOK'
  BY <1>4 DEF ReadHw, Goto, reqVars, SameWord
<1>5. ASSUME NEW c \in Cpus, NEW i \in Irqs, WriteHw(c, i) PROVE TypeOK'
  <2>1. Enables(c, i) \subseteq Irqs
    BY DEF HwBank, Banks, Enables, Value
  <2> QED BY <1>5, <2>1 DEF WriteHw, Goto, reqVars
<1>6. CASE UNCHANGED vars
  BY <1>6 DEF vars
<1> QED BY <1>1, <1>2, <1>3, <1>4, <1>5, <1>6 DEF Next, Access, Bit

\* A handler starts: it adds bits to do, and nothing that it has read or marked.
LEMMA StartStep ==
  ASSUME IInv, TypeOK', NEW c \in Cpus, NEW o \in {"set", "clear"}, NEW w,
         NEW B \in SUBSET Irqs, \A i \in B : Word(i) = w,
         o = "clear" => B \subseteq Clears, Accessed(c, o, B)
  PROVE  IInv'
<1> USE DEF IInv, Accessed, Goto
<1>1. OneWord'
  BY DEF OneWord, TypeOK
<1>2. SeenEnabled'
  BY DEF SeenEnabled, TypeOK, HwBank
<1>3. Marked'
  BY DEF Marked, TypeOK, HwBank, NextBit
<1>4. Setting'
  BY DEF Setting, TypeOK, HwBank, VirtBank, Banks
<1>5. Kept'
  <2> SUFFICES ASSUME NEW v \in Cpus, NEW i \in Irqs, Wanted(v, i)', SetDone(v, i)'
               PROVE  Enabled(v, i) /\ SaysEnabled(v, i)
    BY DEF Kept, Enabled, SaysEnabled, VirtBank
  <2>1. VirtBank(v, i) \in Banks
    BY Banked
  <2>2. Wanted(v, i)
    BY <2>1 DEF Wanted, SetDone, VirtBank, HwBank, TypeOK
  <2>3. SetDone(v, i)
    BY DEF SetDone, TypeOK, HwBank, VirtBank, OneWord
  <2> QED BY <2>2, <2>3 DEF Kept
<1>6. OnlyWanted'
  BY DEF OnlyWanted, Enabled, SaysEnabled, Wanted, VirtBank, TypeOK, Banks
<1> QED BY <1>1, <1>2, <1>3, <1>4, <1>5, <1>6

\* A bit is marked.
LEMMA MarkStep ==
  ASSUME IInv, TypeOK', NEW c \in Cpus, NEW i \in Irqs, Mark(c, i)
  PROVE  IInv'
<1> USE DEF IInv, Goto, reqVars
<1>0. /\ VirtBank(c, i) = HwBank(c, i) /\ HwBank(c, i) \in Banks
      /\ i \in todo[c]
  BY Banked DEF Mark, NextBit
<1>1. /\ \A b \in Banks : enabled[b] \subseteq enabled'[b]
      /\ op[c] = "set" => i \in enabled'[HwBank(c, i)]
  BY <1>0, MarkedBank DEF TypeOK
<1>2. \A b \in Banks : \A k \in enabled'[b] :
        k \in enabled[b] \/ (k = i /\ b = HwBank(c, i) /\ op[c] = "set")
  BY <1>0, MarkedBank DEF TypeOK
<1> USE DEF Mark
<1>3. OneWord' /\ Setting'
  BY DEF OneWord, Setting, HwBank
<1>4. SeenEnabled'
  BY DEF SeenEnabled, TypeOK, HwBank
<1>5. Marked'
  <2> SUFFICES ASSUME NEW d \in Cpus, NEW j \in todo[d],
                      at'[d] \in {"read", "write"}, NextBit(d, j), op[d] = "set"
               PROVE  j \in enabled'[HwBank(d, j)]
    BY DEF Marked, NextBit, HwBank
  <2>1. CASE d = c
    <3>1. j = i
      BY <2>1, IrqRange DEF NextBit, TypeOK
    <3> QED BY <1>1, <2>1, <3>1
  <2>2. CASE d # c
    <3>1. j \in enabled[HwBank(d, j)]
      BY <2>2 DEF Marked, TypeOK
    <3>2. HwBank(d, j) \in Banks
      BY Banked DEF TypeOK
    <3> QED BY <1>1, <3>1, <3>2
  <2> QED BY <2>1, <2>2
<1>6. Kept'
  BY <1>1, Banked DEF Kept, Wanted, SetDone, Enabled, SaysEnabled, VirtBank, HwBank
<1>7. OnlyWanted'
  BY <1>0, <1>2, Banked DEF OnlyWanted, Wanted, Enabled, SaysEnabled, VirtBank, Setting, HwBank
<1> QED BY <1>3, <1>4, <1>5, <1>6, <1>7

\* The register is read.
LEMMA ReadStep ==
  ASSUME IInv, TypeOK', NEW c \in Cpus, NEW i \in Irqs, ReadHw(c, i)
  PROVE  IInv'
<1> USE DEF IInv, ReadHw, Goto, reqVars
<1>1. OneWord' /\ Setting'
  BY DEF OneWord, Setting, HwBank
<1>2. SeenEnabled'
  <2>1. \A j \in todo[c] : HwBank(c, j) = HwBank(c, i)
    BY WordBank DEF OneWord, NextBit, HwBank, TypeOK
  <2> QED BY <2>1 DEF SeenEnabled, TypeOK, HwBank
<1>3. Marked'
  BY DEF Marked, TypeOK, HwBank, NextBit
<1>4. Kept' /\ OnlyWanted'
  BY DEF Kept, OnlyWanted, Wanted, SetDone, Enabled, SaysEnabled, VirtBank, HwBank
<1> QED BY <1>1, <1>2, <1>3, <1>4

\* The register is written.
LEMMA WriteStep ==
  ASSUME IInv, TypeOK', NEW c \in Cpus, NEW i \in Irqs, WriteHw(c, i)
  PROVE  IInv'
<1> USE DEF IInv, WriteHw, Goto, reqVars
<1> DEFINE b == HwBank(c, i)
<1>0. b \in Banks /\ i \in todo[c]
  BY Banked DEF NextBit
<1>1. /\ \A d \in Banks : hw[d] \subseteq hw'[d]
      /\ op[c] = "set" => i \in hw'[b]
  BY <1>0 DEF Enables, Value, TypeOK
<1>2. \A d \in Banks : \A k \in hw'[d] : k \in hw[d] \/ (k = i /\ d = b /\ op[c] = "set")
  BY <1>0 DEF Enables, Value, SeenEnabled, TypeOK
<1>3. OneWord' /\ Setting'
  BY DEF OneWord, Setting, HwBank, TypeOK
<1>4. SeenEnabled'
  <2> SUFFICES ASSUME NEW d \in Cpus, NEW j \in todo'[d], at'[d] = "write", op'[d] = "set",
                      NEW k \in seen'[d]
               PROVE  k \in hw'[HwBank(d, j)]
    BY DEF SeenEnabled, HwBank
  <2>1. d # c /\ j \in todo[d] /\ k \in seen[d] /\ at[d] = "write" /\ op[d] = "set"
    BY DEF TypeOK
  <2>2. HwBank(d, j) \in Banks /\ k \in hw[HwBank(d, j)]
    BY <2>1, Banked DEF SeenEnabled, TypeOK
  <2> QED BY <1>1, <2>2
<1>5. Marked'
  BY DEF Marked, TypeOK, HwBank, NextBit
<1>6. Kept'
  <2> SUFFICES ASSUME NEW v \in Cpus, NEW k \in Irqs, Wanted(v, k), SetDone(v, k)'
               PROVE  k \in hw'[VirtBank(v, k)] /\ SaysEnabled(v, k)
    BY DEF Kept, Wanted, Enabled, SaysEnabled, VirtBank
  <2>1. VirtBank(v, k) \in Banks
    BY Banked
  <2>2. CASE SetDone(v, k)
    BY <1>1, <2>1, <2>2 DEF Kept, Enabled
  <2>3. CASE ~ SetDone(v, k)
    <3>1. PICK d \in Cpus : k \in todo[d] /\ op[d] = "set" /\ HwBank(d, k) = VirtBank(v, k)
      BY <2>3 DEF SetDone
    <3>2. d = c /\ k = i
      BY <3>1 DEF SetDone, VirtBank, HwBank, TypeOK
    <3> QED BY <1>0, <1>1, <3>1, <3>2 DEF Marked, SaysEnabled
  <2> QED BY <2>2, <2>3
<1>7. OnlyWanted'
  BY <1>0, <1>2, Banked DEF OnlyWanted, Wanted, Enabled, SaysEnabled, VirtBank, Setting, HwBank
<1> QED BY <1>3, <1>4, <1>5, <1>6, <1>7

LEMMA InvStep == IInv /\ [Next]_vars => IInv'
<1> SUFFICES ASSUME IInv, [Next]_vars PROVE IInv'
  OBVIOUS
<1>0. TypeOK'
  BY TypeStep DEF IInv
<1>1. ASSUME NEW c \in Cpus, NEW i \in Irqs, NEW o \in {"set", "clear"}, WriteDist(c, o, Word(i))
      PROVE  IInv'
  <2>1. PICK B \in SUBSET {j \in Irqs : Word(j) = Word(i) /\ (o = "clear" => j \in Clears)} :
               Accessed(c, o, B)
    BY <1>1 DEF WriteDist
  <2> QED BY <1>0, <2>1, StartStep
<1>2. ASSUME NEW c \in Cpus, WriteRdist(c) PROVE IInv'
  <2>1. PICK B \in SUBSET {i \in Irqs : ~ IsSpi(i)} : Accessed(c, "set", B)
    BY <1>2 DEF WriteRdist
  <2>2. \A i \in B : Word(i) = 0
    BY WordZero
  <2> QED BY <1>0, <2>1, <2>2, StartStep
<1>3. ASSUME NEW c \in Cpus, Bit(c) PROVE IInv'
  BY <1>0, <1>3, MarkStep, ReadStep, WriteStep DEF Bit
<1>4. CASE UNCHANGED vars
  BY <1>4 DEF vars, IInv, TypeOK, OneWord, SeenEnabled, Marked, Setting, NextBit, HwBank,
    Kept, OnlyWanted, Wanted, SetDone, Enabled, SaysEnabled, VirtBank
<1> QED BY <1>1, <1>2, <1>3, <1>4 DEF Next, Access

LEMMA Invariance == Spec => []IInv
BY InitInv, InvStep, PTL DEF Spec

\* The type invariant of VgicDist.
THEOREM TypeCorrect == Spec => []TypeOK
<1>1. Init => TypeOK
  BY InitInv DEF IInv
<1> QED BY <1>1, TypeStep, PTL DEF Spec

\* An interrupt that the guest wants enabled is so in the GIC and reads as
\* enabled: the unlocked reads and writes of the enable registers by several
\* CPUs (gic.c:148-164) lose no bit.
THEOREM EnableCorrect == Spec => []EnablesKept
<1>1. IInv => EnablesKept
  <2> SUFFICES ASSUME IInv, NEW v \in Cpus, NEW i \in Irqs, Wanted(v, i), Settled(v, i)
               PROVE  Enabled(v, i) /\ SaysEnabled(v, i)
    BY DEF EnablesKept
  <2>1. SetDone(v, i)
    BY Banked DEF SetDone, Settled, IInv
  <2> QED BY <2>1 DEF IInv, Kept
<1> QED BY <1>1, Invariance, PTL

\* Nothing is enabled, in the GIC or for the guest, that the guest did not ask
\* for, except for the interrupts that it disables.
THEOREM NoneBesides == Spec => []OnlyWanted
<1>1. IInv => OnlyWanted
  BY DEF IInv
<1> QED BY <1>1, Invariance, PTL

\* On a machine with up to 352 interrupts, the handlers stay in the page of
\* vgic->spis, also with the number that the handler of GICD_ICENABLER gets
\* wrong by 1024.
THEOREM SpisEnough == ASSUME Lines <= 10 PROVE Spec => []StaysInSpis
<1>1. TypeOK => StaysInSpis
  <2> SUFFICES ASSUME TypeOK, NEW c \in Cpus, NEW i \in Irqs PROVE InSpis(Intid(c, i))
    BY DEF StaysInSpis
  <2>1. i \in 16 .. 351
    BY IrqRange
  <2> QED BY <2>1 DEF InSpis, IsSpi, Slot, SlotSize, SpisSize, Intid
<1> QED BY <1>1, TypeCorrect, PTL

-----------------------------------------------------------------------------
(* The registers of bytes.  The invariant says what a handler in the middle  *)
(* of its loop holds: all of it is something that the byte may be, and in a  *)
(* write that has had the word for itself, exactly what is written.          *)

Vals == Bytes \cup {0} \cup {InitByte(r, b, i) : r \in Regs, b \in Banks, i \in Fields}

ByteTypeOK ==
  /\ field \in [Regs -> [Banks -> [Fields -> Vals]]]
  /\ route \in [Fields -> Vals]
  /\ may \in [Regs -> [Banks -> [Fields -> SUBSET Vals]]]
  /\ step \in [Cpus -> {"guest", "store", "call", "read", "write"}]
  /\ reg \in [Cpus -> Regs]
  /\ quad \in [Cpus -> Nat]
  /\ value \in [Cpus -> [Fields -> Vals]]
  /\ alone \in [Cpus -> BOOLEAN]
  /\ left \in [Cpus -> SUBSET Fields]
  /\ arg \in [Cpus -> Vals]
  /\ word \in [Cpus -> [Fields -> Vals]]

\* The bytes that are left are of the word, and gic_set_target() is at work for
\* an SPI only.
InWord == \A c \in Cpus :
  /\ step[c] = "guest" => left[c] = {}
  /\ left[c] \subseteq Quad(quad[c])
  /\ step[c] \in {"call", "read", "write"} => reg[c] = "target" /\ BankOf(c) = Dist

\* CPUs c and d write to the same word.
Rivals(c, d) ==
  /\ c # d /\ step[c] # "guest" /\ step[d] # "guest"
  /\ reg[c] = reg[d] /\ quad[c] = quad[d] /\ BankOf(c) = BankOf(d)

\* A byte may become what a handler is about to make it.
Written(c) == \A i \in Quad(quad[c]) :
  step[c] # "guest" => value[c][i] \in may[reg[c]][BankOf(c)][i]
Passed(c) == \A i \in left[c] :
  step[c] \in {"read", "write"} /\ NextByte(c, i) => arg[c] \in may["target"][Dist][i]
WordRead(c) == \A j \in Quad(quad[c]) :
  step[c] = "write" => word[c][j] \in may["target"][Dist][j]

\* A write that is alone on its word knows of no other, and what it has dealt
\* with is as written.
Alone == \A c, d \in Cpus : alone[c] => ~ Rivals(c, d)
Done(c) == \A j \in Quad(quad[c]) \ left[c] :
  step[c] # "guest" /\ alone[c] =>
    /\ field[reg[c]][BankOf(c)][j] = value[c][j]
    /\ reg[c] = "target" /\ IsSpi(j) => route[j] = value[c][j]
Doing(c) == \A i \in left[c] :
  alone[c] /\ NextByte(c, i) =>
    /\ step[c] \in {"call", "read", "write"} => field["target"][Dist][i] = value[c][i]
    /\ step[c] \in {"read", "write"} => arg[c] = value[c][i]
Fresh(c) == \A j \in Quad(quad[c]) :
  alone[c] /\ step[c] = "write" => word[c][j] = route[j]

\* BytesKept, for every bank.
AllKept ==
  /\ \A r \in Regs, b \in Banks, i \in Fields : field[r][b][i] \in may[r][b][i]
  /\ \A i \in Fields : IsSpi(i) => route[i] \in may["target"][Dist][i]

Holds(c) == Written(c) /\ Passed(c) /\ WordRead(c) /\ Done(c) /\ Doing(c) /\ Fresh(c)

ByteInv == /\ ByteTypeOK /\ InWord
           /\ \A c \in Cpus : Holds(c)
           /\ Alone /\ AllKept
-----------------------------------------------------------------------------
LEMMA NumbersDist == Cpus \subseteq Nat /\ Dist \notin Cpus
BY VgicBanksAssumption DEF Cpus

LEMMA FieldRange == Fields \subseteq Nat
<1>1. 32 * (GuestLines + 1) - 1 \in Nat
  <2>1. MaxSpi \in 63 .. 1019
    BY VgicBanksAssumption DEF MaxSpi
  <2> QED BY <2>1 DEF GuestLines, NumSpis
<1> QED BY <1>1, VgicBanksAssumption, VgicBytesAssumption

\* The four interrupts of a word are in one bank.
LEMMA QuadBank ==
  ASSUME NEW q \in Nat, NEW i \in Quad(q)
  PROVE  IsSpi(i) <=> 4 * q >= 32
BY FieldRange DEF Quad, IsSpi

\* The words have no interrupt in common.
LEMMA OneQuad ==
  ASSUME NEW p, NEW q, NEW i \in Quad(p), i \in Quad(q) PROVE p = q
BY DEF Quad

LEMMA OneNext ==
  ASSUME ByteTypeOK, NEW c \in Cpus, NEW i \in left[c], NEW j \in left[c],
         NextByte(c, i), NextByte(c, j)
  PROVE  i = j
BY FieldRange DEF NextByte, ByteTypeOK

LEMMA Bank ==
  ASSUME ByteTypeOK, NEW c \in Cpus
  PROVE  /\ BankOf(c) \in Banks
         /\ \A i \in Quad(quad[c]) : IsSpi(i) <=> BankOf(c) = Dist
BY QuadBank, NumbersDist DEF ByteTypeOK, BankOf, Banks

LEMMA ByteInitInv == ByteInit => ByteInv
<1> SUFFICES ASSUME ByteInit PROVE ByteInv
  OBVIOUS
<1>1. ByteTypeOK
  BY DEF ByteInit, ByteTypeOK, Vals, Regs
<1>2. InWord /\ Alone /\ \A c \in Cpus : Holds(c)
  BY DEF ByteInit, InWord, Holds, Written, Passed, WordRead, Alone, Rivals, Done, Doing, Fresh
<1>3. AllKept
  BY DEF ByteInit, AllKept, InitByte, Regs, Banks
<1> QED BY <1>1, <1>2, <1>3 DEF ByteInv
-----------------------------------------------------------------------------
\* What the end of a turn of the loop leaves.
Turned(c, i) ==
  /\ left' \in [Cpus -> SUBSET Fields]
  /\ step' \in [Cpus -> {"guest", "store", "call", "read", "write"}]
  /\ value' \in [Cpus -> [Fields -> Vals]] /\ alone' \in [Cpus -> BOOLEAN]
  /\ left'[c] = left[c] \ {i}
  /\ step'[c] = IF left[c] = {i} THEN "guest" ELSE "store"
  /\ left[c] # {i} => value'[c] = value[c] /\ alone'[c] = alone[c]
  /\ \A d \in Cpus \ {c} :
       left'[d] = left[d] /\ step'[d] = step[d] /\ value'[d] = value[d] /\ alone'[d] = alone[d]

\* The bytes that the end of a write settles.
Settles(c, i, r, b, j) ==
  left[c] = {i} /\ alone[c] /\ r = reg[c] /\ b = BankOf(c) /\ j \in Quad(quad[c])
MaySettled(c, i) ==
  /\ may' \in [Regs -> [Banks -> [Fields -> SUBSET Vals]]]
  /\ \A r \in Regs, b \in Banks, j \in Fields :
       /\ Settles(c, i, r, b, j) => may'[r][b][j] = {value[c][j]}
       /\ ~ Settles(c, i, r, b, j) => may'[r][b][j] = may[r][b][j]

LEMMA Advanced ==
  ASSUME ByteTypeOK, NEW c \in Cpus, NEW i \in left[c], Advance(c, i)
  PROVE  Turned(c, i) /\ MaySettled(c, i)
<1> USE DEF ByteTypeOK, Advance, GoStep
<1>1. BankOf(c) \in Banks /\ reg[c] \in Regs
  BY Bank
<1>2. 0 \in Vals
  BY DEF Vals
<1>3. /\ left' \in [Cpus -> SUBSET Fields] /\ step' \in [Cpus -> {"guest", "store", "call", "read", "write"}]
      /\ value' \in [Cpus -> [Fields -> Vals]] /\ alone' \in [Cpus -> BOOLEAN]
  BY <1>2
<1>4. /\ left'[c] = left[c] \ {i}
      /\ step'[c] = IF left[c] = {i} THEN "guest" ELSE "store"
      /\ left[c] # {i} => value'[c] = value[c] /\ alone'[c] = alone[c]
      /\ \A d \in Cpus \ {c} :
           left'[d] = left[d] /\ step'[d] = step[d] /\ value'[d] = value[d] /\ alone'[d] = alone[d]
  OBVIOUS
<1>5. MaySettled(c, i)
  <2>1. CASE left[c] = {i} /\ alone[c]
    <3> DEFINE row == [j \in Fields |-> IF j \in Quad(quad[c]) THEN {value[c][j]}
                                        ELSE may[reg[c]][BankOf(c)][j]]
    <3>1. may' = [may EXCEPT ![reg[c]][BankOf(c)] = row]
      BY <2>1
    <3>2. row \in [Fields -> SUBSET Vals]
      BY <1>1
    <3> QED BY <1>1, <2>1, <3>1, <3>2 DEF MaySettled, Settles
  <2>2. CASE ~ (left[c] = {i} /\ alone[c])
    BY <2>2 DEF MaySettled, Settles
  <2> QED BY <2>1, <2>2
<1> QED BY <1>3, <1>4, <1>5 DEF Turned

\* A handler starts.
LEMMA WriteWordOfStep ==
  ASSUME ByteInv, NEW c \in Cpus, NEW r \in Regs, NEW q \in Nat, WriteWordOf(c, r, q)
  PROVE  ByteInv'
<1> DEFINE b == IF 4 * q >= 32 THEN Dist ELSE c
           Others == {d \in Cpus \ {c} : Writing(d, r, b, q)}
<1> USE DEF ByteInv
<1>1. PICK v \in [Quad(q) -> Bytes] :
        /\ value' = [value EXCEPT ![c] = [i \in Fields |-> IF i \in Quad(q) THEN v[i] ELSE 0]]
        /\ may' = [may EXCEPT ![r][b] =
             [i \in Fields |-> IF i \in Quad(q) THEN may[r][b][i] \cup {v[i]} ELSE may[r][b][i]]]
  BY DEF WriteWordOf
<1>2. /\ step[c] = "guest" /\ UNCHANGED <<field, route, arg, word>>
      /\ alone' = [d \in Cpus |-> IF d = c THEN Others = {} ELSE alone[d] /\ d \notin Others]
      /\ reg' = [reg EXCEPT ![c] = r] /\ quad' = [quad EXCEPT ![c] = q]
      /\ left' = [left EXCEPT ![c] = Quad(q)] /\ step' = [step EXCEPT ![c] = "store"]
  BY DEF WriteWordOf, GoStep
<1>3. b \in Banks /\ Quad(q) \subseteq Fields /\ Bytes \subseteq Vals /\ 0 \in Vals
  BY DEF Banks, Quad, Vals
<1>4. value' \in [Cpus -> [Fields -> Vals]]
  BY <1>1, <1>3 DEF ByteTypeOK
<1>5. /\ may' \in [Regs -> [Banks -> [Fields -> SUBSET Vals]]]
      /\ \A s \in Regs, a \in Banks, j \in Fields : may[s][a][j] \subseteq may'[s][a][j]
      /\ \A j \in Quad(q) : v[j] \in may'[r][b][j]
  <2> DEFINE row == [i \in Fields |-> IF i \in Quad(q) THEN may[r][b][i] \cup {v[i]} ELSE may[r][b][i]]
  <2>1. row \in [Fields -> SUBSET Vals]
    BY <1>3 DEF ByteTypeOK
  <2>2. may' = [may EXCEPT ![r][b] = row]
    BY <1>1
  <2>3. \A j \in Fields : may[r][b][j] \subseteq row[j] /\ (j \in Quad(q) => v[j] \in row[j])
    OBVIOUS
  <2> HIDE DEF row
  <2> QED BY <1>3, <2>1, <2>2, <2>3 DEF ByteTypeOK
<1>6. ByteTypeOK'
  BY <1>2, <1>3, <1>4, <1>5 DEF ByteTypeOK
<1>7. /\ BankOf(c)' = b
      /\ \A d \in Cpus \ {c} : /\ BankOf(d)' = BankOf(d) /\ quad'[d] = quad[d] /\ reg'[d] = reg[d]
                               /\ step'[d] = step[d] /\ left'[d] = left[d] /\ value'[d] = value[d]
                               /\ alone'[d] => alone[d] /\ d \notin Others
  BY <1>1, <1>2 DEF BankOf, ByteTypeOK
<1>8. /\ step'[c] = "store" /\ left'[c] = Quad(q) /\ quad'[c] = q /\ reg'[c] = r
      /\ \A j \in Quad(q) : value'[c][j] = v[j]
  BY <1>1, <1>2, <1>3 DEF ByteTypeOK
<1>9. InWord'
  BY <1>7, <1>8 DEF InWord
<1>10. \A d \in Cpus : Written(d)'
  <2> SUFFICES ASSUME NEW d \in Cpus, NEW i \in Quad(quad'[d]), step'[d] # "guest"
               PROVE  value'[d][i] \in may'[reg'[d]][BankOf(d)'][i]
    BY DEF Written, Quad
  <2>1. CASE d = c
    BY <1>5, <1>7, <1>8, <2>1
  <2>2. CASE d # c
    <3>1. value[d][i] \in may[reg[d]][BankOf(d)][i] /\ i \in Fields
      BY <1>7, <2>2 DEF Holds, Written, Quad
    <3>2. reg[d] \in Regs /\ BankOf(d) \in Banks
      BY Bank DEF ByteTypeOK
    <3> QED BY <1>5, <1>7, <2>2, <3>1, <3>2
  <2> QED BY <2>1, <2>2
<1>11. "target" \in Regs /\ Dist \in Banks
  BY DEF Regs, Banks
<1>12. \A d \in Cpus : Passed(d)' /\ WordRead(d)'
  BY <1>2, <1>5, <1>7, <1>8, <1>11 DEF Holds, Passed, WordRead, NextByte, Quad, ByteTypeOK
<1>13. Alone'
  <2> SUFFICES ASSUME NEW d \in Cpus, NEW e \in Cpus, alone'[d], Rivals(d, e)' PROVE FALSE
    BY DEF Alone
  <2>1. alone'[c] => Others = {}
    BY <1>2
  <2>2. CASE d = c
    BY <1>7, <1>8, <2>1, <2>2 DEF Rivals, Writing
  <2>3. CASE e = c
    BY <1>7, <1>8, <2>3 DEF Rivals, Writing
  <2>4. CASE d # c /\ e # c
    BY <1>7, <2>4 DEF Rivals, Alone
  <2> QED BY <2>2, <2>3, <2>4
<1>14. \A d \in Cpus : Done(d)' /\ Doing(d)' /\ Fresh(d)'
  BY <1>2, <1>7, <1>8 DEF Holds, Done, Doing, Fresh, NextByte, Quad, IsSpi
<1>15. AllKept'
  BY <1>2, <1>5, <1>11 DEF AllKept
<1> QED BY <1>6, <1>9, <1>10, <1>12, <1>13, <1>14, <1>15 DEF Holds

\* A handler that goes on in its word, and settles what its bytes may be only
\* when it is alone, does not disturb those of other CPUs.
OthersSame(c) == \A d \in Cpus \ {c} :
  /\ left'[d] = left[d] /\ step'[d] = step[d] /\ value'[d] = value[d]
  /\ alone'[d] = alone[d] /\ arg'[d] = arg[d] /\ word'[d] = word[d]
InOwnWord(c, r, b, j) == r = reg[c] /\ b = BankOf(c) /\ j \in Quad(quad[c])
OwnField(c) == \A r \in Regs, b \in Banks, j \in Fields :
  ~ InOwnWord(c, r, b, j) => field'[r][b][j] = field[r][b][j]
OwnMay(c) == \A r \in Regs, b \in Banks, j \in Fields :
  ~ (alone[c] /\ InOwnWord(c, r, b, j)) => may'[r][b][j] = may[r][b][j]
OwnRoute(c) == \A j \in Fields :
  ~ InOwnWord(c, "target", Dist, j) => route'[j] = route[j]

LEMMA Elsewhere ==
  ASSUME ByteInv, NEW c \in Cpus, step[c] # "guest", UNCHANGED <<reg, quad>>,
         OthersSame(c), OwnField(c), OwnMay(c), OwnRoute(c)
  PROVE  \A d \in Cpus \ {c} : Holds(d)'
<1> SUFFICES ASSUME NEW d \in Cpus \ {c} PROVE Holds(d)'
  OBVIOUS
<1> DEFINE r == reg[d]
           b == BankOf(d)
           Q == Quad(quad[d])
<1> USE DEF ByteInv, OthersSame
<1>1. /\ r \in Regs /\ b \in Banks /\ Q \subseteq Fields /\ left[d] \subseteq Q
      /\ "target" \in Regs /\ Dist \in Banks
      /\ BankOf(d)' = b /\ Quad(quad[d])' = Q /\ reg'[d] = r
      /\ step[d] \in {"call", "read", "write"} => r = "target" /\ b = Dist
      /\ step[d] = "guest" => left[d] = {}
  BY Bank DEF ByteTypeOK, Quad, Regs, Banks, InWord, BankOf
<1>2. ASSUME NEW j \in Q, quad[c] # quad[d] PROVE j \notin Quad(quad[c])
  BY <1>2, OneQuad
<1>3. ASSUME NEW j \in Q, step[d] # "guest" PROVE may'[r][b][j] = may[r][b][j]
  BY <1>1, <1>2, <1>3 DEF Alone, Rivals, OwnMay, InOwnWord
<1>4. ASSUME NEW j \in Q, step[d] # "guest", alone[d]
      PROVE  /\ field'[r][b][j] = field[r][b][j]
             /\ r = "target" /\ IsSpi(j) => route'[j] = route[j]
  <2>1. ~ Rivals(c, d) /\ ~ Rivals(d, c)
    BY <1>4 DEF Alone, Rivals
  <2>2. IsSpi(j) <=> b = Dist
    BY Bank
  <2> QED BY <1>1, <1>2, <1>4, <2>1, <2>2 DEF Rivals, OwnField, OwnRoute, InOwnWord
<1>5. Written(d)'
  BY <1>1, <1>3 DEF Holds, Written
<1>6. Passed(d)' /\ WordRead(d)'
  BY <1>1, <1>3 DEF Holds, Passed, WordRead, NextByte
<1>7. Done(d)'
  BY <1>1, <1>4 DEF Holds, Done, IsSpi
<1>8. Doing(d)'
  BY <1>1, <1>4 DEF Holds, Doing, NextByte
<1>9. Fresh(d)'
  <2>1. b = Dist => \A j \in Q : IsSpi(j)
    BY Bank
  <2> QED BY <1>1, <1>4, <2>1 DEF Holds, Fresh
<1> QED BY <1>5, <1>6, <1>7, <1>8, <1>9 DEF Holds

LEMMA TurnedInWord ==
  ASSUME ByteInv, NEW c \in Cpus, NEW i \in left[c], step[c] # "guest", Turned(c, i),
         UNCHANGED <<reg, quad>>
  PROVE  InWord' /\ Alone'
<1> USE DEF ByteInv
<1>1. \A d \in Cpus : BankOf(d)' = BankOf(d) /\ reg'[d] = reg[d] /\ quad'[d] = quad[d]
  BY DEF BankOf
<1>2. \A d \in Cpus : /\ step'[d] # "guest" => step[d] # "guest"
                      /\ alone'[d] /\ step'[d] # "guest" => alone[d]
  BY DEF Turned
<1>3. InWord'
  <2> SUFFICES ASSUME NEW d \in Cpus
               PROVE  /\ step'[d] = "guest" => left'[d] = {}
                      /\ left'[d] \subseteq Quad(quad[d])
                      /\ step'[d] \in {"call", "read", "write"} => reg[d] = "target" /\ BankOf(d) = Dist
    BY <1>1 DEF InWord, Quad
  <2>1. CASE d = c
    BY <2>1 DEF Turned, InWord
  <2>2. CASE d # c
    BY <2>2 DEF Turned, InWord
  <2> QED BY <2>1, <2>2
<1>4. Alone'
  BY <1>1, <1>2 DEF Alone, Rivals
<1> QED BY <1>3, <1>4

LEMMA CallStep ==
  ASSUME ByteInv, NEW c \in Cpus, NEW i \in Fields, Call(c, i)
  PROVE  ByteInv'
<1> USE DEF ByteInv
<1>1. /\ step[c] = "call" /\ NextByte(c, i) /\ i \in left[c] /\ i \in Quad(quad[c])
      /\ UNCHANGED <<field, route, may, reg, quad, value, alone, left, word>>
      /\ step' = [step EXCEPT ![c] = "read"]
      /\ reg[c] = "target" /\ BankOf(c) = Dist /\ "target" \in Regs /\ Dist \in Banks
  BY DEF Call, GoStep, NextByte, InWord, place, handler, Regs, Banks
<1>2. PICK t \in {value[c][i], field["target"][Dist][i]} : arg' = [arg EXCEPT ![c] = t]
  BY DEF Call
<1>3. /\ t \in Vals /\ t \in may["target"][Dist][i]
      /\ alone[c] => t = value[c][i]
  <2>1. value[c][i] \in may["target"][Dist][i] /\ field["target"][Dist][i] \in may["target"][Dist][i]
    BY <1>1 DEF Holds, Written, AllKept
  <2>2. value[c][i] \in Vals /\ field["target"][Dist][i] \in Vals
    BY <1>1 DEF ByteTypeOK
  <2>3. alone[c] => field["target"][Dist][i] = value[c][i]
    BY <1>1 DEF Holds, Doing
  <2> QED BY <2>1, <2>2, <2>3
<1>4. ByteTypeOK'
  BY <1>1, <1>2, <1>3 DEF ByteTypeOK
<1>5. \A d \in Cpus \ {c} : Holds(d)'
  <2>1. OthersSame(c) /\ OwnField(c) /\ OwnMay(c) /\ OwnRoute(c)
    BY <1>1, <1>2 DEF OthersSame, OwnField, OwnMay, OwnRoute, ByteTypeOK
  <2> QED BY <1>1, <2>1, Elsewhere
<1>6. BankOf(c)' = BankOf(c) /\ arg'[c] = t /\ step'[c] = "read"
  BY <1>1, <1>2 DEF BankOf, ByteTypeOK
<1>7. \A j \in left[c] : NextByte(c, j) => j = i
  BY <1>1, OneNext
<1>8. Holds(c)'
  BY <1>1, <1>3, <1>6, <1>7 DEF Holds, Written, Passed, WordRead, Done, Doing, Fresh, NextByte, IsSpi
<1>9. InWord' /\ Alone' /\ AllKept'
  BY <1>1, <1>6 DEF InWord, Alone, Rivals, AllKept, BankOf, ByteTypeOK
<1> QED BY <1>4, <1>5, <1>8, <1>9

LEMMA ReadWordStep ==
  ASSUME ByteInv, NEW c \in Cpus, NEW i \in Fields, ReadWord(c, i)
  PROVE  ByteInv'
<1> DEFINE row == [j \in Fields |-> IF j \in Quad(quad[c]) THEN route[j] ELSE 0]
<1> USE DEF ByteInv
<1>1. /\ step[c] = "read" /\ NextByte(c, i) /\ i \in left[c] /\ i \in Quad(quad[c])
      /\ UNCHANGED <<field, route, may, reg, quad, value, alone, left, arg>>
      /\ step' = [step EXCEPT ![c] = "write"] /\ word' = [word EXCEPT ![c] = row]
      /\ reg[c] = "target" /\ BankOf(c) = Dist
  BY DEF ReadWord, GoStep, NextByte, InWord, place, handler
<1>2. 0 \in Vals /\ Quad(quad[c]) \subseteq Fields
  BY DEF Vals, Quad
<1>3. ByteTypeOK'
  BY <1>1, <1>2 DEF ByteTypeOK
<1>4. \A d \in Cpus \ {c} : Holds(d)'
  <2>1. OthersSame(c) /\ OwnField(c) /\ OwnMay(c) /\ OwnRoute(c)
    BY <1>1 DEF OthersSame, OwnField, OwnMay, OwnRoute, ByteTypeOK
  <2> QED BY <1>1, <2>1, Elsewhere
<1>5. /\ BankOf(c)' = BankOf(c) /\ step'[c] = "write"
      /\ \A j \in Quad(quad[c]) : word'[c][j] = route[j] /\ route[j] \in may["target"][Dist][j]
  <2>1. \A j \in Quad(quad[c]) : IsSpi(j)
    BY <1>1, Bank
  <2> QED BY <1>1, <1>2, <2>1 DEF BankOf, ByteTypeOK, AllKept
<1>6. Holds(c)'
  BY <1>1, <1>5 DEF Holds, Written, Passed, WordRead, Done, Doing, Fresh, NextByte, IsSpi, Quad
<1>7. InWord' /\ Alone' /\ AllKept'
  BY <1>1, <1>5 DEF InWord, Alone, Rivals, AllKept, BankOf, ByteTypeOK
<1> QED BY <1>3, <1>4, <1>6, <1>7

\* A byte of the vgic is stored.
LEMMA StoreStep ==
  ASSUME ByteInv, NEW c \in Cpus, NEW i \in Fields, Store(c, i)
  PROVE  ByteInv'
<1> DEFINE r == reg[c]
           b == BankOf(c)
           Q == Quad(quad[c])
<1> USE DEF ByteInv
<1>1. /\ step[c] = "store" /\ NextByte(c, i) /\ i \in left[c] /\ i \in Q /\ left[c] \subseteq Q
      /\ field' = [field EXCEPT ![r][b][i] = value[c][i]]
      /\ UNCHANGED <<route, reg, quad, arg, word>>
      /\ r \in Regs /\ b \in Banks /\ Q \subseteq Fields
      /\ IsSpi(i) <=> b = Dist
  BY Bank DEF Store, NextByte, InWord, place, ByteTypeOK, Quad
<1>2. /\ field' \in [Regs -> [Banks -> [Fields -> Vals]]]
      /\ \A s \in Regs, a \in Banks, j \in Fields :
           field'[s][a][j] = IF s = r /\ a = b /\ j = i THEN value[c][i] ELSE field[s][a][j]
  BY <1>1 DEF ByteTypeOK
<1>3. value[c][i] \in may[r][b][i] /\ BankOf(c)' = b /\ \A d \in Cpus : BankOf(d)' = BankOf(d)
  BY <1>1 DEF Holds, Written, BankOf
<1>4. \A j \in left[c] : NextByte(c, j) => j = i
  BY <1>1, OneNext
<1>5. CASE r = "target" /\ IsSpi(i)
  <2>1. step' = [step EXCEPT ![c] = "call"] /\ UNCHANGED <<may, value, alone, left>>
    BY <1>5 DEF Store, GoStep, handler
  <2>2. ByteTypeOK'
    BY <1>1, <1>2, <2>1 DEF ByteTypeOK
  <2>3. \A d \in Cpus \ {c} : Holds(d)'
    <3>1. OthersSame(c) /\ OwnMay(c) /\ OwnRoute(c)
      BY <1>1, <2>1 DEF OthersSame, OwnMay, OwnRoute, ByteTypeOK
    <3>2. OwnField(c)
      BY <1>1, <1>2 DEF OwnField, InOwnWord
    <3> QED BY <1>1, <3>1, <3>2, Elsewhere
  <2>4. step'[c] = "call"
    BY <2>1 DEF ByteTypeOK
  <2>5. Holds(c)'
    BY <1>1, <1>2, <1>3, <1>4, <1>5, <2>1, <2>4
       DEF Holds, Written, Passed, WordRead, Done, Doing, Fresh, NextByte, IsSpi
  <2>6. InWord' /\ Alone' /\ AllKept'
    BY <1>1, <1>2, <1>3, <1>5, <2>1 DEF InWord, Alone, Rivals, AllKept, ByteTypeOK
  <2> QED BY <2>2, <2>3, <2>5, <2>6
<1>6. CASE ~ (r = "target" /\ IsSpi(i))
  <2>1. Turned(c, i) /\ MaySettled(c, i)
    BY <1>1, <1>6, Advanced DEF Store
  <2>2. ByteTypeOK'
    BY <1>1, <1>2, <2>1 DEF ByteTypeOK, Turned, MaySettled
  <2>3. \A d \in Cpus \ {c} : Holds(d)'
    <3>1. OthersSame(c) /\ OwnRoute(c)
      BY <1>1, <2>1 DEF OthersSame, OwnRoute, Turned
    <3>2. OwnField(c) /\ OwnMay(c)
      BY <1>1, <1>2, <2>1 DEF OwnField, OwnMay, InOwnWord, MaySettled, Settles
    <3> QED BY <1>1, <3>1, <3>2, Elsewhere
  <2>4. InWord' /\ Alone'
    BY <1>1, <1>3, <2>1, TurnedInWord
  <2>5. ASSUME NEW j \in Q \ (left[c] \ {i}), alone[c]
        PROVE  field'[r][b][j] = value[c][j] /\ ~ (r = "target" /\ IsSpi(j))
    <3>1. IsSpi(j) <=> IsSpi(i)
      BY <1>1, Bank
    <3> QED BY <1>1, <1>2, <1>6, <2>5, <3>1 DEF Holds, Done
  <2>6. Holds(c)'
    <3>1. CASE left[c] = {i}
      BY <1>1, <2>1, <3>1 DEF Turned, Holds, Written, Passed, WordRead, Done, Doing, Fresh
    <3>2. CASE left[c] # {i}
      <4>1. /\ step'[c] = "store" /\ left'[c] = left[c] \ {i}
            /\ value'[c] = value[c] /\ alone'[c] = alone[c]
            /\ \A j \in Q : may'[r][b][j] = may[r][b][j]
        BY <1>1, <2>1, <3>2 DEF Turned, MaySettled, Settles
      <4>2. Written(c)' /\ Done(c)'
        BY <1>1, <1>3, <2>5, <4>1 DEF Holds, Written, Done, IsSpi
      <4> QED BY <4>1, <4>2 DEF Holds, Passed, WordRead, Doing, Fresh
    <3> QED BY <3>1, <3>2
  <2>7. AllKept'
    <3>1. ASSUME NEW s \in Regs, NEW a \in Banks, NEW j \in Fields
          PROVE  field'[s][a][j] \in may'[s][a][j]
      <4>1. CASE Settles(c, i, s, a, j)
        BY <2>1, <2>5, <4>1 DEF MaySettled, Settles
      <4>2. CASE ~ Settles(c, i, s, a, j)
        BY <1>2, <1>3, <2>1, <4>2 DEF MaySettled, AllKept
      <4> QED BY <4>1, <4>2
    <3>2. ASSUME NEW j \in Fields, IsSpi(j) PROVE route'[j] \in may'["target"][Dist][j]
      <4>1. ~ Settles(c, i, "target", Dist, j) /\ "target" \in Regs /\ Dist \in Banks
        BY <1>1, <1>6 DEF Settles, Regs, Banks
      <4>2. may'["target"][Dist][j] = may["target"][Dist][j]
        BY <2>1, <4>1 DEF MaySettled
      <4> QED BY <1>1, <3>2, <4>2 DEF AllKept
    <3> QED BY <3>1, <3>2 DEF AllKept
  <2> QED BY <2>2, <2>3, <2>4, <2>6, <2>7
<1> QED BY <1>5, <1>6

\* The word of the GIC is written.
LEMMA WriteWordStep ==
  ASSUME ByteInv, NEW c \in Cpus, NEW i \in Fields, WriteWord(c, i)
  PROVE  ByteInv'
<1> DEFINE Q == Quad(quad[c])
<1> USE DEF ByteInv
<1>1. /\ step[c] = "write" /\ NextByte(c, i) /\ i \in left[c] /\ i \in Q /\ left[c] \subseteq Q
      /\ route' = [j \in Fields |-> IF j \in Q THEN Replace(c, i)[j] ELSE route[j]]
      /\ Advance(c, i)
      /\ arg' = [arg EXCEPT ![c] = 0] /\ word' = [word EXCEPT ![c] = [j \in Fields |-> 0]]
      /\ UNCHANGED <<field, reg, quad>>
      /\ reg[c] = "target" /\ BankOf(c) = Dist /\ Q \subseteq Fields /\ 0 \in Vals
      /\ "target" \in Regs /\ Dist \in Banks
  BY DEF WriteWord, NextByte, InWord, place, Quad, Vals, Regs, Banks
<1>2. /\ route' \in [Fields -> Vals]
      /\ \A j \in Fields : route'[j] = IF j \notin Q THEN route[j]
                                       ELSE IF j = i THEN arg[c] ELSE word[c][j]
  BY <1>1 DEF Replace, ByteTypeOK
<1>3. arg[c] \in may["target"][Dist][i] /\ \A j \in Q : word[c][j] \in may["target"][Dist][j]
  BY <1>1 DEF Holds, Passed, WordRead
<1>4. alone[c] => /\ field["target"][Dist][i] = value[c][i] /\ arg[c] = value[c][i]
                  /\ \A j \in Q : word[c][j] = route[j]
  BY <1>1 DEF Holds, Doing, Fresh
<1>5. Turned(c, i) /\ MaySettled(c, i)
  BY <1>1, Advanced
<1>6. ByteTypeOK'
  BY <1>1, <1>2, <1>5 DEF ByteTypeOK, Turned, MaySettled
<1>7. \A d \in Cpus \ {c} : Holds(d)'
  <2>1. OthersSame(c) /\ OwnField(c)
    BY <1>1, <1>5 DEF OthersSame, OwnField, Turned, ByteTypeOK
  <2>2. OwnRoute(c) /\ OwnMay(c)
    BY <1>1, <1>2, <1>5 DEF OwnRoute, OwnMay, InOwnWord, MaySettled, Settles
  <2> QED BY <1>1, <2>1, <2>2, Elsewhere
<1>8. InWord' /\ Alone'
  BY <1>1, <1>5, TurnedInWord
<1>9. ASSUME NEW j \in Q \ (left[c] \ {i}), alone[c]
      PROVE  field["target"][Dist][j] = value[c][j] /\ route'[j] = value[c][j]
  <2>1. IsSpi(j)
    BY <1>1, Bank
  <2> QED BY <1>1, <1>2, <1>4, <1>9, <2>1 DEF Holds, Done
<1>10. Holds(c)'
  <2>1. CASE left[c] = {i}
    BY <1>1, <1>5, <2>1 DEF Turned, Holds, Written, Passed, WordRead, Done, Doing, Fresh
  <2>2. CASE left[c] # {i}
    <3>1. /\ step'[c] = "store" /\ left'[c] = left[c] \ {i} /\ BankOf(c)' = Dist
          /\ value'[c] = value[c] /\ alone'[c] = alone[c]
          /\ \A j \in Q : may'["target"][Dist][j] = may["target"][Dist][j]
      BY <1>1, <1>5, <2>2 DEF Turned, MaySettled, Settles, BankOf
    <3>2. Quad(quad[c])' = Q /\ reg'[c] = "target"
      BY <1>1 DEF Quad
    <3>3. Written(c)'
      BY <1>1, <3>1, <3>2 DEF Holds, Written
    <3>4. Done(c)'
      <4>1. \A j \in Q \ left'[c] : alone'[c] =>
              field'["target"][Dist][j] = value'[c][j] /\ route'[j] = value'[c][j]
        BY <1>1, <1>9, <3>1
      <4> QED BY <3>1, <3>2, <4>1 DEF Done
    <3> QED BY <3>1, <3>3, <3>4 DEF Holds, Passed, WordRead, Doing, Fresh
  <2> QED BY <2>1, <2>2
<1>11. AllKept'
  <2>1. ASSUME NEW r \in Regs, NEW b \in Banks, NEW j \in Fields
        PROVE  field'[r][b][j] \in may'[r][b][j]
    <3>1. CASE Settles(c, i, r, b, j)
      <4>1. r = "target" /\ b = Dist /\ j \in Q \ (left[c] \ {i}) /\ alone[c]
        BY <1>1, <3>1 DEF Settles
      <4>2. may'[r][b][j] = {value[c][j]}
        BY <1>5, <3>1 DEF MaySettled
      <4>3. field["target"][Dist][j] = value[c][j]
        BY <1>9, <4>1
      <4> QED BY <1>1, <4>1, <4>2, <4>3
    <3>2. CASE ~ Settles(c, i, r, b, j)
      BY <1>1, <1>5, <3>2 DEF MaySettled, AllKept
    <3> QED BY <3>1, <3>2
  <2>2. ASSUME NEW j \in Fields, IsSpi(j) PROVE route'[j] \in may'["target"][Dist][j]
    <3>1. route'[j] \in may["target"][Dist][j]
      BY <1>2, <1>3, <2>2 DEF AllKept
    <3>2. CASE Settles(c, i, "target", Dist, j)
      <4>1. j \in Q \ (left[c] \ {i}) /\ alone[c]
        BY <3>2 DEF Settles
      <4>2. may'["target"][Dist][j] = {value[c][j]}
        BY <1>1, <1>5, <3>2 DEF MaySettled
      <4>3. route'[j] = value[c][j]
        BY <1>9, <4>1
      <4> QED BY <4>2, <4>3
    <3>3. CASE ~ Settles(c, i, "target", Dist, j)
      BY <1>1, <1>5, <3>1, <3>3 DEF MaySettled
    <3> QED BY <3>2, <3>3
  <2> QED BY <2>1, <2>2 DEF AllKept
<1> QED BY <1>6, <1>7, <1>8, <1>10, <1>11

LEMMA ByteInvStep == ByteInv /\ [ByteNext]_byteVars => ByteInv'
<1> SUFFICES ASSUME ByteInv, [ByteNext]_byteVars PROVE ByteInv'
  OBVIOUS
<1>1. ASSUME NEW c \in Cpus, ByteAccess(c) PROVE ByteInv'
  <2>1. PICK r \in Regs, i \in Fields : WriteWordOf(c, r, i \div 4)
    BY <1>1 DEF ByteAccess
  <2>2. i \div 4 \in Nat
    BY FieldRange
  <2> QED BY <2>1, <2>2, WriteWordOfStep
<1>2. ASSUME NEW c \in Cpus, Byte(c) PROVE ByteInv'
  BY <1>2, StoreStep, CallStep, ReadWordStep, WriteWordStep DEF Byte
<1>3. CASE UNCHANGED byteVars
  BY <1>3 DEF byteVars, place, handler, ByteInv, ByteTypeOK, InWord, Holds, Written, Passed, WordRead,
    Done, Doing, Fresh, Alone, Rivals, AllKept, BankOf, NextByte
<1> QED BY <1>1, <1>2, <1>3 DEF ByteNext

\* A priority or a target is what the last write that had its word for itself
\* has set, or one of the writes since: unlocked handlers on the same word of
\* the GIC (gic.c:185-189) may undo each other's bytes, but no other word's, and
\* the next write without a race puts them right.
THEOREM BytesCorrect == ByteSpec => []BytesKept
<1>1. ByteInv => BytesKept
  BY DEF ByteInv, AllKept, BytesKept, SaysByte, VirtBank, Banks
<1> QED BY <1>1, ByteInitInv, ByteInvStep, PTL DEF ByteSpec

-----------------------------------------------------------------------------
(* The registers together behave as each kind of them alone, so that what is *)
(* proved of the parts holds of the whole.                                   *)

\* Every step of a CPU is a step of one kind of register and leaves the other.
LEMMA RegsStep == RegsNext => [Next]_vars /\ [ByteNext]_byteVars
BY DEF RegsNext, EnableStep, ByteStep, Next, ByteNext

\* The handlers of the enable registers do what VgicDist says and those of the
\* bytes what VgicBytes says, though on one CPU they take turns.
THEOREM RegsRefine == RegsSpec => Spec /\ ByteSpec
<1>1. RegsInit => Init /\ ByteInit
  BY DEF RegsInit
<1>2. [RegsNext]_regsVars => [Next]_vars /\ [ByteNext]_byteVars
  BY RegsStep DEF regsVars
<1> QED BY <1>1, <1>2, PTL DEF RegsSpec, Spec, ByteSpec

\* In a VM with all its trapped registers: an interrupt that the guest wants
\* enabled is so, none besides, and bytes are only lost to a race for their own
\* word.
THEOREM RegsCorrect ==
  RegsSpec => [](EnablesKept /\ OnlyWanted /\ BytesKept)
BY RegsRefine, EnableCorrect, NoneBesides, BytesCorrect, PTL
=============================================================================
