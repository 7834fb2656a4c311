--------------------------- MODULE VcpuBootProofs ---------------------------
(***************************************************************************)
(* VcpuBoot, for any number of CPUs and vCPUs: what holds for every guest,  *)
(* and what holds for a guest that asks for each CPU once.                  *)
(***************************************************************************)
EXTENDS VcpuBoot, TLAPS

-----------------------------------------------------------------------------
(* Any guest *)

\* A CPU the firmware has not started runs nothing.
OffInv == \A c \in PhysCpus :
  /\ fw[c] \in {"off", "pending"} => at[c] = "off"
  /\ at[c] = "create" => c = 0

\* A CPU on its way to enter_vcpu(), or about to be started, has a ready vCPU.
ReadyInv == \A c \in PhysCpus :
  /\ fw[c] = "pending" \/ at[c] \in {"enter", "switch"} => state[c] = "READY"
  /\ at[c] \in {"ready", "psci"} => target[c] \in Vcpus /\ elr[target[c]] \in Pcs
  /\ at[c] = "psci" /\ target[c] \in PhysCpus /\ fw[target[c]] = "off"
       => state[target[c]] = "READY"

\* No vCPU is touched before it is created.
CreatedInv ==
  /\ state[0] # "UNUSED" => elr[0] \in Pcs
  /\ at[0] # "create" => \A v \in Vcpus : state[v] # "UNUSED"
  /\ \A c \in PhysCpus : c # 0 /\ at[0] = "create" => fw[c] = "off"
  /\ \A c \in PhysCpus : at[c] \notin {"off", "create"} => state[c] \in {"READY", "RUNNING"}

AnyInv == TypeOK /\ NeverUninitialized /\ OffInv /\ ReadyInv /\ CreatedInv

-----------------------------------------------------------------------------
(* A guest that asks once *)

\* Nobody has started a vCPU that no one asked for, and each CPU_ON in
\* progress is alone with a CPU that is off.
OnceInv ==
  /\ 0 \in asked
  /\ \A c \in PhysCpus : c \notin asked => fw[c] = "off"
  /\ \A c \in PhysCpus : at[c] \in CpuOn =>
       /\ target[c] \in asked /\ target[c] # 0
       /\ target[c] \in PhysCpus => fw[target[c]] = "off"
       /\ \A d \in PhysCpus : at[d] \in CpuOn /\ target[d] = target[c] => d = c
  /\ \A c \in PhysCpus : target[c] # c
  /\ fw[0] = "on"

\* The saved program counter of the target is the one it is to start at.
ElrInv ==
  /\ \A c \in PhysCpus : at[c] \in {"ready", "psci"} => elr[target[c]] = entry[c]
  /\ granted[0] = Entry
  /\ state[0] # "UNUSED" /\ at[0] \in Booting => elr[0] = Entry

IInv == AnyInv /\ OnceInv /\ ElrInv /\ ResumesWhereTrapped /\ StartsWhereAsked

-----------------------------------------------------------------------------

\* The instruction after one is one.
LEMMA AfterType == ASSUME NEW p \in Pcs PROVE After(p) \in Pcs
BY VcpuBootAssumption DEF Pcs, After

\* 0 is no program counter, and the entry point is one.
LEMMA PcsType == 0 \notin Pcs /\ Entry \in Pcs
BY VcpuBootAssumption DEF Pcs

\* Every CPU has a vCPU.
LEMMA CpuType == NumVcpu \in Nat \ {0} /\ PhysCpus \subseteq 0 .. NumVcpu - 1 /\ 0 \in PhysCpus
BY VcpuBootAssumption

\* The two steps that write at the index a guest has chosen keep the types.
LEMMA SetElrType ==
  ASSUME TypeOK, NEW c \in PhysCpus, SetElr(c) PROVE TypeOK'
<1> USE PcsType, VcpuBootAssumption DEF TypeOK, SetElr, Return, Goto, Targets
<1>1. CASE target[c] \notin Vcpus
  BY <1>1 DEF Booting, Trapped
<1>2. CASE target[c] \in Vcpus
  <2> DEFINE t == target[c]
  <2>1. entry[c] \in Pcs /\ elr' = [elr EXCEPT ![t] = entry[c]]
    BY <1>2
  <2> HIDE DEF t
  <2>2. elr' \in [Vcpus -> Pcs \cup {0}]
    BY <2>1
  <2>3. \A v \in Vcpus : state'[v] \in {"READY", "RUNNING"} => elr'[v] \in Pcs
    BY <2>1
  <2>4. at' \in [PhysCpus -> Booting \cup {"guest", "panic"} \cup Trapped]
    BY DEF Booting, Trapped
  <2> QED
    BY <2>2, <2>3, <2>4
<1> QED
  BY <1>1, <1>2

LEMMA PsciCallType ==
  ASSUME TypeOK, NEW c \in PhysCpus, PsciCall(c) PROVE TypeOK'
<1> USE PcsType, VcpuBootAssumption DEF TypeOK, PsciCall, Return, Goto, Targets
<1>1. fw' \in [PhysCpus -> {"off", "pending", "on"}]
  OBVIOUS
<1>2. granted' \in [Vcpus -> Pcs]
  <2>1. entry[c] \in Pcs
    OBVIOUS
  <2>2. granted' = granted \/ granted' = [granted EXCEPT ![target[c]] = entry[c]]
    OBVIOUS
  <2> QED
    BY ONLY <2>1, <2>2, TypeOK DEF TypeOK
<1>3. at' \in [PhysCpus -> Booting \cup {"guest", "panic"} \cup Trapped]
  BY DEF Booting, Trapped
<1>4. target' \in [PhysCpus -> Targets] /\ entry' \in [PhysCpus -> Pcs]
  OBVIOUS
<1> QED
  BY <1>1, <1>2, <1>3, <1>4

\* Every step keeps what holds for any guest.
LEMMA AnyStep == ASSUME AnyInv, [Next]_vars PROVE AnyInv'
<1> USE CpuType, PcsType DEF AnyInv, TypeOK, NeverUninitialized, OffInv, ReadyInv, CreatedInv,
      Vcpus, Targets, Booting, Trapped, CpuOn, Goto, SetState
<1>1. CASE UNCHANGED vars
  BY <1>1 DEF vars
<1>2. ASSUME NEW v \in Vcpus, CreateVcpu(v) PROVE AnyInv'
  BY <1>2 DEF CreateVcpu
<1>3. ASSUME Created PROVE AnyInv'
  BY <1>3 DEF Created
<1>4. ASSUME NEW c \in PhysCpus, BootSecondary(c) PROVE AnyInv'
  BY <1>4 DEF BootSecondary
<1>5. ASSUME NEW c \in PhysCpus, EnterVcpu(c) PROVE AnyInv'
  BY <1>5 DEF EnterVcpu
<1>6. ASSUME NEW c \in PhysCpus, SwitchVcpu(c) PROVE AnyInv'
  BY <1>6 DEF SwitchVcpu
<1>7. ASSUME NEW c \in PhysCpus, TrapRet(c) PROVE AnyInv'
  BY <1>7 DEF TrapRet
<1>8. ASSUME NEW c \in PhysCpus, SetElr(c) PROVE AnyInv'
  <2>a. CASE target[c] \notin Vcpus
    <3>1. TypeOK'
      BY ONLY SetElrType, TypeOK, <1>8, c \in PhysCpus
    <3>2. NeverUninitialized' /\ OffInv'
      BY <1>8, <2>a DEF SetElr, Return
    <3>3. ReadyInv'
      BY <1>8, <2>a DEF SetElr, Return
    <3>4. CreatedInv'
      BY <1>8, <2>a DEF SetElr, Return
    <3> QED
      BY <3>1, <3>2, <3>3, <3>4
  <2>b. CASE target[c] \in Vcpus
    <3>1. TypeOK'
      BY ONLY SetElrType, TypeOK, <1>8, c \in PhysCpus
    <3>2. NeverUninitialized'
      BY <1>8, <2>b DEF SetElr, Return
    <3>3. OffInv'
      BY <1>8, <2>b DEF SetElr, Return
    <3>4. ReadyInv'
      <4>1. entry[c] \in Pcs /\ elr' = [elr EXCEPT ![target[c]] = entry[c]]
        BY <1>8, <2>b DEF SetElr, Return
      <4>2. \A d \in PhysCpus : at'[d] \in {"ready", "psci"} =>
              target'[d] \in Vcpus /\ elr'[target'[d]] \in Pcs
        BY <1>8, <2>b, <4>1 DEF SetElr, Return
      <4>3. \A d \in PhysCpus : fw'[d] = "pending" \/ at'[d] \in {"enter", "switch"}
              => state'[d] = "READY"
        BY <1>8, <2>b DEF SetElr, Return
      <4>4. \A d \in PhysCpus : at'[d] = "psci" /\ target'[d] \in PhysCpus
              /\ fw'[target'[d]] = "off" => state'[target'[d]] = "READY"
        BY <1>8, <2>b DEF SetElr, Return
      <4> QED
        BY <4>2, <4>3, <4>4
    <3>5. CreatedInv'
      <4>1. state'[0] # "UNUSED" => elr'[0] \in Pcs
        <5>1. entry[c] \in Pcs /\ elr' = [elr EXCEPT ![target[c]] = entry[c]] /\ state' = state
          BY <1>8, <2>b DEF SetElr, Return
        <5> QED
          BY <5>1
      <4>2. at'[0] # "create" => \A v \in Vcpus : state'[v] # "UNUSED"
        BY <1>8, <2>b DEF SetElr, Return
      <4>3. \A d \in PhysCpus :
              /\ d # 0 /\ at'[0] = "create" => fw'[d] = "off"
              /\ at'[d] \notin {"off", "create"} => state'[d] \in {"READY", "RUNNING"}
        BY <1>8, <2>b DEF SetElr, Return
      <4> QED
        BY <4>1, <4>2, <4>3
    <3> QED
      BY <3>1, <3>2, <3>3, <3>4, <3>5
  <2> QED
    BY <2>a, <2>b
<1>9. ASSUME NEW c \in PhysCpus, VcpuReady(c) PROVE AnyInv'
  BY <1>9 DEF VcpuReady
<1>10. ASSUME NEW c \in PhysCpus, PsciCall(c) PROVE AnyInv'
  <2>a. CASE ~ (target[c] \in PhysCpus /\ fw[target[c]] = "off")
    BY <1>10, <2>a DEF PsciCall, Return
  <2>b. CASE target[c] \in PhysCpus /\ fw[target[c]] = "off"
    <3>1. TypeOK'
      BY ONLY PsciCallType, TypeOK, <1>10, c \in PhysCpus
    <3>2. NeverUninitialized'
      BY <1>10, <2>b DEF PsciCall, Return
    <3>3. OffInv'
      BY <1>10, <2>b DEF PsciCall, Return
    <3>4. ReadyInv'
      BY <1>10, <2>b DEF PsciCall, Return
    <3>5. CreatedInv'
      BY <1>10, <2>b DEF PsciCall, Return
    <3> QED
      BY <3>1, <3>2, <3>3, <3>4, <3>5
  <2> QED
    BY <2>a, <2>b
<1>11. ASSUME NEW c \in PhysCpus, NEW p \in Pcs, GuestRun(c, p) PROVE AnyInv'
  BY <1>11 DEF GuestRun
<1>12. ASSUME NEW c \in PhysCpus, Irq(c) PROVE AnyInv'
  BY <1>12 DEF Irq, Save
<1>13. ASSUME NEW c \in PhysCpus, NEW k \in TrapKinds, NEW write \in BOOLEAN, SyncTrap(c, k, write)
       PROVE AnyInv'
  <2>1. After(pc[c]) \in Pcs
    BY AfterType
  <2>2. CASE Emulates(k, write)
    <3>1. /\ at[c] = "guest" /\ elr' = [elr EXCEPT ![c] = pc[c]]
          /\ at' = [at EXCEPT ![c] = "emulate"] /\ pc' = [pc EXCEPT ![c] = After(pc[c])]
          /\ UNCHANGED <<state, fw, target, entry, asked, granted>>
      BY <1>13, <2>2 DEF SyncTrap, Save
    <3>2. TypeOK'
      BY <2>1, <3>1
    <3>3. NeverUninitialized'
      BY <3>1
    <3>4. OffInv'
      BY <3>1
    <3>5. ReadyInv'
      BY <3>1
    <3>6. CreatedInv'
      BY <3>1
    <3> QED
      BY <3>2, <3>3, <3>4, <3>5, <3>6
  <2>3. CASE ~ Emulates(k, write)
    <3>1. /\ at[c] = "guest" /\ elr' = [elr EXCEPT ![c] = pc[c]]
          /\ at' = [at EXCEPT ![c] = "unknown"] /\ pc' = pc
          /\ UNCHANGED <<state, fw, target, entry, asked, granted>>
      BY <1>13, <2>3 DEF SyncTrap, Save
    <3>2. TypeOK'
      BY <2>1, <3>1
    <3>3. NeverUninitialized'
      BY <3>1
    <3>4. OffInv'
      BY <3>1
    <3>5. ReadyInv'
      BY <3>1
    <3>6. CreatedInv'
      BY <3>1
    <3> QED
      BY <3>2, <3>3, <3>4, <3>5, <3>6
  <2> QED
    BY <2>2, <2>3
<1>14. ASSUME NEW c \in PhysCpus, Emulated(c) PROVE AnyInv'
  <2>1. elr[c] \in Pcs
    BY <1>14 DEF Emulated
  <2>2. After(elr[c]) \in Pcs
    BY <2>1, AfterType
  <2> QED
    BY <1>14, <2>2 DEF Emulated, Save
<1>15. ASSUME NEW c \in PhysCpus, NEW known \in BOOLEAN, CallPsci(c, known) PROVE AnyInv'
  <2>1. After(pc[c]) \in Pcs
    BY AfterType
  <2> QED
    BY <1>15, <2>1 DEF CallPsci, Hvc, Save
<1>16. ASSUME NEW c \in PhysCpus, NEW t \in Targets, NEW e \in Pcs, CallCpuOn(c, t, e) PROVE AnyInv'
  <2>1. After(pc[c]) \in Pcs
    BY AfterType
  <2> QED
    BY <1>16, <2>1 DEF CallCpuOn, Hvc, Save
<1> QED
  BY <1>1, <1>2, <1>3, <1>4, <1>5, <1>6, <1>7, <1>8, <1>9, <1>10, <1>11, <1>12, <1>13,
     <1>14, <1>15, <1>16
  DEF Next, Vmm, Guest

\* Every step of a guest that asks once keeps the rest.
LEMMA OnceStep == ASSUME OncePerCpu, IInv, [Next]_vars PROVE IInv'
<1>a. AnyInv /\ AnyInv'
  BY AnyStep DEF IInv
<1> DEFINE Rest == OnceInv /\ ElrInv /\ ResumesWhereTrapped /\ StartsWhereAsked
<1> SUFFICES Rest'
  BY <1>a DEF IInv
<1> USE <1>a, CpuType, PcsType DEF IInv, AnyInv, TypeOK, NeverUninitialized, OffInv,
      ReadyInv, CreatedInv, OnceInv, ElrInv, ResumesWhereTrapped, StartsWhereAsked,
      Vcpus, Targets, Booting, Trapped, CpuOn, Goto, SetState
<1>1. CASE UNCHANGED vars
  BY <1>1 DEF vars
<1>2. ASSUME NEW v \in Vcpus, CreateVcpu(v) PROVE Rest'
  BY <1>2 DEF CreateVcpu
<1>3. ASSUME Created PROVE Rest'
  BY <1>3 DEF Created
<1>4. ASSUME NEW c \in PhysCpus, BootSecondary(c) PROVE Rest'
  BY <1>4 DEF BootSecondary
<1>5. ASSUME NEW c \in PhysCpus, EnterVcpu(c) PROVE Rest'
  BY <1>5 DEF EnterVcpu
<1>6. ASSUME NEW c \in PhysCpus, SwitchVcpu(c) PROVE Rest'
  BY <1>6 DEF SwitchVcpu
<1>7. ASSUME NEW c \in PhysCpus, TrapRet(c) PROVE Rest'
  BY <1>7 DEF TrapRet
<1>8. ASSUME NEW c \in PhysCpus, SetElr(c) PROVE Rest'
  <2>a. CASE target[c] \notin Vcpus
    <3>0. target' = [target EXCEPT ![c] = NumVcpu] /\ at' = [at EXCEPT ![c] = "exit"]
          /\ UNCHANGED <<fw, asked>>
      BY <1>8, <2>a DEF SetElr, Return
    <3>1. OnceInv'
      <4>1. \A d \in PhysCpus : at'[d] \in CpuOn => at[d] \in CpuOn /\ target'[d] = target[d]
        BY <3>0
      <4>2. \A d \in PhysCpus : target'[d] # d
        BY <3>0
      <4> QED
        BY <3>0, <4>1, <4>2
    <3>2. ElrInv'
      BY <1>8, <2>a DEF SetElr, Return
    <3>3. ResumesWhereTrapped'
      BY <1>8, <2>a DEF SetElr, Return
    <3>4. StartsWhereAsked'
      BY <1>8, <2>a DEF SetElr, Return
    <3> QED
      BY <3>1, <3>2, <3>3, <3>4
  <2>b. CASE target[c] \in Vcpus
    <3>0. at[c] = "setelr" /\ at' = [at EXCEPT ![c] = "ready"] /\ UNCHANGED <<target, fw, asked>>
      BY <1>8, <2>b DEF SetElr
    <3>1. OnceInv'
      <4>1. \A d \in PhysCpus : at'[d] \in CpuOn <=> at[d] \in CpuOn
        BY <3>0
      <4> QED
        BY ONLY OnceInv, <3>0, <4>1 DEF OnceInv
    <3>2. ElrInv'
      <4>1. elr' = [elr EXCEPT ![target[c]] = entry[c]] /\ UNCHANGED <<entry, state, granted>>
        BY <1>8, <2>b DEF SetElr
      <4>2. target[c] # 0
        BY <3>0
      <4>3. \A d \in PhysCpus : at'[d] \in {"ready", "psci"} => elr'[target'[d]] = entry'[d]
        <5> TAKE d \in PhysCpus
        <5>1. CASE d = c
          BY <2>b, <3>0, <4>1, <5>1
        <5>2. CASE d # c
          <6>1. at'[d] = at[d]
            BY <3>0, <5>2
          <6>2. at[d] \in {"ready", "psci"} => target[d] # target[c] /\ target[d] \in Vcpus
            BY <3>0, <5>2
          <6> QED
            BY <3>0, <4>1, <6>1, <6>2
        <5> QED
          BY <5>1, <5>2
      <4>4. granted'[0] = Entry /\ (state'[0] # "UNUSED" /\ at'[0] \in Booting => elr'[0] = Entry)
        BY <3>0, <4>1, <4>2
      <4> QED
        BY <4>3, <4>4
    <3>3. ResumesWhereTrapped'
      BY <1>8, <2>b DEF SetElr, Return
    <3>4. StartsWhereAsked'
      BY <1>8, <2>b DEF SetElr, Return
    <3> QED
      BY <3>1, <3>2, <3>3, <3>4
  <2> QED
    BY <2>a, <2>b
<1>9. ASSUME NEW c \in PhysCpus, VcpuReady(c) PROVE Rest'
  BY <1>9 DEF VcpuReady
<1>10. ASSUME NEW c \in PhysCpus, PsciCall(c) PROVE Rest'
  BY <1>10 DEF PsciCall, Return
<1>11. ASSUME NEW c \in PhysCpus, NEW p \in Pcs, GuestRun(c, p) PROVE Rest'
  BY <1>11 DEF GuestRun
<1>12. ASSUME NEW c \in PhysCpus, Irq(c) PROVE Rest'
  BY <1>12 DEF Irq, Save
<1>13. ASSUME NEW c \in PhysCpus, NEW k \in TrapKinds, NEW write \in BOOLEAN, SyncTrap(c, k, write)
       PROVE Rest'
  <2>1. After(pc[c]) \in Pcs
    BY AfterType
  <2> QED
    BY <1>13, <2>1 DEF SyncTrap, Save
<1>14. ASSUME NEW c \in PhysCpus, Emulated(c) PROVE Rest'
  <2>1. elr[c] \in Pcs
    BY <1>14 DEF Emulated
  <2>2. After(elr[c]) \in Pcs
    BY <2>1, AfterType
  <2> QED
    BY <1>14, <2>2 DEF Emulated, Save
<1>15. ASSUME NEW c \in PhysCpus, NEW known \in BOOLEAN, CallPsci(c, known) PROVE Rest'
  <2>1. After(pc[c]) \in Pcs
    BY AfterType
  <2> QED
    BY <1>15, <2>1 DEF CallPsci, Hvc, Save
<1>16. ASSUME NEW c \in PhysCpus, NEW t \in Targets, NEW e \in Pcs, CallCpuOn(c, t, e) PROVE Rest'
  <2>1. After(pc[c]) \in Pcs
    BY AfterType
  <2> QED
    BY <1>16, <2>1 DEF CallCpuOn, Hvc, Save
<1> QED
  BY <1>1, <1>2, <1>3, <1>4, <1>5, <1>6, <1>7, <1>8, <1>9, <1>10, <1>11, <1>12, <1>13,
     <1>14, <1>15, <1>16
  DEF Next, Vmm, Guest

\* The initial states.
LEMMA InitInv == Init => IInv
BY VcpuBootAssumption, PcsType DEF Init, IInv, AnyInv, TypeOK, NeverUninitialized, OffInv, ReadyInv,
  CreatedInv, OnceInv, ElrInv, ResumesWhereTrapped, StartsWhereAsked, Vcpus,
  Targets, Booting, Trapped, CpuOn

\* Every variable keeps its type, and the saved program counter of a vCPU that is ready or
\* runs is one of the guest's, not the 0 of new_vcpu(), whatever the guest does.
THEOREM TypeCorrect == Spec => []TypeOK
<1>1. Init => AnyInv
  BY InitInv DEF IInv
<1>2. AnyInv /\ [Next]_vars => AnyInv'
  BY AnyStep
<1>3. AnyInv => TypeOK
  BY DEF AnyInv
<1> QED
  BY <1>1, <1>2, <1>3, PTL DEF Spec

\* enter_vcpu() never panics with "uninitalized vcpu" (vcpu.c:125-126), whatever the guest does.
THEOREM AlwaysReady == Spec => []NeverUninitialized
<1>1. Init => AnyInv
  BY InitInv DEF IInv
<1>2. AnyInv /\ [Next]_vars => AnyInv'
  BY AnyStep
<1>3. AnyInv => NeverUninitialized
  BY DEF AnyInv
<1> QED
  BY <1>1, <1>2, <1>3, PTL DEF Spec

\* IInv is an invariant when the guest asks for each CPU once.
LEMMA Invariant == ASSUME OncePerCpu PROVE Spec => []IInv
<1>1. IInv /\ [Next]_vars => IInv'
  BY OnceStep
<1> QED
  BY <1>1, InitInv, PTL DEF Spec

\* If the guest asks for each CPU once, a trapped vCPU goes on where it was, or after the
\* instruction that was emulated: no CPU_ON moves the saved program counter (vpsci.c:19).
THEOREM ResumeCorrect == ASSUME OncePerCpu PROVE Spec => []ResumesWhereTrapped
<1>1. IInv => ResumesWhereTrapped
  BY DEF IInv
<1> QED
  BY <1>1, Invariant, PTL

\* If the guest asks for each CPU once, a CPU starts at the entry point of the CPU_ON that
\* the firmware granted.
THEOREM StartCorrect == ASSUME OncePerCpu PROVE Spec => []StartsWhereAsked
<1>1. IInv => StartsWhereAsked
  BY DEF IInv
<1> QED
  BY <1>1, Invariant, PTL
=============================================================================
