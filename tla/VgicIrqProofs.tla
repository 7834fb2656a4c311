--------------------------- MODULE VgicIrqProofs ----------------------------
(***************************************************************************)
(* VgicIrq, for any CPUs, interrupts and number of list registers: no       *)
(* interrupt is overwritten or lost, and enough registers never run out.    *)
(***************************************************************************)
EXTENDS VgicIrq, FiniteSetTheorems, TLAPS

\* In the handler, the registers marked used are those in flight.
HypExact == \A c \in Cpus : at[c] = "hyp" => \A n \in used[c] : InFlight(c, n)

OffEmpty == \A c \in Cpus : at[c] = "off" => \A n \in Lrs : ~ InFlight(c, n)

\* A special INTID never becomes active.
ActiveIsReal == \A c \in Cpus, n \in Lrs :
  lrState[c][n] = "active" => lrIrq[c][n] # Spurious

IInv == /\ TypeOK /\ InFlightUsed /\ ActiveCarried /\ PanicOnlyWhenFull
        /\ HypExact /\ OffEmpty /\ ActiveIsReal

-----------------------------------------------------------------------------

LEMMA InitInv == ASSUME Init PROVE IInv
BY VgicIrqAssumption DEF Init, IInv, TypeOK, InFlightUsed, ActiveCarried,
  OneCarrier, CarriedIsActive, ActiveIsCarried,
  PanicOnlyWhenFull, HypExact, OffEmpty, ActiveIsReal, Carries, InFlight, Active

\* The step that fills register n of c with v: what it does to the registers.
LEMMA InjectCases ==
  ASSUME IInv, NEW c \in Cpus, NEW v \in Irqs \cup {Spurious}, at[c] = "hyp", Inject(c, v)
  PROVE  \/ /\ \A n \in Lrs : InFlight(c, n)
            /\ at' = [at EXCEPT ![c] = "panic"]
            /\ UNCHANGED <<lrState, lrIrq, used>>
         \/ \E n \in Lrs :
              /\ ~ InFlight(c, n)
              /\ at' = [at EXCEPT ![c] = "guest"]
              /\ used' = [used EXCEPT ![c] = used[c] \cup {n}]
              /\ lrState' = [lrState EXCEPT ![c][n] = "pending"]
              /\ lrIrq' = [lrIrq EXCEPT ![c][n] = v]
<1>1. CASE FreeLrs(c) = {}
  BY <1>1 DEF Inject, WriteLr, MakeLr, IInv, HypExact, FreeLrs, Goto
<1>2. ASSUME NEW n \in FreeLrs(c),
             used' = [used EXCEPT ![c] = @ \cup {n}],
             lrState' = [lrState EXCEPT ![c][n] = "pending"],
             lrIrq' = [lrIrq EXCEPT ![c][n] = v],
             Goto(c, "guest")
      PROVE  \E m \in Lrs :
              /\ ~ InFlight(c, m)
              /\ at' = [at EXCEPT ![c] = "guest"]
              /\ used' = [used EXCEPT ![c] = used[c] \cup {m}]
              /\ lrState' = [lrState EXCEPT ![c][m] = "pending"]
              /\ lrIrq' = [lrIrq EXCEPT ![c][m] = v]
  <2>1. n \in Lrs /\ ~ InFlight(c, n)
    BY DEF IInv, InFlightUsed, FreeLrs
  <2>2. used' = [used EXCEPT ![c] = used[c] \cup {n}]
    BY <1>2 DEF IInv, TypeOK
  <2> QED
    BY <1>2, <2>1, <2>2 DEF Goto
<1> QED
  BY <1>1, <1>2 DEF Inject, WriteLr, MakeLr

\* An interrupt that stays active stays carried if its register does.
LEMMA StillCarried ==
  ASSUME IInv, NEW i \in Irqs, Active(i),
         \A c \in Cpus, n \in Lrs : Carries(c, n, i) => Carries(c, n, i)',
         \A c \in Cpus : at[c] = "panic" /\ iar[c] = i => at'[c] = "panic" /\ iar'[c] = i
  PROVE  \/ \E c \in Cpus, n \in Lrs : Carries(c, n, i)'
         \/ \E c \in Cpus : at'[c] = "panic" /\ iar'[c] = i
BY Zenon DEF IInv, ActiveCarried, ActiveIsCarried

\* Every step keeps the invariant.
LEMMA InvStep == ASSUME IInv, [Next]_vars PROVE IInv'
<1> USE VgicIrqAssumption DEF IInv, TypeOK, Goto, Lrs
<1>1. CASE UNCHANGED vars
  BY <1>1 DEF vars, InFlightUsed, ActiveCarried, OneCarrier, CarriedIsActive, ActiveIsCarried,
    PanicOnlyWhenFull, HypExact, OffEmpty, ActiveIsReal, Carries, InFlight, Active
<1>2. ASSUME NEW i \in Irqs, Raise(i) PROVE IInv'
  <2>1. TypeOK'
    BY <1>2 DEF Raise, Raised
  <2>2. InFlightUsed'
    BY <1>2 DEF Raise, Raised, InFlightUsed, InFlight
  <2>3. OneCarrier'
    BY <1>2 DEF Raise, Raised, ActiveCarried, OneCarrier, CarriedIsActive, Carries, InFlight, Active
  <2>4. CarriedIsActive'
    BY <1>2 DEF Raise, Raised, ActiveCarried, OneCarrier, CarriedIsActive, Carries, InFlight, Active
  <2>5. ActiveIsCarried'
    <3> SUFFICES ASSUME NEW i1 \in Irqs, Active(i1)'
                 PROVE  \/ \E c1 \in Cpus, n1 \in Lrs : Carries(c1, n1, i1)'
                        \/ \E c1 \in Cpus : at'[c1] = "panic" /\ iar'[c1] = i1
      BY DEF ActiveIsCarried
    <3>1. /\ Active(i1)
          /\ \A c1 \in Cpus, n1 \in Lrs : Carries(c1, n1, i1) => Carries(c1, n1, i1)'
          /\ \A c1 \in Cpus : at[c1] = "panic" /\ iar[c1] = i1
               => at'[c1] = "panic" /\ iar'[c1] = i1
      BY <1>2 DEF Raise, Raised, Carries, InFlight, Active
    <3> QED
      BY <3>1, StillCarried
  <2>6. PanicOnlyWhenFull'
    BY <1>2 DEF Raise, Raised, PanicOnlyWhenFull, InFlight
  <2>7. HypExact'
    BY <1>2 DEF Raise, Raised, HypExact, InFlight
  <2>8. OffEmpty'
    BY <1>2 DEF Raise, Raised, OffEmpty, InFlight
  <2>9. ActiveIsReal'
    BY <1>2 DEF Raise, Raised, ActiveIsReal
  <2> QED
    BY <2>1, <2>2, <2>3, <2>4, <2>5, <2>6, <2>7, <2>8, <2>9 DEF ActiveCarried
<1>3. ASSUME NEW i \in Irqs, Withdraw(i) PROVE IInv'
  <2>1. TypeOK'
    BY <1>3 DEF Withdraw
  <2>2. InFlightUsed'
    BY <1>3 DEF Withdraw, InFlightUsed, InFlight
  <2>3. OneCarrier'
    BY <1>3 DEF Withdraw, ActiveCarried, OneCarrier, CarriedIsActive, Carries, InFlight, Active
  <2>4. CarriedIsActive'
    BY <1>3 DEF Withdraw, ActiveCarried, OneCarrier, CarriedIsActive, Carries, InFlight, Active
  <2>5. ActiveIsCarried'
    <3> SUFFICES ASSUME NEW i1 \in Irqs, Active(i1)'
                 PROVE  \/ \E c1 \in Cpus, n1 \in Lrs : Carries(c1, n1, i1)'
                        \/ \E c1 \in Cpus : at'[c1] = "panic" /\ iar'[c1] = i1
      BY DEF ActiveIsCarried
    <3>1. /\ Active(i1)
          /\ \A c1 \in Cpus, n1 \in Lrs : Carries(c1, n1, i1) => Carries(c1, n1, i1)'
          /\ \A c1 \in Cpus : at[c1] = "panic" /\ iar[c1] = i1
               => at'[c1] = "panic" /\ iar'[c1] = i1
      BY <1>3 DEF Withdraw, Carries, InFlight, Active
    <3> QED
      BY <3>1, StillCarried
  <2>6. PanicOnlyWhenFull'
    BY <1>3 DEF Withdraw, PanicOnlyWhenFull, InFlight
  <2>7. HypExact'
    BY <1>3 DEF Withdraw, HypExact, InFlight
  <2>8. OffEmpty'
    BY <1>3 DEF Withdraw, OffEmpty, InFlight
  <2>9. ActiveIsReal'
    BY <1>3 DEF Withdraw, ActiveIsReal
  <2> QED
    BY <2>1, <2>2, <2>3, <2>4, <2>5, <2>6, <2>7, <2>8, <2>9 DEF ActiveCarried
<1>4. ASSUME NEW c \in Cpus, Enter(c) PROVE IInv'
  <2>1. TypeOK'
    BY <1>4 DEF Enter
  <2>2. InFlightUsed'
    BY <1>4 DEF Enter, InFlightUsed, InFlight
  <2>3. OneCarrier'
    BY <1>4 DEF Enter, ActiveCarried, OneCarrier, CarriedIsActive, Carries, InFlight, Active
  <2>4. CarriedIsActive'
    BY <1>4 DEF Enter, ActiveCarried, OneCarrier, CarriedIsActive, Carries, InFlight, Active, OffEmpty, InFlight
  <2>5. ActiveIsCarried'
    <3> SUFFICES ASSUME NEW i1 \in Irqs, Active(i1)'
                 PROVE  \/ \E c1 \in Cpus, n1 \in Lrs : Carries(c1, n1, i1)'
                        \/ \E c1 \in Cpus : at'[c1] = "panic" /\ iar'[c1] = i1
      BY DEF ActiveIsCarried
    <3>1. /\ Active(i1)
          /\ \A c1 \in Cpus, n1 \in Lrs : Carries(c1, n1, i1) => Carries(c1, n1, i1)'
          /\ \A c1 \in Cpus : at[c1] = "panic" /\ iar[c1] = i1
               => at'[c1] = "panic" /\ iar'[c1] = i1
      BY <1>4 DEF Enter, Carries, InFlight, Active, OffEmpty
    <3> QED
      BY <3>1, StillCarried
  <2>6. PanicOnlyWhenFull'
    BY <1>4 DEF Enter, PanicOnlyWhenFull, InFlight
  <2>7. HypExact'
    BY <1>4 DEF Enter, HypExact, InFlight
  <2>8. OffEmpty'
    BY <1>4 DEF Enter, OffEmpty, InFlight
  <2>9. ActiveIsReal'
    BY <1>4 DEF Enter, ActiveIsReal
  <2> QED
    BY <2>1, <2>2, <2>3, <2>4, <2>5, <2>6, <2>7, <2>8, <2>9 DEF ActiveCarried
<1>5. ASSUME NEW c \in Cpus, Trap(c) PROVE IInv'
  <2>1. TypeOK'
    BY <1>5 DEF Trap, InactiveLrs
  <2>2. InFlightUsed'
    BY <1>5 DEF Trap, InactiveLrs, InFlightUsed, InFlight
  <2>3. OneCarrier'
    BY <1>5 DEF Trap, InactiveLrs, ActiveCarried, OneCarrier, CarriedIsActive, Carries, InFlight, Active
  <2>4. CarriedIsActive'
    BY <1>5 DEF Trap, InactiveLrs, ActiveCarried, OneCarrier, CarriedIsActive, Carries, InFlight, Active
  <2>5. ActiveIsCarried'
    <3> SUFFICES ASSUME NEW i1 \in Irqs, Active(i1)'
                 PROVE  \/ \E c1 \in Cpus, n1 \in Lrs : Carries(c1, n1, i1)'
                        \/ \E c1 \in Cpus : at'[c1] = "panic" /\ iar'[c1] = i1
      BY DEF ActiveIsCarried
    <3>1. /\ Active(i1)
          /\ \A c1 \in Cpus, n1 \in Lrs : Carries(c1, n1, i1) => Carries(c1, n1, i1)'
          /\ \A c1 \in Cpus : at[c1] = "panic" /\ iar[c1] = i1
               => at'[c1] = "panic" /\ iar'[c1] = i1
      BY <1>5 DEF Trap, InactiveLrs, Carries, InFlight, Active
    <3> QED
      BY <3>1, StillCarried
  <2>6. PanicOnlyWhenFull'
    BY <1>5 DEF Trap, InactiveLrs, PanicOnlyWhenFull, InFlight
  <2>7. HypExact'
    BY <1>5 DEF Trap, InactiveLrs, HypExact, InFlight
  <2>8. OffEmpty'
    BY <1>5 DEF Trap, InactiveLrs, OffEmpty, InFlight
  <2>9. ActiveIsReal'
    BY <1>5 DEF Trap, InactiveLrs, ActiveIsReal
  <2> QED
    BY <2>1, <2>2, <2>3, <2>4, <2>5, <2>6, <2>7, <2>8, <2>9 DEF ActiveCarried
<1>6. ASSUME NEW c \in Cpus, NEW v \in Irqs \cup {Spurious}, at[c] = "hyp", Inject(c, v),
             iar' = [iar EXCEPT ![c] = v],
             \/ v = Spurious /\ UNCHANGED gic
             \/ v \in Irqs /\ gic[v] = "pending" /\ gic' = [gic EXCEPT ![v] = "active"]
      PROVE  IInv'
  <2>1. CASE /\ \A n \in Lrs : InFlight(c, n)
             /\ at' = [at EXCEPT ![c] = "panic"]
             /\ UNCHANGED <<lrState, lrIrq, used>>
    <3>1. TypeOK'
      BY <1>6, <2>1
    <3>2. InFlightUsed'
      BY <1>6, <2>1 DEF InFlightUsed, InFlight
    <3>3. OneCarrier'
      BY <1>6, <2>1 DEF ActiveCarried, OneCarrier, CarriedIsActive, Carries, InFlight, Active
    <3>4. CarriedIsActive'
      BY <1>6, <2>1 DEF ActiveCarried, OneCarrier, CarriedIsActive, Carries, InFlight, Active
    <3>5. ActiveIsCarried'
      <4> SUFFICES ASSUME NEW i1 \in Irqs, Active(i1)'
                   PROVE  \/ \E c1 \in Cpus, n1 \in Lrs : Carries(c1, n1, i1)'
                          \/ \E c1 \in Cpus : at'[c1] = "panic" /\ iar'[c1] = i1
        BY DEF ActiveIsCarried
      <4>1. CASE i1 = v
        BY <1>6, <2>1, <4>1 DEF Carries, InFlight
      <4>2. CASE i1 # v
        <5>1. /\ Active(i1)
              /\ \A c1 \in Cpus, n1 \in Lrs : Carries(c1, n1, i1) => Carries(c1, n1, i1)'
              /\ \A c1 \in Cpus : at[c1] = "panic" /\ iar[c1] = i1
                   => at'[c1] = "panic" /\ iar'[c1] = i1
          BY <1>6, <2>1, <4>2 DEF Carries, InFlight, Active
        <5> QED
          BY <5>1, StillCarried
      <4> QED
        BY <4>1, <4>2
    <3>6. PanicOnlyWhenFull'
      BY <1>6, <2>1 DEF PanicOnlyWhenFull, InFlight
    <3>7. HypExact'
      BY <1>6, <2>1 DEF HypExact, InFlight
    <3>8. OffEmpty'
      BY <1>6, <2>1 DEF OffEmpty, InFlight
    <3>9. ActiveIsReal'
      BY <1>6, <2>1 DEF ActiveIsReal
    <3> QED
      BY <3>1, <3>2, <3>3, <3>4, <3>5, <3>6, <3>7, <3>8, <3>9 DEF ActiveCarried
  <2>2. ASSUME NEW n \in Lrs,
               ~ InFlight(c, n),
               at' = [at EXCEPT ![c] = "guest"],
               used' = [used EXCEPT ![c] = used[c] \cup {n}],
               lrState' = [lrState EXCEPT ![c][n] = "pending"],
               lrIrq' = [lrIrq EXCEPT ![c][n] = v]
        PROVE  IInv'
    <3>1. TypeOK'
      BY <1>6, <2>2
    <3>2. InFlightUsed'
      BY <1>6, <2>2 DEF InFlightUsed, InFlight
    <3>3. OneCarrier'
      BY <1>6, <2>2 DEF ActiveCarried, OneCarrier, CarriedIsActive, Carries, InFlight, Active
    <3>4. CarriedIsActive'
      BY <1>6, <2>2 DEF ActiveCarried, OneCarrier, CarriedIsActive, Carries, InFlight, Active
    <3>5. ActiveIsCarried'
      <4> SUFFICES ASSUME NEW i1 \in Irqs, Active(i1)'
                   PROVE  \/ \E c1 \in Cpus, n1 \in Lrs : Carries(c1, n1, i1)'
                          \/ \E c1 \in Cpus : at'[c1] = "panic" /\ iar'[c1] = i1
        BY DEF ActiveIsCarried
      <4>1. CASE i1 = v
        BY <1>6, <2>2, <4>1 DEF Carries, InFlight
      <4>2. CASE i1 # v
        <5>1. /\ Active(i1)
              /\ \A c1 \in Cpus, n1 \in Lrs : Carries(c1, n1, i1) => Carries(c1, n1, i1)'
              /\ \A c1 \in Cpus : at[c1] = "panic" /\ iar[c1] = i1
                   => at'[c1] = "panic" /\ iar'[c1] = i1
          BY <1>6, <2>2, <4>2 DEF Carries, InFlight, Active
        <5> QED
          BY <5>1, StillCarried
      <4> QED
        BY <4>1, <4>2
    <3>6. PanicOnlyWhenFull'
      BY <1>6, <2>2 DEF PanicOnlyWhenFull, InFlight
    <3>7. HypExact'
      BY <1>6, <2>2 DEF HypExact, InFlight
    <3>8. OffEmpty'
      BY <1>6, <2>2 DEF OffEmpty, InFlight
    <3>9. ActiveIsReal'
      BY <1>6, <2>2 DEF ActiveIsReal
    <3> QED
      BY <3>1, <3>2, <3>3, <3>4, <3>5, <3>6, <3>7, <3>8, <3>9 DEF ActiveCarried
  <2> QED
    BY <1>6, <2>1, <2>2, InjectCases
<1>7. ASSUME NEW c \in Cpus, Handle(c) PROVE IInv'
  <2>1. ASSUME NEW i \in Irqs, Forward(c, i) PROVE IInv'
    BY <1>6, <2>1 DEF Forward, Signalled, GuestEoiState
  <2>2. ASSUME ForwardSpurious(c) PROVE IInv'
    BY <1>6, <2>2 DEF ForwardSpurious
  <2> QED
    BY <1>7, <2>1, <2>2 DEF Handle
<1>8. ASSUME NEW c \in Cpus, NEW S \in SUBSET Sgis, SendSgi(c, S) PROVE IInv'
  <2>1. TypeOK'
    BY <1>8 DEF SendSgi, Raised
  <2>2. InFlightUsed'
    BY <1>8 DEF SendSgi, Raised, InFlightUsed, InFlight
  <2>3. OneCarrier'
    BY <1>8 DEF SendSgi, Raised, ActiveCarried, OneCarrier, CarriedIsActive, Carries, InFlight, Active
  <2>4. CarriedIsActive'
    BY <1>8 DEF SendSgi, Raised, ActiveCarried, OneCarrier, CarriedIsActive, Carries, InFlight, Active
  <2>5. ActiveIsCarried'
    <3> SUFFICES ASSUME NEW i1 \in Irqs, Active(i1)'
                 PROVE  \/ \E c1 \in Cpus, n1 \in Lrs : Carries(c1, n1, i1)'
                        \/ \E c1 \in Cpus : at'[c1] = "panic" /\ iar'[c1] = i1
      BY DEF ActiveIsCarried
    <3>1. /\ Active(i1)
          /\ \A c1 \in Cpus, n1 \in Lrs : Carries(c1, n1, i1) => Carries(c1, n1, i1)'
          /\ \A c1 \in Cpus : at[c1] = "panic" /\ iar[c1] = i1
               => at'[c1] = "panic" /\ iar'[c1] = i1
      BY <1>8 DEF SendSgi, Raised, Carries, InFlight, Active
    <3> QED
      BY <3>1, StillCarried
  <2>6. PanicOnlyWhenFull'
    BY <1>8 DEF SendSgi, Raised, PanicOnlyWhenFull, InFlight
  <2>7. HypExact'
    BY <1>8 DEF SendSgi, Raised, HypExact, InFlight
  <2>8. OffEmpty'
    BY <1>8 DEF SendSgi, Raised, OffEmpty, InFlight
  <2>9. ActiveIsReal'
    BY <1>8 DEF SendSgi, Raised, ActiveIsReal
  <2> QED
    BY <2>1, <2>2, <2>3, <2>4, <2>5, <2>6, <2>7, <2>8, <2>9 DEF ActiveCarried
<1>9. ASSUME NEW c \in Cpus, NEW n \in Lrs, GuestAck(c, n) PROVE IInv'
  <2>1. TypeOK'
    BY <1>9 DEF GuestAck
  <2>2. InFlightUsed'
    BY <1>9 DEF GuestAck, InFlightUsed, InFlight
  <2>3. OneCarrier'
    BY <1>9 DEF GuestAck, ActiveCarried, OneCarrier, CarriedIsActive, Carries, InFlight, Active
  <2>4. CarriedIsActive'
    BY <1>9 DEF GuestAck, ActiveCarried, OneCarrier, CarriedIsActive, Carries, InFlight, Active
  <2>5. ActiveIsCarried'
    <3> SUFFICES ASSUME NEW i1 \in Irqs, Active(i1)'
                 PROVE  \/ \E c1 \in Cpus, n1 \in Lrs : Carries(c1, n1, i1)'
                        \/ \E c1 \in Cpus : at'[c1] = "panic" /\ iar'[c1] = i1
      BY DEF ActiveIsCarried
    <3>1. /\ Active(i1)
          /\ \A c1 \in Cpus, n1 \in Lrs : Carries(c1, n1, i1) => Carries(c1, n1, i1)'
          /\ \A c1 \in Cpus : at[c1] = "panic" /\ iar[c1] = i1
               => at'[c1] = "panic" /\ iar'[c1] = i1
      BY <1>9 DEF GuestAck, Carries, InFlight, Active
    <3> QED
      BY <3>1, StillCarried
  <2>6. PanicOnlyWhenFull'
    BY <1>9 DEF GuestAck, PanicOnlyWhenFull, InFlight
  <2>7. HypExact'
    BY <1>9 DEF GuestAck, HypExact, InFlight
  <2>8. OffEmpty'
    BY <1>9 DEF GuestAck, OffEmpty, InFlight
  <2>9. ActiveIsReal'
    BY <1>9 DEF GuestAck, ActiveIsReal
  <2> QED
    BY <2>1, <2>2, <2>3, <2>4, <2>5, <2>6, <2>7, <2>8, <2>9 DEF ActiveCarried
<1>10. ASSUME NEW c \in Cpus, NEW n \in Lrs, GuestEoi(c, n) PROVE IInv'
  <2>1. TypeOK'
    BY <1>10 DEF GuestEoi, Deactivated, ActiveIsReal
  <2>2. InFlightUsed'
    BY <1>10 DEF GuestEoi, Deactivated, InFlightUsed, InFlight, ActiveIsReal
  <2>3. OneCarrier'
    BY <1>10 DEF GuestEoi, Deactivated, ActiveCarried, OneCarrier, CarriedIsActive, Carries, InFlight, Active, ActiveIsReal
  <2>4. CarriedIsActive'
    BY <1>10 DEF GuestEoi, Deactivated, ActiveCarried, OneCarrier, CarriedIsActive, Carries, InFlight, Active, ActiveIsReal
  <2>5. ActiveIsCarried'
    <3> SUFFICES ASSUME NEW i1 \in Irqs, Active(i1)'
                 PROVE  \/ \E c1 \in Cpus, n1 \in Lrs : Carries(c1, n1, i1)'
                        \/ \E c1 \in Cpus : at'[c1] = "panic" /\ iar'[c1] = i1
      BY DEF ActiveIsCarried
    <3>1. /\ Active(i1)
          /\ \A c1 \in Cpus, n1 \in Lrs : Carries(c1, n1, i1) => Carries(c1, n1, i1)'
          /\ \A c1 \in Cpus : at[c1] = "panic" /\ iar[c1] = i1
               => at'[c1] = "panic" /\ iar'[c1] = i1
      BY <1>10 DEF GuestEoi, Deactivated, Carries, InFlight, Active, ActiveIsReal, ActiveCarried, CarriedIsActive
    <3> QED
      BY <3>1, StillCarried
  <2>6. PanicOnlyWhenFull'
    BY <1>10 DEF GuestEoi, Deactivated, PanicOnlyWhenFull, InFlight, ActiveIsReal
  <2>7. HypExact'
    BY <1>10 DEF GuestEoi, Deactivated, HypExact, InFlight, ActiveIsReal
  <2>8. OffEmpty'
    BY <1>10 DEF GuestEoi, Deactivated, OffEmpty, InFlight, ActiveIsReal
  <2>9. ActiveIsReal'
    BY <1>10 DEF GuestEoi, Deactivated, ActiveIsReal
  <2> QED
    BY <2>1, <2>2, <2>3, <2>4, <2>5, <2>6, <2>7, <2>8, <2>9 DEF ActiveCarried
<1> QED
  BY <1>1, <1>2, <1>3, <1>4, <1>5, <1>7, <1>8, <1>9, <1>10 DEF Next

-----------------------------------------------------------------------------
(* Enough list registers: one for each interrupt, none of which can be       *)
(* withdrawn or taken by another CPU, so that no 1023 is injected.           *)

Enough ==
  /\ IsFiniteSet(Irqs) /\ Cardinality(Irqs) <= NumLr
  /\ Levels = {}
  /\ \A i \in Irqs : \A c, d \in Targets[i] : c = d

\* What the handler was called for is still there when it reads ICC_IAR1.
StillSignalled == \A c \in Cpus : at[c] = "hyp" => Signalled(c) # {}

AllReal == \A c \in Cpus, n \in Lrs : InFlight(c, n) => lrIrq[c][n] # Spurious

EnoughInv == IInv /\ NeverNoLr /\ StillSignalled /\ AllReal

\* With an interrupt to forward, some register is not in flight.
LEMMA SomeLrFree ==
  ASSUME Enough, EnoughInv, NEW c \in Cpus, NEW i \in Irqs, gic[i] = "pending"
  PROVE  \E n \in Lrs : ~ InFlight(c, n)
<1> SUFFICES ASSUME \A n \in Lrs : InFlight(c, n)
             PROVE  FALSE
  OBVIOUS
<1> DEFINE f == [n \in Lrs |-> lrIrq[c][n]]
           T == Irqs \ {i}
<1>1. f \in [Lrs -> T]
  <2> SUFFICES ASSUME NEW n \in Lrs
               PROVE  lrIrq[c][n] \in T
    OBVIOUS
  <2>1. lrIrq[c][n] \in Irqs
    BY DEF EnoughInv, AllReal, IInv, TypeOK
  <2>2. Active(lrIrq[c][n])
    BY <2>1 DEF EnoughInv, IInv, ActiveCarried, CarriedIsActive, Carries
  <2> QED
    BY <2>1, <2>2 DEF Active
<1>2. \A n, m \in Lrs : f[n] = f[m] => n = m
  BY <1>1 DEF EnoughInv, IInv, ActiveCarried, OneCarrier, Carries
<1>3. IsFiniteSet(T) /\ Cardinality(T) = Cardinality(Irqs) - 1
  BY FS_RemoveElement DEF Enough
<1>4. IsFiniteSet(Lrs) /\ Cardinality(Lrs) = NumLr
  BY FS_Interval, VgicIrqAssumption DEF Lrs
<1>5. Cardinality(Irqs) \in Nat
  BY FS_CardinalityType DEF Enough
<1>6. Cardinality(T) < Cardinality(Lrs)
  BY <1>3, <1>4, <1>5, VgicIrqAssumption DEF Enough
<1> HIDE DEF f, T
<1> QED
  BY <1>1, <1>2, <1>3, <1>4, <1>6, FS_PigeonHole

LEMMA ForwardFills ==
  ASSUME Enough, EnoughInv, NEW c \in Cpus, NEW i \in Irqs, Forward(c, i)
  PROVE  \E n \in Lrs :
           /\ at' = [at EXCEPT ![c] = "guest"]
           /\ lrState' = [lrState EXCEPT ![c][n] = "pending"]
           /\ lrIrq' = [lrIrq EXCEPT ![c][n] = i]
<1>1. at[c] = "hyp" /\ gic[i] = "pending" /\ Inject(c, i)
  BY DEF Forward, Signalled
<1>2. IInv
  BY DEF EnoughInv
<1>3. ~ \A n \in Lrs : InFlight(c, n)
  BY <1>1, SomeLrFree
<1> QED
  BY <1>1, <1>2, <1>3, InjectCases

LEMMA EnoughStep == ASSUME Enough, EnoughInv, [Next]_vars PROVE EnoughInv'
<1>i. IInv /\ IInv'
  BY InvStep DEF EnoughInv
<1> DEFINE Rest == NeverNoLr /\ StillSignalled /\ AllReal
<1> SUFFICES Rest'
  BY <1>i DEF EnoughInv
<1> USE <1>i, VgicIrqAssumption
    DEF EnoughInv, Enough, NeverNoLr, StillSignalled, AllReal, Signalled, InFlight,
      IInv, TypeOK, Goto
<1>1. CASE UNCHANGED vars
  BY <1>1 DEF vars
<1>2. ASSUME NEW i \in Irqs, Raise(i) \/ Withdraw(i) PROVE Rest'
  BY <1>2 DEF Raise, Withdraw, Raised
<1>3. ASSUME NEW c \in Cpus, Enter(c) PROVE Rest'
  BY <1>3 DEF Enter
<1>4. ASSUME NEW c \in Cpus, Trap(c) PROVE Rest'
  BY <1>4 DEF Trap
<1>5. ASSUME NEW c \in Cpus, NEW i \in Irqs, Forward(c, i) PROVE Rest'
  <2>1. at[c] = "hyp" /\ gic[i] = "pending" /\ c \in Targets[i]
    BY <1>5 DEF Forward
  <2>2. PICK n \in Lrs :
          /\ at' = [at EXCEPT ![c] = "guest"]
          /\ lrState' = [lrState EXCEPT ![c][n] = "pending"]
          /\ lrIrq' = [lrIrq EXCEPT ![c][n] = i]
    BY <1>5, ForwardFills
  <2>3. NeverNoLr'
    BY <2>2
  <2>4. AllReal'
    BY <2>2
  <2>5. StillSignalled'
    BY <1>5, <2>1, <2>2 DEF Forward, GuestEoiState
  <2> QED
    BY <2>3, <2>4, <2>5
<1>6. ASSUME NEW c \in Cpus, ForwardSpurious(c) PROVE FALSE
  BY <1>6 DEF ForwardSpurious
<1>7. ASSUME NEW c \in Cpus, NEW S \in SUBSET Sgis, SendSgi(c, S) PROVE Rest'
  BY <1>7 DEF SendSgi, Raised
<1>8. ASSUME NEW c \in Cpus, NEW n \in Lrs, GuestAck(c, n) PROVE Rest'
  BY <1>8 DEF GuestAck
<1>9. ASSUME NEW c \in Cpus, NEW n \in Lrs, GuestEoi(c, n) PROVE Rest'
  <2>1. gic[lrIrq[c][n]] # "pending"
    BY <1>9 DEF GuestEoi, ActiveCarried, CarriedIsActive, Carries, Active, ActiveIsReal
  <2> QED
    BY <1>9, <2>1 DEF GuestEoi, Deactivated
<1> QED
  BY <1>1, <1>2, <1>3, <1>4, <1>5, <1>6, <1>7, <1>8, <1>9 DEF Next, Handle

-----------------------------------------------------------------------------
(* The refinement of VirtIrq: what each step does to the line of each         *)
(* interrupt, and to whether it is raised again.                             *)

Same(i) == Line(i)' = Line(i) /\ Again(i)' = Again(i)

\* The one register that carries i decides its line.
LEMMA LineCarried ==
  ASSUME IInv, NEW i \in Irqs, NEW c \in Cpus, NEW n \in Lrs, Carries(c, n, i)
  PROVE  /\ Given(i) /\ Active(i)
         /\ lrState[c][n] = "active" => Line(i) = "taken"
         /\ lrState[c][n] = "pending" => Line(i) = "given"
<1>1. Given(i) /\ Active(i)
  BY DEF Given, IInv, ActiveCarried, CarriedIsActive
<1>2. ASSUME NEW d \in Cpus, NEW m \in Lrs, Carries(d, m, i) PROVE d = c /\ m = n
  BY <1>2 DEF IInv, ActiveCarried, OneCarrier
<1> QED
  BY <1>1, <1>2 DEF Line

\* Without a register, the physical interrupt does.
LEMMA LineFree ==
  ASSUME NEW i \in Irqs, ~ Given(i)
  PROVE  /\ Line(i) = (IF gic[i] = "inactive" THEN "idle" ELSE "pending")
         /\ Again(i) = FALSE
BY DEF Line, Again

\* What does not touch the registers that carry i leaves the line alone.
LEMMA SameCarriers ==
  ASSUME NEW i \in Irqs, gic'[i] = gic[i],
         \A c \in Cpus, n \in Lrs :
           /\ Carries(c, n, i)' <=> Carries(c, n, i)
           /\ Carries(c, n, i) => lrState'[c][n] = lrState[c][n]
  PROVE  Same(i)
<1>1. Given(i)' <=> Given(i)
  BY DEF Given
<1>2. Again(i)' = Again(i)
  BY <1>1 DEF Again
<1>3. Line(i)' = Line(i)
  BY <1>1 DEF Line
<1> QED
  BY <1>2, <1>3 DEF Same

\* The same when it is the physical interrupt that is touched.
LEMMA SameRegisters ==
  ASSUME UNCHANGED <<lrState, lrIrq>>, NEW i \in Irqs
  PROVE  /\ Given(i)' <=> Given(i)
         /\ Given(i) => Line(i)' = Line(i)
BY DEF Given, Line, Carries, InFlight

\* Raise(i) and SendSgi(c, S) raise the lines of a set of interrupts.
LEMMA RaiseRefines ==
  ASSUME IInv, NEW S \in SUBSET Irqs, UNCHANGED <<lrState, lrIrq>>,
         gic' = [i \in Irqs |-> IF i \in S THEN Raised(gic[i]) ELSE gic[i]]
  PROVE  Virt!Raise(S)
<1> USE DEF IInv, TypeOK
<1>1. ASSUME NEW i \in Irqs
      PROVE  /\ Line(i)' = IF i \in S /\ Line(i) = "idle" THEN "pending" ELSE Line(i)
             /\ Again(i)' = (Again(i) \/ (i \in S /\ Line(i) \in {"given", "taken"}))
  <2>1. CASE Given(i)
    <3>1. Line(i)' = Line(i) /\ Line(i) \in {"given", "taken"} /\ Given(i)'
      BY <2>1, SameRegisters DEF Line
    <3>2. Active(i)
      BY <2>1, LineCarried DEF Given
    <3> QED
      BY <2>1, <3>1, <3>2 DEF Again, Active, Raised
  <2>2. CASE ~ Given(i)
    <3>1. ~ Given(i)'
      BY <2>2, SameRegisters
    <3>2. /\ Line(i)' = IF gic'[i] = "inactive" THEN "idle" ELSE "pending"
          /\ Again(i)' = FALSE
      BY <3>1 DEF Line, Again
    <3> QED
      BY <2>2, <3>2, LineFree DEF Raised
  <2> QED
    BY <2>1, <2>2
<1> QED
  BY <1>1 DEF Virt!Raise

\* Withdraw(i) takes back a line that the guest has not been given, or a second
\* raising; one that no register carries after a panic stays as it is.
LEMMA WithdrawRefines ==
  ASSUME IInv, NEW i \in Irqs, Withdraw(i)
  PROVE  Virt!Withdraw(i) \/ \A j \in Irqs : Same(j)
<1> USE DEF IInv, TypeOK
<1>1. /\ i \in Levels /\ gic[i] \in {"pending", "actpend"}
      /\ gic'[i] = (IF gic[i] = "pending" THEN "inactive" ELSE "active")
      /\ UNCHANGED <<lrState, lrIrq>>
  BY DEF Withdraw
<1>2. ASSUME NEW j \in Irqs \ {i} PROVE Same(j)
  <2>1. gic'[j] = gic[j]
    BY DEF Withdraw
  <2> QED
    BY <1>1, <2>1, SameCarriers DEF Carries, InFlight
<1>3. CASE Given(i)
  <2>1. Line(i)' = Line(i) /\ Line(i) \in {"given", "taken"} /\ Again(i)' = FALSE
    BY <1>1, <1>3, SameRegisters DEF Line, Again
  <2> QED
    BY <1>1, <1>2, <2>1 DEF Virt!Withdraw, Same
<1>4. CASE ~ Given(i)
  <2>1. ~ Given(i)'
    BY <1>1, <1>4, SameRegisters
  <2>2. /\ Line(i)' = (IF gic'[i] = "inactive" THEN "idle" ELSE "pending")
        /\ Again(i)' = FALSE
    BY <2>1 DEF Line, Again
  <2>3. Line(i) = "pending" /\ Again(i) = FALSE
    BY <1>1, <1>4, LineFree
  <2>4. CASE gic[i] = "pending"
    BY <1>1, <1>2, <2>2, <2>3, <2>4 DEF Virt!Withdraw, Same
  <2>5. CASE gic[i] = "actpend"
    BY <1>1, <1>2, <2>2, <2>3, <2>5 DEF Same
  <2> QED
    BY <1>1, <2>4, <2>5
<1> QED
  BY <1>3, <1>4

\* The handler gives a pending interrupt to the guest; a 1023, or a panic that
\* leaves it active in no register, gives it nothing.
LEMMA HandleRefines ==
  ASSUME IInv, NEW c \in Cpus, Handle(c)
  PROVE  (\E i \in Irqs : Virt!Give(i)) \/ \A j \in Irqs : Same(j)
<1> USE VgicIrqAssumption DEF IInv, TypeOK
<1>1. ASSUME NEW v \in Irqs \cup {Spurious}, at[c] = "hyp", Inject(c, v),
             \/ v = Spurious /\ UNCHANGED gic
             \/ v \in Irqs /\ gic[v] = "pending" /\ gic' = [gic EXCEPT ![v] = "active"]
      PROVE  (\E i \in Irqs : Virt!Give(i)) \/ \A j \in Irqs : Same(j)
  <2>1. ASSUME v \in Irqs PROVE ~ Given(v) /\ Line(v) = "pending" /\ Again(v) = FALSE
    <3>1. gic[v] = "pending"
      BY <1>1, <2>1
    <3>2. ~ Given(v)
      BY <2>1, <3>1, LineCarried DEF Given, Active
    <3> QED
      BY <2>1, <3>1, <3>2, LineFree
  <2>2. CASE UNCHANGED <<lrState, lrIrq>>
    <3>1. ASSUME NEW j \in Irqs \ {v} PROVE Same(j)
      <4>1. gic'[j] = gic[j]
        BY <1>1
      <4> QED
        BY <2>2, <4>1, SameCarriers DEF Carries, InFlight
    <3>2. ASSUME v \in Irqs PROVE Same(v)
      <4>1. ~ Given(v)' /\ gic'[v] = "active"
        BY <1>1, <2>1, <2>2, <3>2, SameRegisters
      <4> QED
        BY <2>1, <3>2, <4>1 DEF Same, Line, Again
    <3> QED
      BY <3>1, <3>2
  <2>3. ASSUME NEW n \in Lrs,
               ~ InFlight(c, n),
               lrState' = [lrState EXCEPT ![c][n] = "pending"],
               lrIrq' = [lrIrq EXCEPT ![c][n] = v]
        PROVE  (\E i \in Irqs : Virt!Give(i)) \/ \A j \in Irqs : Same(j)
    <3>1. /\ lrState'[c][n] = "pending" /\ lrIrq'[c][n] = v
          /\ \A d \in Cpus, m \in Lrs : d # c \/ m # n =>
               lrState'[d][m] = lrState[d][m] /\ lrIrq'[d][m] = lrIrq[d][m]
      BY <2>3
    <3>2. ASSUME NEW j \in Irqs \ {v} PROVE Same(j)
      <4>1. gic'[j] = gic[j]
        BY <1>1
      <4>2. ASSUME NEW d \in Cpus, NEW m \in Lrs
            PROVE  /\ Carries(d, m, j)' <=> Carries(d, m, j)
                   /\ Carries(d, m, j) => lrState'[d][m] = lrState[d][m]
        <5>1. CASE d = c /\ m = n
          BY <2>3, <3>1, <3>2, <5>1 DEF Carries, InFlight
        <5>2. CASE d # c \/ m # n
          BY <3>1, <5>2 DEF Carries, InFlight
        <5> QED
          BY <5>1, <5>2
      <4> QED
        BY <4>1, <4>2, SameCarriers
    <3>3. CASE v = Spurious
      BY <3>2, <3>3
    <3>4. CASE v \in Irqs
      <4>1. Carries(c, n, v)'
        BY <3>1 DEF Carries, InFlight
      <4>2. ASSUME NEW d \in Cpus, NEW m \in Lrs, Carries(d, m, v)'
            PROVE  lrState'[d][m] # "active"
        <5>1. CASE d = c /\ m = n
          BY <3>1, <5>1
        <5>2. CASE d # c \/ m # n
          BY <2>1, <3>1, <3>4, <4>2, <5>2 DEF Carries, InFlight, Given
        <5> QED
          BY <5>1, <5>2
      <4>3. Line(v)' = "given"
        BY <4>1, <4>2 DEF Line, Given
      <4>4. Again(v)' = FALSE
        BY <1>1, <3>4 DEF Again
      <4>5. Virt!Give(v)
        BY <2>1, <3>2, <3>4, <4>3, <4>4 DEF Virt!Give, Virt!Move, Same
      <4> QED
        BY <3>4, <4>5
    <3> QED
      BY <3>3, <3>4
  <2>4. \/ UNCHANGED <<lrState, lrIrq>>
        \/ \E n \in Lrs :
             /\ ~ InFlight(c, n)
             /\ lrState' = [lrState EXCEPT ![c][n] = "pending"]
             /\ lrIrq' = [lrIrq EXCEPT ![c][n] = v]
    <3> HIDE DEF IInv, TypeOK
    <3> QED
      BY <1>1, InjectCases
  <2> QED
    BY <2>2, <2>3, <2>4
<1>2. ASSUME NEW i \in Irqs, Forward(c, i)
      PROVE  (\E k \in Irqs : Virt!Give(k)) \/ \A j \in Irqs : Same(j)
  BY <1>1, <1>2 DEF Forward, Signalled, GuestEoiState
<1>3. ASSUME ForwardSpurious(c)
      PROVE  (\E k \in Irqs : Virt!Give(k)) \/ \A j \in Irqs : Same(j)
  BY <1>1, <1>3 DEF ForwardSpurious
<1> QED
  BY <1>2, <1>3 DEF Handle

\* The guest takes the interrupt of a register; a 1023 just vanishes.
LEMMA AckRefines ==
  ASSUME IInv, IInv', NEW c \in Cpus, NEW n \in Lrs, GuestAck(c, n)
  PROVE  (\E i \in Irqs : Virt!Take(i)) \/ \A j \in Irqs : Same(j)
<1> USE VgicIrqAssumption DEF IInv, TypeOK
<1> SUFFICES ASSUME NEW v \in Irqs \cup {Spurious}, v = lrIrq[c][n]
             PROVE  (\E i \in Irqs : Virt!Take(i)) \/ \A j \in Irqs : Same(j)
  OBVIOUS
<1>1. /\ lrState[c][n] = "pending" /\ UNCHANGED <<gic, lrIrq>>
      /\ lrState'[c][n] = (IF v = Spurious THEN "inactive" ELSE "active")
      /\ \A d \in Cpus, m \in Lrs : d # c \/ m # n => lrState'[d][m] = lrState[d][m]
  BY DEF GuestAck
<1>2. ASSUME NEW j \in Irqs \ {v} PROVE Same(j)
  <2>1. ASSUME NEW d \in Cpus, NEW m \in Lrs
        PROVE  /\ Carries(d, m, j)' <=> Carries(d, m, j)
               /\ Carries(d, m, j) => lrState'[d][m] = lrState[d][m]
    <3>1. CASE d = c /\ m = n
      BY <1>1, <1>2, <3>1 DEF Carries, InFlight
    <3>2. CASE d # c \/ m # n
      BY <1>1, <3>2 DEF Carries, InFlight
    <3> QED
      BY <3>1, <3>2
  <2> QED
    BY <1>1, <2>1, SameCarriers
<1>3. CASE v = Spurious
  BY <1>2, <1>3
<1>4. CASE v \in Irqs
  <2>1. Carries(c, n, v) /\ Carries(c, n, v)'
    BY <1>1, <1>4 DEF Carries, InFlight
  <2>2. Line(v) = "given" /\ Given(v)
    BY <1>1, <1>4, <2>1, LineCarried
  <2>3. Line(v)' = "taken" /\ Given(v)'
    BY <1>1, <1>4, <2>1 DEF Line, Given
  <2>4. Again(v)' = Again(v)
    BY <1>1, <2>2, <2>3 DEF Again
  <2>5. Virt!Take(v)
    BY <1>2, <1>4, <2>2, <2>3, <2>4 DEF Virt!Take, Virt!Move, Same
  <2> QED
    BY <1>4, <2>5
<1> QED
  BY <1>1, <1>3, <1>4

\* The guest's end of interrupt ends the physical one, and with it the line.
LEMMA EoiRefines ==
  ASSUME IInv, NEW c \in Cpus, NEW n \in Lrs, GuestEoi(c, n)
  PROVE  \E i \in Irqs : Virt!Finish(i)
<1> USE VgicIrqAssumption DEF IInv, TypeOK
<1> SUFFICES ASSUME NEW v \in Irqs, v = lrIrq[c][n]
             PROVE  \E i \in Irqs : Virt!Finish(i)
  BY DEF GuestEoi, ActiveIsReal
<1>1. /\ lrState[c][n] = "active" /\ UNCHANGED lrIrq
      /\ lrState'[c][n] = "inactive"
      /\ gic' = [gic EXCEPT ![v] = Deactivated(gic[v])]
      /\ \A d \in Cpus, m \in Lrs : d # c \/ m # n => lrState'[d][m] = lrState[d][m]
  BY DEF GuestEoi, ActiveIsReal
<1>2. ASSUME NEW j \in Irqs \ {v} PROVE Same(j)
  <2>1. ASSUME NEW d \in Cpus, NEW m \in Lrs
        PROVE  /\ Carries(d, m, j)' <=> Carries(d, m, j)
               /\ Carries(d, m, j) => lrState'[d][m] = lrState[d][m]
    <3>1. CASE d = c /\ m = n
      BY <1>1, <1>2, <3>1 DEF Carries, InFlight
    <3>2. CASE d # c \/ m # n
      BY <1>1, <3>2 DEF Carries, InFlight
    <3> QED
      BY <3>1, <3>2
  <2>2. gic'[j] = gic[j]
    BY <1>1
  <2> QED
    BY <2>1, <2>2, SameCarriers
<1>3. Carries(c, n, v)
  BY <1>1 DEF Carries, InFlight
<1>4. Line(v) = "taken" /\ Given(v) /\ Active(v)
  BY <1>1, <1>3, LineCarried
<1>5. ~ Given(v)'
  <2> SUFFICES ASSUME NEW d \in Cpus, NEW m \in Lrs, Carries(d, m, v)' PROVE FALSE
    BY DEF Given
  <2>1. d # c \/ m # n
    BY <1>1 DEF Carries, InFlight
  <2>2. Carries(d, m, v)
    BY <1>1, <2>1 DEF Carries, InFlight
  <2> QED
    BY <1>1, <1>3, <2>1, <2>2 DEF ActiveCarried, OneCarrier
<1>6. /\ Line(v)' = (IF Again(v) THEN "pending" ELSE "idle")
      /\ Again(v)' = FALSE
  BY <1>1, <1>4, <1>5 DEF Line, Again, Active, Deactivated
<1> DEFINE line == [i \in Irqs |-> Line(i)]
           again == [i \in Irqs |-> Again(i)]
<1>7. line[v] = "taken" /\ line' = [line EXCEPT ![v] = IF again[v] THEN "pending" ELSE "idle"]
  BY <1>2, <1>4, <1>6 DEF Same
<1>8. again' = [again EXCEPT ![v] = FALSE]
  <2>1. again' = [j \in Irqs |-> IF j = v THEN FALSE ELSE Again(j)]
    BY <1>2, <1>6, Zenon DEF Same
  <2> QED
    BY <2>1
<1> QED
  BY <1>7, <1>8, Zenon DEF Virt!Finish, Virt!Move

\* Every step is a step of the abstract lines, or leaves them alone.
LEMMA VirtStep == ASSUME IInv, IInv', [Next]_vars PROVE [Virt!Next]_(Virt!vars)
<1> USE VgicIrqAssumption
<1>1. ASSUME \A j \in Irqs : Same(j) PROVE UNCHANGED Virt!vars
  BY <1>1 DEF Same, Virt!vars
<1>2. ASSUME NEW i \in Irqs, Raise(i) PROVE Virt!Next
  <2>1. Virt!Raise({i})
    <3>1. gic' = [j \in Irqs |-> IF j \in {i} THEN Raised(gic[j]) ELSE gic[j]]
      BY <1>2 DEF Raise, IInv, TypeOK
    <3> QED
      BY <1>2, <3>1, RaiseRefines DEF Raise
  <2> QED
    BY <2>1 DEF Virt!Next
<1>3. ASSUME NEW i \in Irqs, Withdraw(i) PROVE [Virt!Next]_(Virt!vars)
  BY <1>1, <1>3, WithdrawRefines DEF Virt!Next
<1>4. ASSUME NEW c \in Cpus, NEW S \in SUBSET Sgis, SendSgi(c, S) PROVE Virt!Next
  <2>1. Virt!Raise(S)
    BY <1>4, RaiseRefines DEF SendSgi
  <2> QED
    BY <2>1 DEF Virt!Next
<1>5. ASSUME NEW c \in Cpus, Handle(c) PROVE [Virt!Next]_(Virt!vars)
  BY <1>1, <1>5, HandleRefines DEF Virt!Next
<1>6. ASSUME NEW c \in Cpus, NEW n \in Lrs, GuestAck(c, n) PROVE [Virt!Next]_(Virt!vars)
  BY <1>1, <1>6, AckRefines DEF Virt!Next
<1>7. ASSUME NEW c \in Cpus, NEW n \in Lrs, GuestEoi(c, n) PROVE Virt!Next
  BY <1>7, EoiRefines DEF Virt!Next
<1>8. ASSUME NEW c \in Cpus, Enter(c) PROVE UNCHANGED Virt!vars
  <2>1. ASSUME NEW j \in Irqs PROVE Same(j)
    <3>1. ASSUME NEW d \in Cpus, NEW m \in Lrs
          PROVE  /\ Carries(d, m, j)' <=> Carries(d, m, j)
                 /\ Carries(d, m, j) => lrState'[d][m] = lrState[d][m]
      <4>1. CASE d = c
        BY <1>8, <4>1 DEF Enter, IInv, TypeOK, OffEmpty, Carries, InFlight
      <4>2. CASE d # c
        BY <1>8, <4>2 DEF Enter, IInv, TypeOK, Carries, InFlight
      <4> QED
        BY <4>1, <4>2
    <3> QED
      BY <1>8, <3>1, SameCarriers DEF Enter
  <2> QED
    BY <1>1, <2>1
<1>9. ASSUME NEW c \in Cpus, Trap(c) PROVE UNCHANGED Virt!vars
  <2>1. ASSUME NEW j \in Irqs PROVE Same(j)
    BY <1>9, SameCarriers DEF Trap, Carries, InFlight
  <2> QED
    BY <1>1, <2>1
<1>10. CASE UNCHANGED vars
  <2>1. ASSUME NEW j \in Irqs PROVE Same(j)
    BY <1>10, SameCarriers DEF vars, Carries, InFlight
  <2> QED
    BY <1>1, <2>1
<1> QED
  BY <1>2, <1>3, <1>4, <1>5, <1>6, <1>7, <1>8, <1>9, <1>10 DEF Next

-----------------------------------------------------------------------------
(* Theorems *)

\* No list register that the guest has not finished with is ever marked free
\* (vgic.c:62-73), so none is overwritten.
THEOREM NoneOverwritten == Spec => []InFlightUsed
<1>1. Init => IInv
  BY InitInv
<1>2. IInv /\ [Next]_vars => IInv'
  BY InvStep
<1>3. IInv => InFlightUsed
  BY DEF IInv
<1> QED
  BY <1>1, <1>2, <1>3, PTL DEF Spec

\* Every active physical interrupt has exactly one list register that will
\* deactivate it, on any number of CPUs: none is lost or deactivated twice.
THEOREM NoneLost == Spec => []ActiveCarried
<1>1. Init => IInv
  BY InitInv
<1>2. IInv /\ [Next]_vars => IInv'
  BY InvStep
<1>3. IInv => ActiveCarried
  BY DEF IInv
<1> QED
  BY <1>1, <1>2, <1>3, PTL DEF Spec

\* The types, and that "no lr" means what it says: the reclaiming of registers
\* leaves none marked that the guest has finished with.
THEOREM PanicJustified == Spec => [](TypeOK /\ PanicOnlyWhenFull)
<1>1. Init => IInv
  BY InitInv
<1>2. IInv /\ [Next]_vars => IInv'
  BY InvStep
<1>3. IInv => TypeOK /\ PanicOnlyWhenFull
  BY DEF IInv
<1> QED
  BY <1>1, <1>2, <1>3, PTL DEF Spec

\* As many registers as interrupts, no withdrawals and no shared targets:
\* then the panic of vgic.c:114 is out of reach, whatever the guest does.
THEOREM EnoughLrs == ASSUME Enough PROVE Spec => []NeverNoLr
<1>1. Init => EnoughInv
  BY InitInv DEF Init, EnoughInv, NeverNoLr, StillSignalled, AllReal, InFlight
<1>2. EnoughInv /\ [Next]_vars => EnoughInv'
  BY EnoughStep
<1>3. EnoughInv => NeverNoLr
  BY DEF EnoughInv
<1> QED
  BY <1>1, <1>2, <1>3, PTL DEF Spec

\* Every interrupt is given to the guest once for each time that it is
\* signalled, taken once and ended once, whichever CPUs handle it, and also
\* when it is withdrawn meanwhile or the registers run out (trap.c:47-72).
THEOREM RefinesVirtIrq == Spec => ImplementsVirtIrq
<1>1. Init => IInv
  BY InitInv
<1>2. IInv /\ [Next]_vars => IInv'
  BY InvStep
<1>3. Init => Virt!Init
  <2> SUFFICES ASSUME Init PROVE Virt!Init
    OBVIOUS
  <2>1. ASSUME NEW i \in Irqs PROVE ~ Given(i)
    BY DEF Init, Given, Carries, InFlight
  <2>2. ASSUME NEW i \in Irqs PROVE Line(i) = "idle" /\ Again(i) = FALSE
    BY <2>1, LineFree DEF Init
  <2>3. [i \in Irqs |-> Line(i)] = [i \in Irqs |-> "idle"]
    BY <2>2
  <2>4. [i \in Irqs |-> Again(i)] = [i \in Irqs |-> FALSE]
    BY <2>2
  <2> QED
    BY <2>3, <2>4 DEF Virt!Init
<1>4. IInv /\ IInv' /\ [Next]_vars => [Virt!Next]_(Virt!vars)
  BY VirtStep
<1> QED
  BY <1>1, <1>2, <1>3, <1>4, PTL DEF Spec, ImplementsVirtIrq, Virt!Spec
=============================================================================
