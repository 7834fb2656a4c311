--------------------------- MODULE SpinlockProofs --------------------------
(***************************************************************************)
(* Spinlock, for any number of CPUs.  Mutual exclusion and the refinement   *)
(* of Mutex hold in whatever order stores drain; that no check of acquire() *)
(* or release() fires, and that no update is lost, needs the store that     *)
(* frees the lock to drain last (InOrder).                                  *)
(***************************************************************************)
EXTENDS Spinlock, TLAPS

Free == \A c \in Cpus : ~ Holds(c)

\* The lock bit is set exactly while someone holds the lock, and one CPU does.
LockBit ==
  /\ \A c, d \in Cpus : Holds(c) /\ Holds(d) => c = d
  /\ mem["lock"] = 1 <=> ~ Free
  /\ \A c \in Cpus : monitor[c] => mem["lock"] = 0

\* Only the holder has pending stores, and the last of them frees the lock.
Buffers == \A c \in Cpus :
  /\ ~ Holds(c) => \A l \in Locs : sb[c][l] = Empty
  /\ sb[c]["lock"] # Empty => /\ sb[c]["lock"] = 0
                              /\ pc[c] \in {"idle", "chklock", "ldaxr"}

\* lk->cpuid names the holder or nobody.
Owner ==
  /\ Free => mem["owner"] = NoCpu
  /\ \A c \in Cpus :
       /\ Holds(c) => mem["owner"] \in {c, NoCpu}
       /\ pc[c] \in {"cs", "rel"} => Read(c, "owner") = c

\* The holder reads every earlier update, and so does memory once it is free.
Data ==
  /\ Free => mem["data"] = done
  /\ \A c \in Cpus : Holds(c) => Read(c, "data") = done
  
\* The value of cpuid that the holder leaves behind.
Cleared == \A c \in Cpus :
  pc[c] \in {"setowner", "rellock"} \/ sb[c]["lock"] # Empty => Read(c, "owner") = NoCpu

IInv == TypeOK /\ NeverPanics /\ LockBit /\ Buffers /\ Owner /\ Cleared /\ Data

-----------------------------------------------------------------------------

\* The first state.
LEMMA InitInv == ASSUME Init PROVE IInv
BY SpinlockAssumption DEF Init, IInv, TypeOK, NeverPanics, LockBit, Buffers, Owner,
  Cleared, Data, Free, Holds, InCs, Read, Locs, Owners, Counts, Pcs

\* Every step keeps the types.
LEMMA TypeStep == ASSUME TypeOK, [Next]_vars PROVE TypeOK'
<1> USE SpinlockAssumption DEF TypeOK, Goto, Locs, Owners, Counts, Pcs
<1>1. CASE UNCHANGED vars  BY <1>1 DEF vars
<1>2. ASSUME NEW c \in Cpus, Acquire(c) PROVE TypeOK'
  BY <1>2 DEF Acquire
<1>3. ASSUME NEW c \in Cpus, CheckLock(c) PROVE TypeOK'
  BY <1>3 DEF CheckLock
<1>4. ASSUME NEW c \in Cpus, CheckOwner(c) PROVE TypeOK'
  BY <1>4 DEF CheckOwner
<1>5. ASSUME NEW c \in Cpus, Ldaxr(c) PROVE TypeOK'
  BY <1>5 DEF Ldaxr
<1>6. ASSUME NEW c \in Cpus, StxrOk(c) PROVE TypeOK'
  BY <1>6 DEF StxrOk
<1>7. ASSUME NEW c \in Cpus, StxrFail(c) PROVE TypeOK'
  BY <1>7 DEF StxrFail
<1>8. ASSUME NEW c \in Cpus, SetOwner(c) PROVE TypeOK'
  BY <1>8 DEF SetOwner, Store
<1>9. ASSUME NEW c \in Cpus, Critical(c) PROVE TypeOK'
  BY <1>9 DEF Critical, Store, NextData, Read
<1>10. ASSUME NEW c \in Cpus, ReleaseOwner(c) PROVE TypeOK'
  BY <1>10 DEF ReleaseOwner, Store
<1>11. ASSUME NEW c \in Cpus, ReleaseLock(c) PROVE TypeOK'
  BY <1>11 DEF ReleaseLock, Store
<1>12. ASSUME NEW c \in Cpus, NEW l \in Locs, Drain(c, l) PROVE TypeOK'
  BY <1>12 DEF Drain
<1>13. ASSUME NEW c \in Cpus, LoseReservation(c) PROVE TypeOK'
  BY <1>13 DEF LoseReservation
<1> QED
  BY <1>1, <1>2, <1>3, <1>4, <1>5, <1>6, <1>7, <1>8, <1>9, <1>10, <1>11, <1>12, <1>13
  DEF Next, Step

\* Every step keeps the invariant.
LEMMA InvStep == ASSUME InOrder, IInv, [Next]_vars PROVE IInv'
<1> USE SpinlockAssumption DEF Goto, Locs, Owners, Counts, Holds, InCs, Read, Free
<1> DEFINE Rest == NeverPanics /\ LockBit /\ Buffers /\ Owner /\ Cleared /\ Data
<1>t. TypeOK /\ TypeOK'
  BY TypeStep DEF IInv
<1>r. NeverPanics /\ LockBit /\ Buffers /\ Owner /\ Cleared /\ Data
  BY DEF IInv
<1> SUFFICES Rest'
  BY <1>t DEF IInv
<1> USE <1>t, <1>r DEF TypeOK, NeverPanics, LockBit, Buffers, Owner, Cleared, Data
<1>1. CASE UNCHANGED vars  BY <1>1 DEF vars
<1>2. ASSUME NEW c \in Cpus, Acquire(c) PROVE Rest'
  BY <1>2 DEF Acquire
<1>3. ASSUME NEW c \in Cpus, CheckLock(c) PROVE Rest'
  BY <1>3 DEF CheckLock
<1>4. ASSUME NEW c \in Cpus, CheckOwner(c) PROVE Rest'
  BY <1>4 DEF CheckOwner
<1>5. ASSUME NEW c \in Cpus, Ldaxr(c) PROVE Rest'
  BY <1>5 DEF Ldaxr
<1>6. ASSUME NEW c \in Cpus, StxrOk(c) PROVE Rest'
  BY <1>6 DEF StxrOk, Exclusive
<1>7. ASSUME NEW c \in Cpus, StxrFail(c) PROVE Rest'
  BY <1>7 DEF StxrFail
<1>8. ASSUME NEW c \in Cpus, SetOwner(c) PROVE Rest'
  BY <1>8 DEF SetOwner, Store
<1>9. ASSUME NEW c \in Cpus, Critical(c) PROVE Rest'
  BY <1>9 DEF Critical, Store, NextData
<1>10. ASSUME NEW c \in Cpus, ReleaseOwner(c) PROVE Rest'
  BY <1>10 DEF ReleaseOwner, Store, HoldingLk
<1>11. ASSUME NEW c \in Cpus, ReleaseLock(c) PROVE Rest'
  BY <1>11 DEF ReleaseLock, Store
<1>12. ASSUME NEW c \in Cpus, NEW l \in Locs, Drain(c, l) PROVE Rest'
  BY <1>12 DEF Drain, MayDrain
<1>13. ASSUME NEW c \in Cpus, LoseReservation(c) PROVE Rest'
  BY <1>13 DEF LoseReservation
<1> QED
  BY <1>1, <1>2, <1>3, <1>4, <1>5, <1>6, <1>7, <1>8, <1>9, <1>10, <1>11, <1>12, <1>13
  DEF Next, Step

-----------------------------------------------------------------------------
(* Whatever the order: the part of the argument that is about the lock bit.  *)

\* One holder at most; the bit is set while there is one, and no monitor
\* survives the stxr that set it.
BitInv ==
  /\ TypeOK
  /\ MutualExclusion
  /\ \A c \in Cpus : Holds(c) => mem["lock"] = 1
  /\ \A c \in Cpus : monitor[c] => mem["lock"] = 0
  /\ \A c \in Cpus : sb[c]["lock"] # Empty => ~ InCs(c)

LEMMA BitInvStep == ASSUME BitInv, [Next]_vars PROVE BitInv'
<1> USE SpinlockAssumption DEF Goto, Locs, Owners, Counts, Holds, InCs, MutualExclusion
<1>t. TypeOK /\ TypeOK'
  BY TypeStep DEF BitInv
<1> USE <1>t DEF TypeOK, BitInv
<1>1. CASE UNCHANGED vars  BY <1>1 DEF vars
<1>2. ASSUME NEW c \in Cpus, Acquire(c) PROVE BitInv'
  BY <1>2 DEF Acquire
<1>3. ASSUME NEW c \in Cpus, CheckLock(c) PROVE BitInv'
  BY <1>3 DEF CheckLock
<1>4. ASSUME NEW c \in Cpus, CheckOwner(c) PROVE BitInv'
  BY <1>4 DEF CheckOwner
<1>5. ASSUME NEW c \in Cpus, Ldaxr(c) PROVE BitInv'
  BY <1>5 DEF Ldaxr
<1>6. ASSUME NEW c \in Cpus, StxrOk(c) PROVE BitInv'
  BY <1>6 DEF StxrOk, Exclusive
<1>7. ASSUME NEW c \in Cpus, StxrFail(c) PROVE BitInv'
  BY <1>7 DEF StxrFail
<1>8. ASSUME NEW c \in Cpus, SetOwner(c) PROVE BitInv'
  BY <1>8 DEF SetOwner, Store
<1>9. ASSUME NEW c \in Cpus, Critical(c) PROVE BitInv'
  BY <1>9 DEF Critical, Store
<1>10. ASSUME NEW c \in Cpus, ReleaseOwner(c) PROVE BitInv'
  BY <1>10 DEF ReleaseOwner, Store
<1>11. ASSUME NEW c \in Cpus, ReleaseLock(c) PROVE BitInv'
  BY <1>11 DEF ReleaseLock, Store
<1>12. ASSUME NEW c \in Cpus, NEW l \in Locs, Drain(c, l) PROVE BitInv'
  BY <1>12 DEF Drain
<1>13. ASSUME NEW c \in Cpus, LoseReservation(c) PROVE BitInv'
  BY <1>13 DEF LoseReservation
<1> QED
  BY <1>1, <1>2, <1>3, <1>4, <1>5, <1>6, <1>7, <1>8, <1>9, <1>10, <1>11, <1>12, <1>13
  DEF Next, Step

\* The holder that the refinement mapping names.
LEMMA HolderIs ==
  ASSUME MutualExclusion, NEW c \in Cpus, Holds(c)
  PROVE  holder = c
BY DEF MutualExclusion, holder

\* A step changes who holds the lock for one CPU at most.
LEMMA OneChanges ==
  ASSUME BitInv, Next
  PROVE  \E c \in Cpus : \A d \in Cpus \ {c} : Holds(d)' <=> Holds(d)
<1> USE DEF Holds, InCs, Goto, Locs, BitInv, TypeOK, Store
<1>1. ASSUME NEW c \in Cpus, Acquire(c) \/ Step(c) \/ LoseReservation(c)
      PROVE  \A d \in Cpus \ {c} : Holds(d)' <=> Holds(d)
  BY <1>1 DEF Acquire, Step, LoseReservation, CheckLock, CheckOwner, Ldaxr, StxrOk,
    StxrFail, SetOwner, Critical, ReleaseOwner, ReleaseLock
<1>2. ASSUME NEW c \in Cpus, NEW l \in Locs, Drain(c, l)
      PROVE  \A d \in Cpus \ {c} : Holds(d)' <=> Holds(d)
  BY <1>2 DEF Drain
<1> QED
  BY <1>1, <1>2 DEF Next

\* Only the stxr that succeeds takes the lock, and it finds it free.
LEMMA TakenWhenFree ==
  ASSUME BitInv, Next, NEW c \in Cpus, ~ Holds(c), Holds(c)'
  PROVE  \A d \in Cpus : ~ Holds(d)
<1> USE SpinlockAssumption DEF Holds, InCs, Goto, Locs, BitInv, TypeOK, Store
<1>1. ASSUME NEW e \in Cpus, StxrOk(e) PROVE mem["lock"] = 0
  BY <1>1 DEF StxrOk, Exclusive
<1>2. \E e \in Cpus : StxrOk(e)
  BY DEF Next, Acquire, Step, LoseReservation, CheckLock, CheckOwner, Ldaxr, StxrOk,
    StxrFail, SetOwner, Critical, ReleaseOwner, ReleaseLock, Drain
<1> QED
  BY <1>1, <1>2

\* Every step is a Take, a Drop or a stutter of the abstract lock.
LEMMA MutexStep ==
  ASSUME BitInv, BitInv', [Next]_vars
  PROVE  [Lock!Next]_holder
<1>1. CASE UNCHANGED vars
  BY <1>1 DEF vars, holder, Holds, InCs
<1>2. CASE Next
  <2>1. PICK c \in Cpus : \A d \in Cpus \ {c} : Holds(d)' <=> Holds(d)
    BY <1>2, OneChanges
  <2> USE DEF BitInv
  <2>2. CASE Holds(c) <=> Holds(c)'
    BY <2>1, <2>2 DEF holder
  <2>3. CASE Holds(c) /\ ~ Holds(c)'
    <3>1. holder = c
      BY <2>3, HolderIs
    <3>2. \A d \in Cpus : ~ Holds(d)'
      BY <2>1, <2>3 DEF MutualExclusion
    <3>3. holder' = NoCpu
      BY <3>2 DEF holder
    <3> QED
      BY <3>1, <3>3 DEF Lock!Next, Lock!Drop
  <2>4. CASE ~ Holds(c) /\ Holds(c)'
    <3>1. \A d \in Cpus : ~ Holds(d)
      BY <1>2, <2>4, TakenWhenFree
    <3>2. holder = NoCpu
      BY <3>1 DEF holder
    <3>3. \A d \in Cpus : Holds(d)' => d = c
      BY <2>4 DEF MutualExclusion
    <3>4. holder' = c
      BY <2>4, <3>3 DEF holder
    <3> QED
      BY <3>2, <3>4 DEF Lock!Next, Lock!Take
  <2> QED
    BY <2>2, <2>3, <2>4
<1> QED
  BY <1>1, <1>2

-----------------------------------------------------------------------------
(* Theorems *)

\* The variables keep their types.
THEOREM TypeCorrect == Spec => []TypeOK
<1>1. Init => TypeOK
  BY InitInv DEF IInv
<1>2. TypeOK /\ [Next]_vars => TypeOK'
  BY TypeStep
<1> QED
  BY <1>1, <1>2, PTL DEF Spec

\* acquire() lets one CPU in at a time (spinlock.c:8-16), even on a machine
\* where the plain store of release() overtakes the stores before it.
THEOREM Exclusion == Spec => []MutualExclusion
<1>1. Init => BitInv
  <2> SUFFICES ASSUME Init PROVE BitInv
    OBVIOUS
  <2> QED
    BY InitInv, SpinlockAssumption DEF Init, IInv, BitInv, LockBit, MutualExclusion,
      Holds, InCs
<1>2. BitInv /\ [Next]_vars => BitInv'
  BY BitInvStep
<1>3. BitInv => MutualExclusion
  BY DEF BitInv
<1> QED
  BY <1>1, <1>2, <1>3, PTL DEF Spec

\* With the store that frees the lock drained last, neither assertion of the
\* lock fires for callers that pair acquire() and release().
THEOREM NoFalsePanic == ASSUME InOrder PROVE Spec => []NeverPanics
<1>1. Init => IInv
  BY InitInv
<1>2. IInv /\ [Next]_vars => IInv'
  BY InvStep
<1>3. IInv => NeverPanics
  BY DEF IInv
<1> QED
  BY <1>1, <1>2, <1>3, PTL DEF Spec

\* Under the same condition a holder sees every update made under the lock.
THEOREM NoLostUpdate == ASSUME InOrder PROVE Spec => []SeesEarlierUpdates
<1>1. Init => IInv
  BY InitInv
<1>2. IInv /\ [Next]_vars => IInv'
  BY InvStep
<1>3. IInv => SeesEarlierUpdates
  BY DEF IInv, Data, SeesEarlierUpdates, Holds
<1> QED
  BY <1>1, <1>2, <1>3, PTL DEF Spec

\* The spinlock implements the abstract mutex.
THEOREM Refinement == Spec => ImplementsMutex
<1>1. Init => BitInv /\ Lock!Init
  <2> SUFFICES ASSUME Init PROVE BitInv /\ Lock!Init
    OBVIOUS
  <2>1. \A c \in Cpus : ~ Holds(c)
    BY DEF Init, Holds, InCs
  <2>2. BitInv
    BY <2>1, InitInv, SpinlockAssumption DEF Init, IInv, BitInv, MutualExclusion, InCs
  <2> QED
    BY <2>1, <2>2 DEF Lock!Init, holder
<1>2. BitInv /\ [Next]_vars => BitInv'
  BY BitInvStep
<1>3. BitInv /\ BitInv' /\ [Next]_vars => [Lock!Next]_holder
  BY MutexStep
<1> QED
  BY <1>1, <1>2, <1>3, PTL DEF Spec, ImplementsMutex, Lock!Spec
=============================================================================
