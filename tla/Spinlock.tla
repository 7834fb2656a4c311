----------------------------- MODULE Spinlock ------------------------------
(***************************************************************************)
(* acquire() and release() of src/spinlock.c and include/spinlock.h with    *)
(* SPINLOCK_DEBUG, one instruction that touches shared memory per action,   *)
(* on a machine whose plain stores wait in a per-CPU buffer.                *)
(*                                                                          *)
(* release() ends with a plain "str wzr", not with "stlr".  InOrder says    *)
(* whether the CPUs drain the buffer so that this store comes out last      *)
(* (what a store-release, or a machine that keeps stores in order, gives)   *)
(* or in any order, as the ARM memory model allows for the code as written. *)
(***************************************************************************)
EXTENDS Naturals

CONSTANTS Cpus,     \* the physical CPUs
          NoCpu,    \* the -1 of lk->cpuid
          Empty,    \* no store pending
          Modulus,  \* the protected word counts updates modulo this
          InOrder   \* TRUE: the store that frees the lock is drained last

ASSUME SpinlockAssumption ==
  /\ NoCpu \notin Cpus
  /\ Modulus \in Nat \ {0}
  /\ Empty \notin Cpus \cup {NoCpu}
  /\ Empty \notin 0 .. Modulus /\ Empty \notin {0, 1}
  /\ InOrder \in BOOLEAN

VARIABLES mem,      \* memory: lk->lock, lk->cpuid, and a word the lock protects
          sb,       \* sb[c][l]: the store to l that c has not made visible yet
          monitor,  \* monitor[c]: c's exclusive monitor covers lk->lock
          pc,       \* where each CPU is
          done      \* history: updates of the protected word, modulo Modulus

vars == <<mem, sb, monitor, pc, done>>

Locs == {"lock", "owner", "data"}
Owners == Cpus \cup {NoCpu}
Counts == 0 .. Modulus - 1
Pcs == {"idle", "chklock", "chkowner", "ldaxr", "stxr", "setowner", "cs",
        "rel", "rellock", "panic"}

TypeOK ==
  /\ mem \in [lock : {0, 1}, owner : Owners, data : Counts]
  /\ sb \in [Cpus -> [lock  : {0, Empty},
                      owner : Owners \cup {Empty},
                      data  : Counts \cup {Empty}]]
  /\ monitor \in [Cpus -> BOOLEAN]
  /\ pc \in [Cpus -> Pcs]
  /\ done \in Counts

-----------------------------------------------------------------------------
(* Memory as one CPU sees it *)

\* A load sees the CPU's own pending store first.
Read(c, l) == IF sb[c][l] = Empty THEN mem[l] ELSE sb[c][l]

\* A plain store joins the buffer, over an older one to the same place.
Store(c, l, v) == sb' = [sb EXCEPT ![c][l] = v]

Goto(c, p) == pc' = [pc EXCEPT ![c] = p]

\* holdinglk()
HoldingLk(c) == Read(c, "lock") = 1 /\ Read(c, "owner") = c

\* Mutant: the data the lock protects may come out after the lock.
OwnerDrainsFirst(c, l) == l = "lock" => sb[c]["owner"] = Empty

\* Mutant: any order.
AnyOrder(c, l) == TRUE

\* May the pending store to l become visible now?
MayDrain(c, l) ==
  InOrder /\ l = "lock" => \A k \in Locs \ {"lock"} : sb[c][k] = Empty

\* Mutant: a plain str where stxr is.
PlainStr(c) == TRUE

\* Does stxr succeed?
Exclusive(c) == monitor[c]

-----------------------------------------------------------------------------
(* spinlock_init(): free, and no owner *)
Init ==
  /\ mem = [lock |-> 0, owner |-> NoCpu, data |-> 0]
  /\ sb = [c \in Cpus |-> [lock |-> Empty, owner |-> Empty, data |-> Empty]]
  /\ monitor = [c \in Cpus |-> FALSE]
  /\ pc = [c \in Cpus |-> "idle"]
  /\ done = 0

Acquire(c) ==
  /\ pc[c] = "idle"
  /\ Goto(c, "chklock")
  /\ UNCHANGED <<mem, sb, monitor, done>>

\* if(lk->lock && ...
CheckLock(c) ==
  /\ pc[c] = "chklock"
  /\ Goto(c, IF Read(c, "lock") = 1 THEN "chkowner" ELSE "ldaxr")
  /\ UNCHANGED <<mem, sb, monitor, done>>

\* ... lk->cpuid == cpuid()) panic
CheckOwner(c) ==
  /\ pc[c] = "chkowner"
  /\ Goto(c, IF Read(c, "owner") = c THEN "panic" ELSE "ldaxr")
  /\ UNCHANGED <<mem, sb, monitor, done>>

\* ldaxr, once it reads 0: the turns of the loop that read 1 change nothing.
\* It waits for the CPU's own store to the same address.
Ldaxr(c) ==
  /\ pc[c] = "ldaxr"
  /\ sb[c]["lock"] = Empty
  /\ mem["lock"] = 0
  /\ monitor' = [monitor EXCEPT ![c] = TRUE]
  /\ Goto(c, "stxr")
  /\ UNCHANGED <<mem, sb, done>>

\* stxr that succeeds: every monitor on the lock is cleared.
StxrOk(c) ==
  /\ pc[c] = "stxr"
  /\ Exclusive(c)
  /\ mem' = [mem EXCEPT !["lock"] = 1]
  /\ monitor' = [d \in Cpus |-> FALSE]
  /\ Goto(c, "setowner")
  /\ UNCHANGED <<sb, done>>

\* stxr that fails, and the branch back to ldaxr.
StxrFail(c) ==
  /\ pc[c] = "stxr"
  /\ ~ Exclusive(c)
  /\ Goto(c, "ldaxr")
  /\ UNCHANGED <<mem, sb, monitor, done>>

\* lk->cpuid = cpuid()
SetOwner(c) ==
  /\ pc[c] = "setowner"
  /\ Store(c, "owner", c)
  /\ Goto(c, "cs")
  /\ UNCHANGED <<mem, monitor, done>>

NextData(c) == (Read(c, "data") + 1) % Modulus

\* The caller's critical section: a read and a write of what the lock
\* protects (in kalloc(), pmem.freelist).
Critical(c) ==
  /\ pc[c] = "cs"
  /\ Store(c, "data", NextData(c))
  /\ done' = (done + 1) % Modulus
  /\ Goto(c, "rel")
  /\ UNCHANGED <<mem, monitor>>

\* release(): the check, then lk->cpuid = -1
ReleaseOwner(c) ==
  /\ pc[c] = "rel"
  /\ IF HoldingLk(c)
       THEN Store(c, "owner", NoCpu) /\ Goto(c, "rellock")
       ELSE UNCHANGED sb /\ Goto(c, "panic")
  /\ UNCHANGED <<mem, monitor, done>>

\* Mutant: the store that frees the lock is missing.
ReturnHolding(c) ==
  /\ pc[c] = "rellock"
  /\ Goto(c, "idle")
  /\ UNCHANGED <<mem, sb, monitor, done>>

\* str wzr, lk->lock
ReleaseLock(c) ==
  /\ pc[c] = "rellock"
  /\ Store(c, "lock", 0)
  /\ Goto(c, "idle")
  /\ UNCHANGED <<mem, monitor, done>>

\* A pending store reaches memory; one to the lock clears the monitors on it.
Drain(c, l) ==
  /\ sb[c][l] # Empty
  /\ MayDrain(c, l)
  /\ mem' = [mem EXCEPT ![l] = sb[c][l]]
  /\ sb' = [sb EXCEPT ![c][l] = Empty]
  /\ monitor' = IF l = "lock" THEN [d \in Cpus |-> FALSE] ELSE monitor
  /\ UNCHANGED <<pc, done>>

\* The architecture may clear a monitor at any time.
LoseReservation(c) ==
  /\ monitor[c]
  /\ monitor' = [monitor EXCEPT ![c] = FALSE]
  /\ UNCHANGED <<mem, sb, pc, done>>

\* What a CPU does next once it has called acquire() or release().
Step(c) ==
  \/ CheckLock(c) \/ CheckOwner(c)
  \/ Ldaxr(c) \/ StxrOk(c) \/ StxrFail(c) \/ SetOwner(c)
  \/ Critical(c)
  \/ ReleaseOwner(c) \/ ReleaseLock(c)

Next == \E c \in Cpus :
  \/ Acquire(c) \/ Step(c) \/ LoseReservation(c)
  \/ \E l \in Locs : Drain(c, l)

Spec == Init /\ [][Next]_vars

(***************************************************************************)
(* CPUs do not stop (the handlers run with interrupts masked), buffers      *)
(* drain, and the architecture promises that some store-exclusive of those  *)
(* tried again and again succeeds.  Nothing makes a CPU call acquire(), and *)
(* nothing makes the lock fair.                                             *)
(***************************************************************************)
Fairness ==
  /\ \A c \in Cpus : WF_vars(Step(c))
  /\ \A c \in Cpus, l \in Locs : WF_vars(Drain(c, l))
  /\ SF_vars(\E c \in Cpus : StxrOk(c))

FairSpec == Spec /\ Fairness
-----------------------------------------------------------------------------
(* Properties *)

InCs(c) == pc[c] \in {"setowner", "cs", "rel", "rellock"}

\* c has the lock until its store of 0 has reached memory.
Holds(c) == InCs(c) \/ sb[c]["lock"] # Empty

\* acquire() of two CPUs never both return before one has released
\* (the ldaxr/stxr loop, spinlock.c:8-16), in whatever order stores drain.
MutualExclusion == \A c, d \in Cpus : Holds(c) /\ Holds(d) => c = d

\* The debug checks of correct callers never fire: nobody's late store of
\* lk->cpuid reaches a later holder ("already held", "invalid").
NeverPanics == \A c \in Cpus : pc[c] # "panic"

\* release() finds itself the holder (spinlock.h:51-52, "invalid").  The late
\* store of lk->cpuid by the previous holder can break this.
ReleaseAsserts == \A c \in Cpus : pc[c] = "rel" => HoldingLk(c)

\* The holder reads what all earlier holders wrote under the lock
\* (kalloc.c:22 reads the freelist the previous kalloc() or kfree() stored).
SeesEarlierUpdates == \A c \in Cpus : InCs(c) => Read(c, "data") = done

\* If someone is in acquire(), someone gets the lock.
Progress == (\E c \in Cpus : pc[c] \in {"chklock", "chkowner", "ldaxr", "stxr"})
              ~> (\E c \in Cpus : InCs(c))

\* The abstract lock: held from the successful stxr to the visible store of 0.
holder == IF \E c \in Cpus : Holds(c) THEN CHOOSE c \in Cpus : Holds(c) ELSE NoCpu

Lock == INSTANCE Mutex

\* The spinlock implements the abstract mutex.
ImplementsMutex == Lock!Spec
=============================================================================
