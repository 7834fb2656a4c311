---------------------------- MODULE KallocProofs ----------------------------
(***************************************************************************)
(* Kalloc, for any number of CPUs and pages: the links of the free list     *)
(* stay sound and no page has two owners.                                   *)
(***************************************************************************)
EXTENDS Kalloc, TLAPS

Free == {p \in Pages : where[p] = "free"}

\* The links lead from free pages to free pages, no two to the same one, and
\* none to the head.
ListInv ==
  /\ freelist \in Free \cup {Null}
  /\ \A p \in Free : word[p] \in Free \cup {Null}
  /\ \A p, q \in Free : word[p] = word[q] => p = q \/ word[p] = Null
  /\ \A p \in Free : word[p] = freelist => freelist = Null

\* The list is touched by the holder of the lock only.
LockInv == \A c \in Cpus :
  pc[c] \in {"pop", "unlink", "arelease", "link", "publish", "frelease"} => holder = c

\* The page that a CPU is moving is its own.
MoveInv == \A c \in Cpus :
  /\ pc[c] \in {"arelease", "zero", "flock", "link", "publish"} =>
       page[c] \in Pages /\ where[page[c]] = c
  /\ pc[c] = "unlink" => page[c] = freelist /\ freelist # Null
  /\ pc[c] = "publish" => word[page[c]] = freelist

\* A walk from the head misses no free page: a set that is closed under it
\* holds them all.
Reach == \A S \in SUBSET Pages : Closed(S) => Free \subseteq S

IInv == TypeOK /\ LockInv /\ ListInv /\ MoveInv

-----------------------------------------------------------------------------

LEMMA InitInv == ASSUME Init PROVE IInv
BY KallocAssumption DEF Init, IInv, TypeOK, LockInv, ListInv, MoveInv, Free, Pcs,
  Lock!Init, Lock!TypeOK

\* Every step keeps the invariant.
LEMMA InvStep == ASSUME IInv, [Next]_vars PROVE IInv'
<1> USE KallocAssumption DEF IInv, TypeOK, LockInv, ListInv, MoveInv, Free, Goto, Move,
      SetWord, Pcs, AllocPcs, FreePcs, Lock!TypeOK
<1>1. CASE UNCHANGED vars  BY <1>1 DEF vars
<1>2. ASSUME NEW c \in Cpus, AllocCall(c) PROVE IInv'
  BY <1>2 DEF AllocCall
<1>3. ASSUME NEW c \in Cpus, Acquire(c) PROVE IInv'
  BY <1>3 DEF Acquire, Lock!Take
<1>4. ASSUME NEW c \in Cpus, Pop(c) PROVE IInv'
  BY <1>4 DEF Pop
<1>5. ASSUME NEW c \in Cpus, Unlink(c) PROVE IInv'
  BY <1>5 DEF Unlink
<1>6. ASSUME NEW c \in Cpus, Release(c) PROVE IInv'
  BY <1>6 DEF Release, Lock!Drop
<1>7. ASSUME NEW c \in Cpus, Zero(c) PROVE IInv'
  BY <1>7 DEF Zero
<1>8. ASSUME NEW c \in Cpus, NEW p \in Pages, FreeCall(c, p) PROVE IInv'
  BY <1>8 DEF FreeCall
<1>9. ASSUME NEW c \in Cpus, Link(c) PROVE IInv'
  BY <1>9 DEF Link
<1>10. ASSUME NEW c \in Cpus, Publish(c) PROVE IInv'
  BY <1>10 DEF Publish
<1>11. CASE Booted
  BY <1>11 DEF Booted
<1>12. ASSUME NEW p \in Pages, Write(p) PROVE IInv'
  BY <1>12 DEF Write
<1> QED
  BY <1>1, <1>2, <1>3, <1>4, <1>5, <1>6, <1>7, <1>8, <1>9, <1>10, <1>11, <1>12 DEF Next

\* A step leaves a caller's page alone, except when the caller frees it.
LEMMA HandOutStep ==
  ASSUME IInv, [Next]_vars, NEW p \in Pages, where[p] = "caller"
  PROVE  \/ where'[p] = "caller" /\ word'[p] \in {word[p], Dirty}
         \/ \E c \in Cpus : FreeCall(c, p)
<1> USE KallocAssumption DEF IInv, TypeOK, ListInv, MoveInv, Free, Move, SetWord
<1>1. ASSUME NEW c \in Cpus, Unlink(c) PROVE where'[p] = "caller" /\ word'[p] = word[p]
  BY <1>1 DEF Unlink
<1>2. ASSUME NEW c \in Cpus, Zero(c) \/ Link(c) \/ Publish(c)
      PROVE where'[p] = "caller" /\ word'[p] = word[p]
  BY <1>2 DEF Zero, Link, Publish
<1>3. ASSUME NEW c \in Cpus, AllocCall(c) \/ Acquire(c) \/ Pop(c) \/ Release(c)
      PROVE where'[p] = "caller" /\ word'[p] = word[p]
  BY <1>3 DEF AllocCall, Acquire, Pop, Release
<1>4. ASSUME NEW q \in Pages, Write(q)
      PROVE where'[p] = "caller" /\ word'[p] \in {word[p], Dirty}
  BY <1>4 DEF Write
<1>5. ASSUME NEW c \in Cpus, NEW q \in Pages, q # p, FreeCall(c, q)
      PROVE where'[p] = "caller" /\ word'[p] = word[p]
  BY <1>5 DEF FreeCall
<1> QED
  BY <1>1, <1>2, <1>3, <1>4, <1>5 DEF Next, Booted, vars

-----------------------------------------------------------------------------
(* The list as a whole: a set closed under the walk after a step is turned   *)
(* into one that was closed before it.                                      *)

\* No page is free and none is on the list before kalloc_init() runs.
LEMMA InitReach == ASSUME Init PROVE Reach
BY DEF Init, Reach, Free

\* Unlink takes the head off and changes no link: what is closed without the
\* head is closed with it put back.
LEMMA UnlinkReach == ASSUME IInv, Reach, NEW c \in Cpus, Unlink(c) PROVE Reach'
<1> USE KallocAssumption DEF IInv, TypeOK, ListInv, MoveInv, Free, Move
<1> SUFFICES ASSUME NEW S \in SUBSET Pages, Closed(S)' PROVE Free' \subseteq S
  BY DEF Reach
<1>1. /\ freelist \in Free /\ page[c] = freelist
      /\ freelist' = word[freelist] /\ word' = word
  BY DEF Unlink
<1>2. Free' = Free \ {freelist}
  BY <1>1 DEF Unlink
<1>3. Closed(S \cup {freelist})
  BY <1>1 DEF Closed
<1> QED
  BY <1>1, <1>2, <1>3 DEF Reach

\* Publish puts a page before the old head: what is closed now holds the new
\* page, hence the old head, and was closed before.
LEMMA PublishReach == ASSUME IInv, Reach, NEW c \in Cpus, Publish(c) PROVE Reach'
<1> USE KallocAssumption DEF IInv, TypeOK, ListInv, MoveInv, Free, Move
<1> SUFFICES ASSUME NEW S \in SUBSET Pages, Closed(S)' PROVE Free' \subseteq S
  BY DEF Reach
<1>1. /\ page[c] \in Pages /\ where[page[c]] = c /\ word[page[c]] = freelist
      /\ freelist' = page[c] /\ word' = word
  BY DEF Publish
<1>2. Free' = Free \cup {page[c]}
  BY <1>1 DEF Publish
<1>3. page[c] \in S
  BY <1>1 DEF Closed
<1>4. Closed(S)
  BY <1>1, <1>3 DEF Closed
<1> QED
  BY <1>2, <1>3, <1>4 DEF Reach

\* A step that moves neither the head nor the links of free pages, and adds no
\* free page, breaks no walk.
LEMMA StillReach ==
  ASSUME IInv, Reach, freelist' = freelist, Free' \subseteq Free,
         \A p \in Free : word'[p] = word[p]
  PROVE  Reach'
<1> USE KallocAssumption DEF IInv, TypeOK, ListInv
<1> SUFFICES ASSUME NEW S \in SUBSET Pages, Closed(S)' PROVE Free' \subseteq S
  BY DEF Reach
<1>1. Closed(S \cap Free)
  <2>1. {freelist} \cap Pages \subseteq S \cap Free
    BY DEF Closed, Free
  <2>2. ASSUME NEW p \in S \cap Free PROVE {word[p]} \cap Pages \subseteq S \cap Free
    <3>1. word'[p] = word[p]
      OBVIOUS
    <3>2. word[p] \in Free \cup {Null}
      OBVIOUS
    <3> QED
      BY <3>1, <3>2 DEF Closed
  <2> QED
    BY <2>1, <2>2 DEF Closed
<1>2. S \cap Free \in SUBSET Pages
  BY DEF Free
<1> QED
  BY <1>1, <1>2 DEF Reach

\* Every step keeps the list whole.
LEMMA ReachStep == ASSUME IInv, Reach, [Next]_vars PROVE Reach'
<1> USE KallocAssumption DEF IInv, TypeOK, MoveInv, Free, Move, SetWord
<1> DEFINE Still == /\ freelist' = freelist /\ Free' \subseteq Free
                    /\ \A p \in Free : word'[p] = word[p]
<1>1. ASSUME NEW c \in Cpus, AllocCall(c) \/ Acquire(c) \/ Pop(c) \/ Release(c) PROVE Still
  BY <1>1 DEF AllocCall, Acquire, Pop, Release
<1>2. ASSUME NEW c \in Cpus, Zero(c) PROVE Still
  BY <1>2 DEF Zero
<1>3. ASSUME NEW c \in Cpus, NEW p \in Pages, FreeCall(c, p) PROVE Still
  BY <1>3 DEF FreeCall
<1>4. ASSUME NEW c \in Cpus, Link(c) PROVE Still
  BY <1>4 DEF Link
<1>5. ASSUME NEW p \in Pages, Write(p) PROVE Still
  BY <1>5 DEF Write
<1>6. CASE Booted \/ UNCHANGED vars
  <2>1. Still
    BY <1>6 DEF Booted, vars
  <2> QED
    BY <2>1, StillReach
<1> QED
  BY <1>1, <1>2, <1>3, <1>4, <1>5, <1>6, StillReach, UnlinkReach, PublishReach DEF Next

\* The walk finds the free pages: they are closed under it, and they are in
\* every closed set.
LEMMA ListedIsFree == ASSUME IInv, Reach PROVE Listed = Free
<1> USE KallocAssumption
<1>1. Closed(Free)
  BY DEF IInv, ListInv, Closed
<1>2. Free \in SUBSET Pages
  BY DEF Free
<1> QED
  BY <1>1, <1>2 DEF Listed, Reach, Free

\* A step adds or takes at most one free page.
LEMMA PoolStep ==
  ASSUME IInv, [Next]_vars
  PROVE  \/ Free' = Free
         \/ \E p \in Pages : \/ p \in Free /\ Free' = Free \ {p}
                             \/ p \notin Free /\ Free' = Free \cup {p}
<1> USE KallocAssumption DEF IInv, TypeOK, ListInv, MoveInv, Free, Move
<1>1. ASSUME NEW c \in Cpus, Unlink(c)
      PROVE  freelist \in Free /\ Free' = Free \ {freelist}
  BY <1>1 DEF Unlink
<1>2. ASSUME NEW c \in Cpus, Publish(c)
      PROVE  page[c] \in Pages \ Free /\ Free' = Free \cup {page[c]}
  BY <1>2 DEF Publish
<1>3. ASSUME NEW c \in Cpus,
             AllocCall(c) \/ Acquire(c) \/ Pop(c) \/ Release(c) \/ Zero(c) \/ Link(c)
      PROVE  Free' = Free
  BY <1>3 DEF AllocCall, Acquire, Pop, Release, Zero, Link
<1>4. ASSUME NEW c \in Cpus, NEW p \in Pages, FreeCall(c, p) PROVE Free' = Free
  BY <1>4 DEF FreeCall
<1> QED
  BY <1>1, <1>2, <1>3, <1>4 DEF Next, Booted, Write, vars

-----------------------------------------------------------------------------
(* Theorems *)

\* The variables keep their types: the head of the list is never a word that
\* a caller wrote.
THEOREM TypeCorrect == Spec => []TypeOK
<1>1. Init => IInv
  BY InitInv
<1>2. IInv /\ [Next]_vars => IInv'
  BY InvStep
<1>3. IInv => TypeOK
  BY DEF IInv
<1> QED
  BY <1>1, <1>2, <1>3, PTL DEF Spec

\* The links of the list are sound whatever calls are in progress
\* (kalloc.c:27, 45-46).
THEOREM LinksSound == Spec => []ListInv
<1>1. Init => IInv
  BY InitInv
<1>2. IInv /\ [Next]_vars => IInv'
  BY InvStep
<1>3. IInv => ListInv
  BY DEF IInv
<1> QED
  BY <1>1, <1>2, <1>3, PTL DEF Spec

\* kalloc() never hands out a page that has an owner.
THEOREM ExclusiveHandOut == Spec => HandedOutOnce
<1>1. Init => IInv
  BY InitInv
<1>2. IInv /\ [Next]_vars => IInv'
  BY InvStep
<1>3. IInv /\ [Next]_vars =>
        [\A p \in Pages : where[p] = "caller" =>
           \/ where'[p] = "caller" /\ word'[p] \in {word[p], Dirty}
           \/ \E c \in Cpus : FreeCall(c, p)]_vars
  BY HandOutStep
<1> QED
  BY <1>1, <1>2, <1>3, PTL DEF Spec, HandedOutOnce

\* No free page is lost from the list and no other page is on it, at any step of any number of
\* calls on any number of CPUs (kalloc.c:20-31, 40-48).
THEOREM ListComplete == Spec => []FreeListExact
<1>1. Init => IInv /\ Reach
  BY InitInv, InitReach
<1>2. (IInv /\ Reach) /\ [Next]_vars => (IInv /\ Reach)'
  BY InvStep, ReachStep
<1>3. IInv /\ Reach => FreeListExact
  BY ListedIsFree DEF FreeListExact, Free
<1> QED
  BY <1>1, <1>2, <1>3, PTL DEF Spec

\* The list implements the pool: it starts empty, Unlink is Alloc, Publish is
\* Free, and every other step is a stutter.
THEOREM RefinesPool == Spec => ImplementsPool
<1>1. Init => IInv /\ Reach
  BY InitInv, InitReach
<1>2. (IInv /\ Reach) /\ [Next]_vars => (IInv /\ Reach)'
  BY InvStep, ReachStep
<1>3. Init => Pool!Init
  <2> SUFFICES ASSUME Init PROVE Listed = {}
    BY DEF Pool!Init
  <2>1. Listed = Free
    BY InitInv, InitReach, ListedIsFree
  <2> QED
    BY <2>1, KallocAssumption DEF Init, Free
<1>4. IInv /\ Reach => Listed = Free
  BY ListedIsFree
<1>5. (IInv /\ Reach => Listed = Free)'
  BY <1>4, PTL
<1>6. (IInv /\ Reach) /\ (IInv /\ Reach)' /\ [Next]_vars => [Pool!Next]_Listed
  BY <1>4, <1>5, PoolStep DEF Pool!Next, Pool!Alloc, Pool!Free
<1> QED
  BY <1>1, <1>2, <1>3, <1>6, PTL DEF Spec, ImplementsPool, Pool!Spec
=============================================================================
