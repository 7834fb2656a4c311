------------------------------ MODULE Kalloc -------------------------------
(***************************************************************************)
(* The page allocator, src/kalloc.c: a free list threaded through the first *)
(* word of the free pages, under one spinlock.  Every access to the list is *)
(* a step of its own; the lock is the Mutex that Spinlock implements.       *)
(***************************************************************************)
EXTENDS Naturals

CONSTANTS Cpus, NoCpu,
          BootCpu,   \* cpu0, which runs kalloc_init()
          Pages,     \* the pages from vmm_end to PHYEND
          Null,      \* NULL, and the first word of a zeroed page
          Dirty      \* a first word that a caller wrote

ASSUME KallocAssumption ==
  /\ NoCpu \notin Cpus
  /\ BootCpu \in Cpus
  /\ Null \notin Pages /\ Dirty \notin Pages /\ Null # Dirty
  /\ {"free", "caller"} \cap Cpus = {}

VARIABLES holder,    \* who is in a critical section of pmem.lock
          freelist,  \* pmem.freelist
          word,      \* word[p]: the first word of page p, header.next on the list
          pc,        \* where each CPU is
          page,      \* page[c]: "new" of kalloc(), "fp" of kfree()
          where,     \* history: "free", "caller" or the CPU that is moving it
          booted     \* kalloc_init() has returned

vars == <<holder, freelist, word, pc, page, where, booted>>

Lock == INSTANCE Mutex

AllocPcs == {"alock", "pop", "unlink", "arelease", "zero"}
FreePcs == {"flock", "link", "publish", "frelease"}
Pcs == {"idle", "panic"} \cup AllocPcs \cup FreePcs

TypeOK ==
  /\ Lock!TypeOK
  /\ freelist \in Pages \cup {Null}
  /\ word \in [Pages -> Pages \cup {Null, Dirty}]
  /\ pc \in [Cpus -> Pcs]
  /\ page \in [Cpus -> Pages \cup {Null}]
  /\ where \in [Pages -> {"free", "caller"} \cup Cpus]
  /\ booted \in BOOLEAN

Goto(c, p) == pc' = [pc EXCEPT ![c] = p]
Move(p, to) == where' = [where EXCEPT ![p] = to]
SetWord(p, w) == word' = [word EXCEPT ![p] = w]

\* spinlock_init(&pmem.lock) has run; no page has been freed yet.
Init ==
  /\ Lock!Init
  /\ freelist = Null
  /\ word \in [Pages -> {Null, Dirty}]
  /\ pc = [c \in Cpus |-> "idle"]
  /\ page = [c \in Cpus |-> Null]
  /\ where = [p \in Pages |-> "caller"]
  /\ booted = FALSE

-----------------------------------------------------------------------------
(* kalloc() *)

AllocCall(c) ==
  /\ booted
  /\ pc[c] = "idle"
  /\ Goto(c, "alock")
  /\ UNCHANGED <<holder, freelist, word, page, where, booted>>

\* acquire(), of kalloc() and of kfree(); spinlock.c panics in a CPU that
\* holds the lock already.
Acquire(c) ==
  /\ pc[c] \in {"alock", "flock"}
  /\ IF holder = c
       THEN Goto(c, "panic") /\ UNCHANGED holder
       ELSE /\ Lock!Take(c)
            /\ Goto(c, IF pc[c] = "alock" THEN "pop" ELSE "link")
  /\ UNCHANGED <<freelist, word, page, where, booted>>

\* new = pmem.freelist; an empty list returns NULL and keeps the lock.
Pop(c) ==
  /\ pc[c] = "pop"
  /\ page' = [page EXCEPT ![c] = freelist]
  /\ Goto(c, IF freelist = Null THEN "idle" ELSE "unlink")
  /\ UNCHANGED <<holder, freelist, word, where, booted>>

\* Mutant: the page stays on the list.
NotUnlinked(c) ==
  /\ pc[c] = "unlink"
  /\ Move(page[c], c)
  /\ Goto(c, "arelease")
  /\ UNCHANGED <<holder, freelist, word, page, booted>>

\* pmem.freelist = new->next
Unlink(c) ==
  /\ pc[c] = "unlink"
  /\ freelist' = word[page[c]]
  /\ Move(page[c], c)
  /\ Goto(c, "arelease")
  /\ UNCHANGED <<holder, word, page, booted>>

\* release(), of kalloc() and of kfree()
Release(c) ==
  /\ pc[c] \in {"arelease", "frelease"}
  /\ Lock!Drop(c)
  /\ Goto(c, IF pc[c] = "arelease" THEN "zero" ELSE "idle")
  /\ UNCHANGED <<freelist, word, page, where, booted>>

\* memset(new, 0, PAGESIZE), outside the lock, and return
Zero(c) ==
  /\ pc[c] = "zero"
  /\ SetWord(page[c], Null)
  /\ Move(page[c], "caller")
  /\ Goto(c, "idle")
  /\ UNCHANGED <<holder, freelist, page, booted>>

-----------------------------------------------------------------------------
(* kfree(): a caller gives a page back; the memset comes before the lock *)
FreeCall(c, p) ==
  /\ booted \/ c = BootCpu
  /\ pc[c] = "idle"
  /\ where[p] = "caller"
  /\ page' = [page EXCEPT ![c] = p]
  /\ SetWord(p, Null)
  /\ Move(p, c)
  /\ Goto(c, "flock")
  /\ UNCHANGED <<holder, freelist, booted>>

\* Mutant: the rest of the list is dropped.
NotLinked(c) ==
  /\ pc[c] = "link"
  /\ Goto(c, "publish")
  /\ UNCHANGED <<holder, freelist, word, page, where, booted>>

\* fp->next = pmem.freelist
Link(c) ==
  /\ pc[c] = "link"
  /\ SetWord(page[c], freelist)
  /\ Goto(c, "publish")
  /\ UNCHANGED <<holder, freelist, page, where, booted>>

\* pmem.freelist = fp
Publish(c) ==
  /\ pc[c] = "publish"
  /\ freelist' = page[c]
  /\ Move(page[c], "free")
  /\ Goto(c, "frelease")
  /\ UNCHANGED <<holder, word, page, booted>>

\* kalloc_init() has given every page to kfree(); the boot goes on.
Booted ==
  /\ ~ booted
  /\ \A p \in Pages : where[p] = "free"
  /\ pc[BootCpu] = "idle"
  /\ booted' = TRUE
  /\ UNCHANGED <<holder, freelist, word, pc, page, where>>

\* Mutant: a caller writes to a page that it has given back.
WriteAfterFree(p) ==
  /\ booted
  /\ SetWord(p, Dirty)
  /\ UNCHANGED <<holder, freelist, pc, page, where, booted>>

\* A caller writes to a page that kalloc() gave it.
Write(p) ==
  /\ booted
  /\ where[p] = "caller"
  /\ SetWord(p, Dirty)
  /\ UNCHANGED <<holder, freelist, pc, page, where, booted>>

Next ==
  \/ \E c \in Cpus :
       \/ AllocCall(c) \/ Acquire(c) \/ Pop(c) \/ Unlink(c) \/ Release(c) \/ Zero(c)
       \/ (\E p \in Pages : FreeCall(c, p)) \/ Link(c) \/ Publish(c)
  \/ Booted
  \/ \E p \in Pages : Write(p)

Spec == Init /\ [][Next]_vars
-----------------------------------------------------------------------------
(* Properties *)

\* A walk of the list that is in S stays in S.
Closed(S) ==
  /\ {freelist} \cap Pages \subseteq S
  /\ \A p \in S : {word[p]} \cap Pages \subseteq S

\* What a walk of the list from freelist finds: the least such set.
Listed == {p \in Pages : \A S \in SUBSET Pages : Closed(S) => p \in S}

\* The list holds the free pages and no others, whoever is halfway through
\* kalloc() or kfree(): none is lost by a torn unlink, none is there while a
\* caller has it.
FreeListExact == Listed = {p \in Pages : where[p] = "free"}

\* A page that a caller has stays with it until kfree(): kalloc() never hands
\* it out a second time, so the memset of another CPU (kalloc.c:31, 40) never
\* erases what the caller wrote.
HandedOutOnce ==
  [][\A p \in Pages : where[p] = "caller" =>
       \/ where'[p] = "caller" /\ word'[p] \in {word[p], Dirty}
       \/ \E c \in Cpus : FreeCall(c, p)]_vars

\* spinlock.c:5-6: a CPU that calls acquire() does not hold the lock.
AcquireNotHeld == \A c \in Cpus : pc[c] \in {"alock", "flock"} => holder # c

Pool == INSTANCE PagePool WITH free <- Listed

\* The list implements the pool: each step adds or takes at most one page.
ImplementsPool == Pool!Spec
=============================================================================
