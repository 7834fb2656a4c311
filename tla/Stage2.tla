------------------------------- MODULE Stage2 --------------------------------
(***************************************************************************)
(* The stage-2 page tables, src/mm.c: four levels of tables that pagewalk() *)
(* goes through one entry at a time.  create_vm() (src/vm.c) maps the RAM   *)
(* and the peripherals of the guest on one CPU; then every CPU may unmap    *)
(* pages (pagetrap()) and copy to and from the guest (virtio), without a    *)
(* lock on the tables, while others take and free pages of kalloc().        *)
(*                                                                          *)
(* Addresses are page numbers, and a table has an entry for each of Idx.    *)
(* A trapped region and a copy are two pages long.  Only what mm.c stores   *)
(* in a page is kept.                                                       *)
(***************************************************************************)
EXTENDS Naturals, Sequences

CONSTANTS Cpus, BootCpu,
          Frames,    \* the pages of kalloc(), in the order of the free list
          Ipas,      \* guest pages
          Idx,       \* 0 .. 511
          PIDX,      \* PIDX[v][level]
          Ram, Dev,  \* the guest pages that create_vm() maps
          Traps,     \* first pages of the regions that are trapped, each once
          Bufs,      \* first pages of what is copied
          Nil        \* an entry that is 0, and a NULL

FrameSet == {Frames[n] : n \in DOMAIN Frames}
Pages == FrameSet \cup Dev

ASSUME Stage2Assumption ==
  /\ BootCpu \in Cpus
  /\ Frames \in Seq(FrameSet)
  /\ \A m, n \in DOMAIN Frames : Frames[m] = Frames[n] => m = n
  /\ Ipas \subseteq Nat /\ Ram \cup Dev \subseteq Ipas /\ Ram \cap Dev = {}
  /\ PIDX \in [Ipas -> [0 .. 3 -> Idx]]
  /\ \A v, w \in Ipas : PIDX[v] = PIDX[w] => v = w
  /\ FrameSet \cap Ipas = {} /\ Nil \notin Pages \cup Ipas
  /\ \A q \in Traps : {q, q + 1} \subseteq Ipas \ Dev
  /\ \A b \in Bufs : {b, b + 1} \subseteq Ram
  /\ \A q \in Traps, b \in Bufs : {q, q + 1} \cap {b, b + 1} = {}
  /\ \A q, r \in Traps : q = r \/ {q, q + 1} \cap {r, r + 1} = {}

\* A region that is trapped is RAM, or none of it is mapped and no page that
\* is mapped has the same table of level 3.
ASSUME TrapAssumption ==
  \A q \in Traps :
    \/ {q, q + 1} \subseteq Ram
    \/ \A v \in Ram \cup Dev : \E l \in 0 .. 2 : PIDX[v][l] # PIDX[q][l]

VARIABLES pgt,      \* pgt[t][i]: entry i of the table in page t
          pool,     \* the free list of kalloc()
          use,      \* history: what a page is used for
          root,     \* vttbr of create_vm(), later vm->vttbr
          left,     \* the guest pages that create_vm() has not mapped yet
          at,       \* where CPU c is
          op,       \* op[c]: "map", "unmap" or "copy"
          base,     \* base[c]: the first page of the operation
          va,       \* va[c], level[c], table[c]: of pagewalk() on c
          level,
          table,
          page,     \* page[c]: the page that pagemap() on c maps
          trapped   \* history: the regions that have been trapped

vars == <<pgt, pool, use, root, left, at, op, base, va, level, table, page, trapped>>
memVars == <<pgt, pool, use, root>>

TableUse == <<"level0", "level1", "level2", "level3">>
Panics == {"nomem", "used", "unmapped", "null", "nopage"}

TypeOK ==
  /\ pgt \in [FrameSet -> [Idx -> Pages \cup {Nil}]]
  /\ pool \in Seq(FrameSet)
  /\ use \in [FrameSet -> {"free", "ram", "other", "level0", "level1", "level2", "level3"}]
  /\ root \in FrameSet \cup {Nil}
  /\ left \subseteq Ram \cup Dev
  /\ at \in [Cpus -> {"off", "start", "boot", "guest", "walk", "clear"} \cup Panics]
  /\ op \in [Cpus -> {"map", "unmap", "copy"}]
  /\ base \in [Cpus -> Ipas \cup {Nil}] /\ va \in [Cpus -> Ipas \cup {Nil}]
  /\ level \in [Cpus -> 0 .. 3]
  /\ table \in [Cpus -> FrameSet \cup {Nil}]
  /\ page \in [Cpus -> Pages \cup {Nil}]
  /\ trapped \subseteq Traps

ZeroPage == [i \in Idx |-> Nil]

\* kalloc_init() has run; the other CPUs are off.
Init ==
  /\ pgt = [t \in FrameSet |-> ZeroPage]
  /\ pool = Frames
  /\ use = [f \in FrameSet |-> "free"]
  /\ root = Nil
  /\ left = Ram \cup Dev
  /\ at = [c \in Cpus |-> IF c = BootCpu THEN "start" ELSE "off"]
  /\ op = [c \in Cpus |-> "map"]
  /\ base = [c \in Cpus |-> Nil]
  /\ va = [c \in Cpus |-> Nil]
  /\ level = [c \in Cpus |-> 0]
  /\ table = [c \in Cpus |-> Nil]
  /\ page = [c \in Cpus |-> Nil]
  /\ trapped = {}

Goto(c, a) == at' = [at EXCEPT ![c] = a]

\* Mutant of Kalloc: the page stays on the free list.
MutKallocKeeps(u) ==
  /\ pool' = pool
  /\ use' = [use EXCEPT ![Head(pool)] = u]

\* kalloc(), for use u; the callers panic if there is none.
Kalloc(u) ==
  /\ pool' = Tail(pool)
  /\ use' = [use EXCEPT ![Head(pool)] = u]

-----------------------------------------------------------------------------
(* pagewalk() *)

\* The entry of table[c] that the walk on c looks at, and pte at its end.
Pte(c) == pgt[table[c]][PIDX[va[c]][level[c]]]
SetPte(c, e) == pgt' = [pgt EXCEPT ![table[c]][PIDX[va[c]][level[c]]] = e]

\* An operation o starts with a walk for v; so does each next page of it.
StartWalk(c, v) ==
  /\ va' = [va EXCEPT ![c] = v]
  /\ level' = [level EXCEPT ![c] = 0]
  /\ table' = [table EXCEPT ![c] = root]
  /\ Goto(c, "walk")

NextLevel(c, t) ==
  /\ table' = [table EXCEPT ![c] = t]
  /\ level' = [level EXCEPT ![c] = @ + 1]

\* The entry points to a table.
WalkDown(c) ==
  /\ at[c] = "walk" /\ level[c] < 3
  /\ Pte(c) # Nil
  /\ NextLevel(c, Pte(c))
  /\ UNCHANGED <<memVars, left, at, op, base, va, page, trapped>>

\* It does not, and a table is made.
WalkAlloc(c) ==
  /\ at[c] = "walk" /\ level[c] < 3
  /\ Pte(c) = Nil /\ op[c] = "map"
  /\ IF pool = <<>>
       THEN Goto(c, "nomem") /\ UNCHANGED <<pgt, pool, use, table, level>>
       ELSE /\ Kalloc(TableUse[level[c] + 2])
            /\ SetPte(c, Head(pool))
            /\ NextLevel(c, Head(pool))
            /\ UNCHANGED at
  /\ UNCHANGED <<root, left, op, base, va, page, trapped>>

\* Mutant of WalkNull: pagetrap() unmaps whatever pagewalk() returns.
MutWalkNullUnmap(c) ==
  /\ at[c] = "walk" /\ level[c] < 3
  /\ Pte(c) = Nil /\ op[c] # "map"
  /\ Goto(c, IF op[c] = "copy" THEN "nopage" ELSE "null")
  /\ UNCHANGED <<memVars, left, op, base, va, level, table, page, trapped>>

\* It does not, and pagewalk() returns NULL: pagetrap() then unmaps nothing,
\* pageunmap() reads through NULL, and a copy panics.
WalkNull(c) ==
  /\ at[c] = "walk" /\ level[c] < 3
  /\ Pte(c) = Nil /\ op[c] # "map"
  /\ Goto(c, IF op[c] = "copy" THEN "nopage"
             ELSE IF va[c] = base[c] THEN "guest" ELSE "null")
  /\ UNCHANGED <<memVars, left, op, base, va, level, table, page, trapped>>

AtPte(c, o) == at[c] = "walk" /\ level[c] = 3 /\ op[c] = o

-----------------------------------------------------------------------------
(* create_vm() and pagemap() *)

\* vttbr = kalloc()
NewTable ==
  /\ at[BootCpu] = "start"
  /\ IF pool = <<>>
       THEN Goto(BootCpu, "nomem") /\ UNCHANGED <<pool, use, root>>
       ELSE Kalloc(TableUse[1]) /\ root' = Head(pool) /\ Goto(BootCpu, "boot")
  /\ UNCHANGED <<pgt, left, op, base, va, level, table, page, trapped>>

\* RAM from the lowest page, then the peripherals.
NextToMap(v) ==
  /\ v \in left
  /\ \A w \in left : (w \in Ram <=> v \in Ram) => v <= w
  /\ v \in Dev => left \cap Ram = {}

\* The next page of the guest: RAM gets a page of kalloc(), a peripheral is
\* mapped to itself.
MapNext(v) ==
  LET c == BootCpu IN
  /\ at[c] = "boot" /\ NextToMap(v)
  /\ IF v \in Ram /\ pool = <<>>
       THEN Goto(c, "nomem") /\ UNCHANGED <<pool, use, left, va, level, table, page>>
       ELSE /\ IF v \in Ram
                 THEN Kalloc("ram") /\ page' = [page EXCEPT ![c] = Head(pool)]
                 ELSE UNCHANGED <<pool, use>> /\ page' = [page EXCEPT ![c] = v]
            /\ left' = left \ {v}
            /\ StartWalk(c, v)
  /\ UNCHANGED <<pgt, root, op, base, trapped>>

\* *pte = pa | attr, if it is free.
MapPage(c) ==
  /\ AtPte(c, "map")
  /\ IF Pte(c) # Nil
       THEN Goto(c, "used") /\ UNCHANGED pgt
       ELSE SetPte(c, page[c]) /\ Goto(c, "boot")
  /\ UNCHANGED <<pool, use, root, left, op, base, va, level, table, page, trapped>>

\* The guest runs, on this CPU and soon on the others.
Booted ==
  /\ at[BootCpu] = "boot" /\ left = {}
  /\ at' = [c \in Cpus |-> "guest"]
  /\ UNCHANGED <<memVars, left, op, base, va, level, table, page, trapped>>

-----------------------------------------------------------------------------
(* pagetrap() and pageunmap() *)

\* create_vm() traps the registers of the vGIC and of virtio, which it has not
\* mapped, and a write to QUEUE_PFN traps the queue.
Trap(c, q) ==
  /\ at[c] = "guest"
  /\ q \in Traps \ trapped
  /\ trapped' = trapped \cup {q}
  /\ op' = [op EXCEPT ![c] = "unmap"]
  /\ base' = [base EXCEPT ![c] = q]
  /\ StartWalk(c, q)
  /\ UNCHANGED <<memVars, left, page>>

\* Mutant of FreePage: the table goes, not the page.
MutFreePageTable(c) ==
  /\ AtPte(c, "unmap")
  /\ IF Pte(c) = Nil
       THEN Goto(c, "unmapped") /\ UNCHANGED <<pool, use>>
       ELSE /\ pool' = <<table[c]>> \o pool
            /\ use' = [use EXCEPT ![table[c]] = "free"]
            /\ Goto(c, "clear")
  /\ UNCHANGED <<pgt, root, left, op, base, va, level, table, page, trapped>>

\* kfree(pa), and then ...
FreePage(c) ==
  /\ AtPte(c, "unmap")
  /\ IF Pte(c) = Nil
       THEN Goto(c, "unmapped") /\ UNCHANGED <<pool, use>>
       ELSE /\ pool' = <<Pte(c)>> \o pool
            /\ use' = [use EXCEPT ![Pte(c)] = "free"]
            /\ Goto(c, "clear")
  /\ UNCHANGED <<pgt, root, left, op, base, va, level, table, page, trapped>>

\* Mutant of ClearPte: the entry stays.
MutClearPteKeeps(c) ==
  /\ at[c] = "clear"
  /\ IF va[c] = base[c] + 1
       THEN Goto(c, "guest") /\ UNCHANGED <<va, level, table>>
       ELSE StartWalk(c, va[c] + 1)
  /\ UNCHANGED <<memVars, left, op, base, page, trapped>>

\* Mutant of ClearPte: one page too many.
MutClearPteOneMore(c) ==
  /\ at[c] = "clear"
  /\ SetPte(c, Nil)
  /\ IF va[c] = base[c] + 2
       THEN Goto(c, "guest") /\ UNCHANGED <<va, level, table>>
       ELSE StartWalk(c, va[c] + 1)
  /\ UNCHANGED <<pool, use, root, left, op, base, page, trapped>>

\* ... *pte = 0, and on to the next page.
ClearPte(c) ==
  /\ at[c] = "clear"
  /\ SetPte(c, Nil)
  /\ IF va[c] = base[c] + 1
       THEN Goto(c, "guest") /\ UNCHANGED <<va, level, table>>
       ELSE StartWalk(c, va[c] + 1)
  /\ UNCHANGED <<pool, use, root, left, op, base, page, trapped>>

-----------------------------------------------------------------------------
(* copy_to_guest(), copy_from_guest() and ipa2pa() *)

StartCopy(c, b) ==
  /\ at[c] = "guest"
  /\ op' = [op EXCEPT ![c] = "copy"]
  /\ base' = [base EXCEPT ![c] = b]
  /\ StartWalk(c, b)
  /\ UNCHANGED <<memVars, left, page, trapped>>

\* The part of the copy in this page, and on to the next page.  An empty entry
\* gives the offset in the page for an address, which is caught if it is 0.
CopyPage(c) ==
  /\ AtPte(c, "copy")
  /\ IF Pte(c) = Nil
       THEN Goto(c, "nopage") /\ UNCHANGED <<va, level, table>>
       ELSE IF va[c] = base[c] + 1
         THEN Goto(c, "guest") /\ UNCHANGED <<va, level, table>>
         ELSE StartWalk(c, va[c] + 1)
  /\ UNCHANGED <<memVars, left, op, base, page, trapped>>

-----------------------------------------------------------------------------
(* The rest of mvmm takes and frees pages *)

Take(c) ==
  /\ at[c] = "guest" /\ pool # <<>>
  /\ Kalloc("other")
  /\ UNCHANGED <<pgt, root, left, at, op, base, va, level, table, page, trapped>>

Give(c, f) ==
  /\ at[c] = "guest" /\ use[f] = "other"
  /\ pool' = <<f>> \o pool
  /\ use' = [use EXCEPT ![f] = "free"]
  /\ UNCHANGED <<pgt, root, left, at, op, base, va, level, table, page, trapped>>

PageWalk(c) == WalkDown(c) \/ WalkAlloc(c) \/ WalkNull(c)

Next ==
  \/ NewTable \/ Booted
  \/ \E v \in Ram \cup Dev : MapNext(v)
  \/ \E c \in Cpus :
       \/ PageWalk(c)
       \/ MapPage(c) \/ FreePage(c) \/ ClearPte(c) \/ CopyPage(c)
       \/ \E q \in Traps : Trap(c, q)
       \/ \E b \in Bufs : StartCopy(c, b)
       \/ Take(c) \/ \E f \in FrameSet : Give(c, f)

Spec == Init /\ [][Next]_vars
-----------------------------------------------------------------------------
(* Properties *)

\* What the hardware's walk finds for v.
Entry(t, i) == IF t = Nil THEN Nil ELSE pgt[t][i]
Table1(v) == Entry(root, PIDX[v][0])
Table2(v) == Entry(Table1(v), PIDX[v][1])
Table3(v) == Entry(Table2(v), PIDX[v][2])
Leaf(v) == Entry(Table3(v), PIDX[v][3])

\* pageunmap() has freed the page of v and not yet cleared its entry.
Clearing(v) == \E c \in Cpus : at[c] = "clear" /\ va[c] = v

\* The guest reaches no page of mvmm's: what is mapped is RAM of the guest or a
\* peripheral, never a table, a page that mvmm uses or one that is free, except
\* between kfree() and *pte = 0 (mm.c:51-52).
Isolated == \A v \in Ipas :
  LET p == Leaf(v) IN p \in FrameSet => use[p] = "ram" \/ Clearing(v)

\* pagewalk() is in a table of its level, whatever the other CPUs unmap and
\* free meanwhile (mm.c:8-23).
WalksTables == \A c \in Cpus :
  at[c] \in {"walk", "clear"} => use[table[c]] = TableUse[level[c] + 1]

\* None of the panics of mm.c, and no read through NULL (mm.c:35, 47-48, 70, 89).
NeverPanics == \A c \in Cpus : at[c] \notin {"used", "unmapped", "null", "nopage"}

Leaves == [v \in Ipas |-> Leaf(v)]
Space == INSTANCE AddressSpace WITH map <- Leaves

\* The tables implement a map in which each page stands once: a new table, and
\* a page mapped or unmapped, change nothing at any other address.
ImplementsAddressSpace == Space!Spec
=============================================================================
