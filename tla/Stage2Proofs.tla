---------------------------- MODULE Stage2Proofs -----------------------------
(***************************************************************************)
(* Proofs about Stage2, for every number of CPUs, pages and regions.        *)
(*                                                                          *)
(* No CPU holds a lock on the tables, so what protects a walk is their      *)
(* shape.  They are a tree: no page stands in two entries (OneEntry), and   *)
(* an entry of a table leads to a table of the next level (Levels).  Hence  *)
(* two guest pages never share an entry of level 3 (SamePlace), which is    *)
(* the lemma that most steps rest on.  A table is never freed and its entry *)
(* never overwritten, so that the table a CPU has reached stays the one on  *)
(* the path of its page (Walking).  What is unmapped is in the region of    *)
(* one CPU only (Unmapping), and what is copied is in none (Mapped).        *)
(***************************************************************************)
EXTENDS Stage2, SequenceTheorems, TLAPS

TableUses == {"level0", "level1", "level2", "level3"}

\* The table of level l on the path of v.
Walked(v, l) ==
  IF l = 0 THEN root ELSE IF l = 1 THEN Table1(v) ELSE IF l = 2 THEN Table2(v) ELSE Table3(v)

\* v is mapped to a page of its own.
Backed(v) == Leaf(v) \in FrameSet /\ use[Leaf(v)] = "ram"

Busy(c) == at[c] \in {"walk", "clear"}
MapWalk == at[BootCpu] = "walk" /\ op[BootCpu] = "map"
Unmaps(c) == Busy(c) /\ op[c] = "unmap"

\* The free list holds each free page once.
Pool ==
  /\ \A f \in FrameSet : use[f] = "free" <=> \E n \in DOMAIN pool : pool[n] = f
  /\ \A m, n \in DOMAIN pool : pool[m] = pool[n] => m = n

\* The tables: one root, only tables have entries, ...
Rooted ==
  /\ root # Nil => use[root] = "level0"
  /\ \A t \in FrameSet : use[t] = "level0" => t = root
  /\ \A t \in FrameSet : use[t] \notin TableUses => pgt[t] = ZeroPage

\* ... which lead to tables of the next level, ...
Levels ==
  \A t \in FrameSet, i \in Idx : pgt[t][i] # Nil =>
    /\ use[t] = "level0" => pgt[t][i] \in FrameSet /\ use[pgt[t][i]] = "level1"
    /\ use[t] = "level1" => pgt[t][i] \in FrameSet /\ use[pgt[t][i]] = "level2"
    /\ use[t] = "level2" => pgt[t][i] \in FrameSet /\ use[pgt[t][i]] = "level3"

\* ... in level 3 to RAM, unless it is just being unmapped, ...
LeafUse ==
  \A t \in FrameSet, i \in Idx : use[t] = "level3" /\ pgt[t][i] \in FrameSet =>
    \/ use[pgt[t][i]] = "ram"
    \/ \E c \in Cpus : at[c] = "clear" /\ table[c] = t /\ PIDX[va[c]][3] = i

\* ... or to a peripheral, at its own address, ...
Devices ==
  \A t \in FrameSet, i \in Idx, v \in Dev : pgt[t][i] = v =>
    Table3(v) = t /\ PIDX[v][3] = i

\* ... and each to a page of its own.
OneEntry ==
  \A t, u \in FrameSet, i, j \in Idx :
    pgt[t][i] # Nil /\ pgt[t][i] = pgt[u][j] => t = u /\ i = j

\* A table of level 3 was made for a page that create_vm() maps.
Grown == \A t \in FrameSet : use[t] = "level3" => \E v \in Ram \cup Dev : Table3(v) = t

Tree == Rooted /\ Levels /\ Devices /\ OneEntry /\ Grown

\* A CPU in pagewalk() is on the path of its page.
Walking ==
  \A c \in Cpus : Busy(c) =>
    /\ va[c] \in Ipas /\ table[c] \in FrameSet
    /\ table[c] = Walked(va[c], level[c])

\* First BootCpu alone maps the guest, then every CPU runs it.
Phase ==
  \/ /\ \/ at[BootCpu] = "start" /\ root = Nil
        \/ at[BootCpu] = "boot" /\ root # Nil
        \/ at[BootCpu] = "nomem"
        \/ MapWalk /\ root # Nil
     /\ \A c \in Cpus \ {BootCpu} : at[c] = "off"
     /\ op[BootCpu] = "map"
     /\ trapped = {}
  \/ /\ left = {} /\ root # Nil
     /\ \A c \in Cpus : \/ at[c] = "guest"
                        \/ at[c] = "walk" /\ op[c] \in {"unmap", "copy"}
                        \/ at[c] = "clear" /\ op[c] = "unmap"

\* What is left to map is not mapped, and the page that is mapped next is new.
Mapping ==
  /\ \A v \in Ipas : Leaf(v) # Nil => v \in (Ram \cup Dev) \ left
  /\ MapWalk =>
       /\ va[BootCpu] \in (Ram \cup Dev) \ left /\ Leaf(va[BootCpu]) = Nil
       /\ va[BootCpu] \in Ram =>
            /\ page[BootCpu] \in FrameSet /\ use[page[BootCpu]] = "ram"
            /\ \A t \in FrameSet, i \in Idx : pgt[t][i] # page[BootCpu]
       /\ va[BootCpu] \in Dev => page[BootCpu] = va[BootCpu]

\* RAM stays mapped until its region is trapped.
Mapped ==
  \A v \in Ram \ left :
    \/ Backed(v)
    \/ MapWalk /\ va[BootCpu] = v
    \/ at[BootCpu] = "nomem"
    \/ \E q \in trapped : v \in {q, q + 1}

\* Each region is unmapped by one CPU, page by page.
Region(c) ==
  /\ base[c] \in trapped /\ va[c] \in {base[c], base[c] + 1}
  /\ base[c] \notin Ram => va[c] = base[c] /\ at[c] = "walk"
  /\ base[c] \in Ram /\ at[c] = "walk" => Backed(va[c])
  /\ base[c] \in Ram /\ va[c] = base[c] => Backed(base[c] + 1)
  /\ at[c] = "clear" => level[c] = 3 /\ Leaf(va[c]) \in FrameSet

Unmapping ==
  /\ \A c, d \in Cpus : Unmaps(c) /\ Unmaps(d) /\ base[c] = base[d] => c = d
  /\ \A c \in Cpus : Unmaps(c) => Region(c)

\* Only what is never trapped is copied.
Copying ==
  \A c \in Cpus : at[c] = "walk" /\ op[c] = "copy" =>
    base[c] \in Bufs /\ va[c] \in {base[c], base[c] + 1}

IInv ==
  /\ TypeOK /\ Pool /\ Tree /\ LeafUse
  /\ Walking /\ Phase /\ Mapping /\ Mapped /\ Unmapping /\ Copying

-----------------------------------------------------------------------------
(* The free list *)

LEMMA Constants ==
  /\ FrameSet \cap Ipas = {} /\ FrameSet \cap Dev = {}
  /\ Nil \notin FrameSet /\ Nil \notin Ipas /\ Nil \notin Dev
  /\ Ram \subseteq Ipas /\ Dev \subseteq Ipas /\ Ram \cap Dev = {}
  /\ \A v \in Ipas, l \in 0 .. 3 : PIDX[v][l] \in Idx
  /\ \A v \in Ipas : v \in Nat
BY Stage2Assumption DEF Pages

\* kalloc() takes a page that is free.
LEMMA KallocFree ==
  ASSUME TypeOK, Pool, pool # <<>>, NEW u, u # "free", Kalloc(u)
  PROVE  /\ Head(pool) \in FrameSet /\ use[Head(pool)] = "free"
         /\ use' = [use EXCEPT ![Head(pool)] = u]
         /\ pool' \in Seq(FrameSet) /\ Pool'
<1>1. /\ Head(pool) = pool[1] /\ Head(pool) \in FrameSet
      /\ pool' \in Seq(FrameSet) /\ Len(pool') = Len(pool) - 1
      /\ \A n \in 1 .. Len(pool) - 1 : pool'[n] = pool[n + 1]
  BY HeadTailProperties DEF Kalloc, TypeOK
<1>2. /\ Len(pool) \in Nat /\ 1 \in DOMAIN pool
      /\ DOMAIN pool = 1 .. Len(pool) /\ DOMAIN pool' = 1 .. Len(pool) - 1
  BY <1>1, LenProperties, EmptySeq DEF TypeOK
<1>3. use[Head(pool)] = "free"
  BY <1>1, <1>2 DEF Pool
<1>4. use' = [use EXCEPT ![Head(pool)] = u]
  BY DEF Kalloc
<1>5. ASSUME NEW f \in FrameSet
      PROVE  use'[f] = "free" <=> \E n \in DOMAIN pool' : pool'[n] = f
  <2>1. CASE f = Head(pool)
    <3>1. use'[f] # "free"
      BY <1>4, <2>1 DEF TypeOK
    <3>2. ASSUME NEW n \in DOMAIN pool', pool'[n] = f PROVE FALSE
      <4>1. n + 1 \in DOMAIN pool /\ pool[n + 1] = pool[1] /\ n + 1 # 1
        BY <1>1, <1>2, <2>1, <3>2
      <4> QED
        BY <4>1, <1>2 DEF Pool
    <3> QED
      BY <3>1, <3>2
  <2>2. CASE f # Head(pool)
    <3>1. use'[f] = use[f]
      BY <1>4, <2>2 DEF TypeOK
    <3>2. ASSUME NEW n \in DOMAIN pool, pool[n] = f
          PROVE  n - 1 \in DOMAIN pool' /\ pool'[n - 1] = f
      <4>1. n # 1
        BY <1>1, <2>2, <3>2
      <4> QED
        BY <1>1, <1>2, <3>2, <4>1
    <3>3. ASSUME NEW n \in DOMAIN pool', pool'[n] = f
          PROVE  n + 1 \in DOMAIN pool /\ pool[n + 1] = f
      BY <1>1, <1>2, <3>3
    <3> QED
      BY <3>1, <3>2, <3>3 DEF Pool
  <2> QED
    BY <2>1, <2>2
<1>6. ASSUME NEW m \in DOMAIN pool', NEW n \in DOMAIN pool', pool'[m] = pool'[n]
      PROVE  m = n
  <2>1. m + 1 \in DOMAIN pool /\ n + 1 \in DOMAIN pool /\ pool[m + 1] = pool[n + 1]
    BY <1>1, <1>2, <1>6
  <2>2. m + 1 = n + 1
    BY <2>1 DEF Pool
  <2> QED
    BY <1>2, <2>2
<1>7. Pool'
  BY <1>5, <1>6 DEF Pool
<1> QED
  BY <1>1, <1>3, <1>4, <1>7

\* kfree() of a page that is not free.
LEMMA KfreeUsed ==
  ASSUME TypeOK, Pool, NEW f \in FrameSet, use[f] # "free",
         pool' = <<f>> \o pool, use' = [use EXCEPT ![f] = "free"]
  PROVE  pool' \in Seq(FrameSet) /\ Pool'
<1>1. /\ <<f>> \in Seq(FrameSet) /\ Len(<<f>>) = 1 /\ pool \in Seq(FrameSet)
      /\ Len(pool) \in Nat /\ DOMAIN pool = 1 .. Len(pool)
  BY LenProperties DEF TypeOK
<1>2. /\ pool' \in Seq(FrameSet)
      /\ Len(pool') = Len(pool) + 1
      /\ \A n \in 1 .. Len(pool) + 1 : pool'[n] = IF n = 1 THEN f ELSE pool[n - 1]
  <2>1. /\ <<f>> \o pool \in Seq(FrameSet)
        /\ Len(<<f>> \o pool) = 1 + Len(pool)
        /\ \A n \in 1 .. 1 + Len(pool) :
             (<<f>> \o pool)[n] = IF n <= 1 THEN <<f>>[n] ELSE pool[n - 1]
    BY <1>1, ConcatProperties
  <2> QED
    BY <1>1, <2>1
<1>3. DOMAIN pool' = 1 .. Len(pool) + 1
  BY <1>2, LenProperties
<1>4. \A n \in DOMAIN pool : pool[n] # f
  BY DEF Pool
<1>5. ASSUME NEW g \in FrameSet
      PROVE  use'[g] = "free" <=> \E n \in DOMAIN pool' : pool'[n] = g
  <2>1. CASE g = f
    <3>1. use'[g] = "free" /\ pool'[1] = g /\ 1 \in DOMAIN pool'
      BY <1>1, <1>2, <1>3, <2>1 DEF TypeOK
    <3> QED
      BY <3>1
  <2>2. CASE g # f
    <3>1. use'[g] = use[g]
      BY <2>2 DEF TypeOK
    <3>2. ASSUME NEW n \in DOMAIN pool, pool[n] = g
          PROVE  n + 1 \in DOMAIN pool' /\ pool'[n + 1] = g
      BY <1>1, <1>2, <1>3, <3>2
    <3>3. ASSUME NEW n \in DOMAIN pool', pool'[n] = g
          PROVE  n - 1 \in DOMAIN pool /\ pool[n - 1] = g
      BY <1>1, <1>2, <1>3, <2>2, <3>3
    <3> QED
      BY <3>1, <3>2, <3>3 DEF Pool
  <2> QED
    BY <2>1, <2>2
<1>6. ASSUME NEW m \in DOMAIN pool', NEW n \in DOMAIN pool', pool'[m] = pool'[n]
      PROVE  m = n
  <2>1. \A k \in DOMAIN pool' : k = 1 \/ k - 1 \in DOMAIN pool
    BY <1>1, <1>3
  <2>2. CASE m = 1 \/ n = 1
    BY <1>1, <1>2, <1>3, <1>4, <1>6, <2>1, <2>2
  <2>3. CASE m # 1 /\ n # 1
    <3>1. m - 1 \in DOMAIN pool /\ n - 1 \in DOMAIN pool /\ pool[m - 1] = pool[n - 1]
      BY <1>2, <1>3, <1>6, <2>1, <2>3
    <3>2. m - 1 = n - 1
      BY <3>1 DEF Pool
    <3> QED
      BY <1>1, <1>3, <3>2
  <2> QED
    BY <2>2, <2>3
<1> QED
  BY <1>2, <1>5, <1>6 DEF Pool

-----------------------------------------------------------------------------
(* The path of a guest page *)

\* Each entry on the path of v is in a table of its level.
LEMMA Path ==
  ASSUME TypeOK, Rooted, Levels, NEW v \in Ipas
  PROVE  /\ root # Nil => root \in FrameSet /\ use[root] = "level0"
         /\ Table1(v) # Nil =>
              /\ root # Nil /\ Table1(v) = pgt[root][PIDX[v][0]]
              /\ Table1(v) \in FrameSet /\ use[Table1(v)] = "level1"
         /\ Table2(v) # Nil =>
              /\ Table1(v) # Nil /\ Table2(v) = pgt[Table1(v)][PIDX[v][1]]
              /\ Table2(v) \in FrameSet /\ use[Table2(v)] = "level2"
         /\ Table3(v) # Nil =>
              /\ Table2(v) # Nil /\ Table3(v) = pgt[Table2(v)][PIDX[v][2]]
              /\ Table3(v) \in FrameSet /\ use[Table3(v)] = "level3"
         /\ Leaf(v) # Nil => Table3(v) # Nil
         /\ Table3(v) # Nil => Leaf(v) = pgt[Table3(v)][PIDX[v][3]]
         /\ Leaf(v) \in Pages \cup {Nil}
<1> USE Constants
<1> DEFINE i(l) == PIDX[v][l]
<1>0. i(0) \in Idx /\ i(1) \in Idx /\ i(2) \in Idx /\ i(3) \in Idx
  OBVIOUS
<1>1. root # Nil => root \in FrameSet /\ use[root] = "level0"
  BY DEF TypeOK, Rooted
<1>2. Table1(v) # Nil =>
              /\ root # Nil /\ Table1(v) = pgt[root][PIDX[v][0]]
              /\ Table1(v) \in FrameSet /\ use[Table1(v)] = "level1"
  BY <1>0, <1>1 DEF Levels, Table1, Entry
<1>3. Table2(v) # Nil =>
              /\ Table1(v) # Nil /\ Table2(v) = pgt[Table1(v)][PIDX[v][1]]
              /\ Table2(v) \in FrameSet /\ use[Table2(v)] = "level2"
  BY <1>0, <1>2 DEF Levels, Table2, Entry
<1>4. Table3(v) # Nil =>
              /\ Table2(v) # Nil /\ Table3(v) = pgt[Table2(v)][PIDX[v][2]]
              /\ Table3(v) \in FrameSet /\ use[Table3(v)] = "level3"
  BY <1>0, <1>3 DEF Levels, Table3, Entry
<1>5. Leaf(v) = IF Table3(v) = Nil THEN Nil ELSE pgt[Table3(v)][PIDX[v][3]]
  BY DEF Leaf, Entry
<1>6. Leaf(v) \in Pages \cup {Nil}
  BY <1>0, <1>4, <1>5 DEF TypeOK
<1> QED
  BY <1>1, <1>2, <1>3, <1>4, <1>5, <1>6

\* Guest pages that meet in a table have come the same way.
LEMMA SamePath ==
  ASSUME TypeOK, Rooted, Levels, OneEntry, NEW v \in Ipas, NEW w \in Ipas
  PROVE  /\ Table1(v) # Nil /\ Table1(v) = Table1(w) => PIDX[v][0] = PIDX[w][0]
         /\ Table2(v) # Nil /\ Table2(v) = Table2(w) =>
              Table1(v) = Table1(w) /\ PIDX[v][1] = PIDX[w][1]
         /\ Table3(v) # Nil /\ Table3(v) = Table3(w) =>
              Table2(v) = Table2(w) /\ PIDX[v][2] = PIDX[w][2]
         /\ Table3(v) # Nil /\ Table3(v) = Table3(w) =>
              \A l \in 0 .. 2 : PIDX[v][l] = PIDX[w][l]
<1>0. /\ PIDX[v][0] \in Idx /\ PIDX[v][1] \in Idx /\ PIDX[v][2] \in Idx
      /\ PIDX[w][0] \in Idx /\ PIDX[w][1] \in Idx /\ PIDX[w][2] \in Idx
  BY Constants
<1>1. Table1(v) # Nil /\ Table1(v) = Table1(w) => PIDX[v][0] = PIDX[w][0]
  BY <1>0, Path DEF OneEntry
<1>2. Table2(v) # Nil /\ Table2(v) = Table2(w) =>
        Table1(v) = Table1(w) /\ PIDX[v][1] = PIDX[w][1]
  BY <1>0, Path DEF OneEntry
<1>3. Table3(v) # Nil /\ Table3(v) = Table3(w) =>
        Table2(v) = Table2(w) /\ PIDX[v][2] = PIDX[w][2]
  BY <1>0, Path DEF OneEntry
<1>4. ASSUME Table3(v) # Nil, Table3(v) = Table3(w), NEW l \in 0 .. 2
      PROVE  PIDX[v][l] = PIDX[w][l]
  <2>1. Table2(v) # Nil /\ Table1(v) # Nil
    BY <1>4, Path
  <2>2. l = 0 \/ l = 1 \/ l = 2
    OBVIOUS
  <2> QED
    BY <1>1, <1>2, <1>3, <1>4, <2>1, <2>2
<1> QED
  BY <1>1, <1>2, <1>3, <1>4

\* No two guest pages have the same entry of level 3, or the same page.
LEMMA SamePlace ==
  ASSUME TypeOK, Rooted, Levels, OneEntry, NEW v \in Ipas, NEW w \in Ipas
  PROVE  /\ Table3(v) # Nil /\ Table3(v) = Table3(w) /\ PIDX[v][3] = PIDX[w][3] => v = w
         /\ Leaf(v) # Nil /\ Leaf(v) = Leaf(w) => v = w
<1>1. ASSUME Table3(v) # Nil, Table3(v) = Table3(w), PIDX[v][3] = PIDX[w][3]
      PROVE  v = w
  <2>1. \A l \in 0 .. 3 : PIDX[v][l] = PIDX[w][l]
    <3>1. \A l \in 0 .. 3 : l \in 0 .. 2 \/ l = 3
      OBVIOUS
    <3> QED
      BY <1>1, <3>1, SamePath
  <2>2. PIDX[v] \in [0 .. 3 -> Idx] /\ PIDX[w] \in [0 .. 3 -> Idx]
    BY Stage2Assumption
  <2>3. PIDX[v] = PIDX[w]
    BY <2>1, <2>2
  <2> QED
    BY <2>3, Stage2Assumption
<1>2. ASSUME Leaf(v) # Nil, Leaf(v) = Leaf(w)
      PROVE  Table3(v) # Nil /\ Table3(v) = Table3(w) /\ PIDX[v][3] = PIDX[w][3]
  <2>1. /\ Table3(v) \in FrameSet /\ Leaf(v) = pgt[Table3(v)][PIDX[v][3]]
        /\ Table3(w) \in FrameSet /\ Leaf(w) = pgt[Table3(w)][PIDX[w][3]]
    BY <1>2, Path
  <2>2. PIDX[v][3] \in Idx /\ PIDX[w][3] \in Idx
    BY Constants
  <2>3. pgt[Table3(v)][PIDX[v][3]] # Nil /\ pgt[Table3(v)][PIDX[v][3]] = pgt[Table3(w)][PIDX[w][3]]
    BY <1>2, <2>1
  <2>4. Table3(v) = Table3(w) /\ PIDX[v][3] = PIDX[w][3]
    BY <2>1, <2>2, <2>3 DEF OneEntry
  <2> QED
    BY <1>2, <2>4, Path
<1> QED
  BY <1>1, <1>2

\* What is not Nil on a path is where a walk is.
LEMMA WalkedPath ==
  ASSUME TypeOK, Rooted, Levels, NEW v \in Ipas, NEW l \in 0 .. 3, Walked(v, l) # Nil
  PROVE  /\ Walked(v, l) \in FrameSet /\ use[Walked(v, l)] = TableUse[l + 1]
         /\ l = 3 => Leaf(v) = pgt[Walked(v, l)][PIDX[v][l]]
         /\ l < 3 => Walked(v, l + 1) = pgt[Walked(v, l)][PIDX[v][l]]
         /\ Leaf(v) # Nil => pgt[Walked(v, l)][PIDX[v][l]] # Nil
<1>0. l = 0 \/ l = 1 \/ l = 2 \/ l = 3
  OBVIOUS
<1>1. CASE l = 0
  <2>1. Walked(v, l) = root /\ Walked(v, l + 1) = Table1(v)
    BY <1>1 DEF Walked
  <2> QED
    BY <1>1, <2>1, Path DEF TableUse, Table1, Entry
<1>2. CASE l = 1
  <2>1. Walked(v, l) = Table1(v) /\ Walked(v, l + 1) = Table2(v)
    BY <1>2 DEF Walked
  <2> QED
    BY <1>2, <2>1, Path DEF TableUse, Table2, Entry
<1>3. CASE l = 2
  <2>1. Walked(v, l) = Table2(v) /\ Walked(v, l + 1) = Table3(v)
    BY <1>3 DEF Walked
  <2> QED
    BY <1>3, <2>1, Path DEF TableUse, Table3, Entry
<1>4. CASE l = 3
  <2>1. Walked(v, l) = Table3(v)
    BY <1>4 DEF Walked
  <2> QED
    BY <1>4, <2>1, Path DEF TableUse
<1> QED
  BY <1>0, <1>1, <1>2, <1>3, <1>4

\* A new table at level k + 1 of the path of w changes no entry of level 3, and
\* no table that was there.
LEMMA Grow ==
  ASSUME TypeOK, Rooted, Levels, OneEntry,
         NEW w \in Ipas, NEW k \in 0 .. 2, NEW n \in FrameSet, use[n] = "free",
         Walked(w, k) \in FrameSet, pgt[Walked(w, k)][PIDX[w][k]] = Nil,
         pgt' = [pgt EXCEPT ![Walked(w, k)][PIDX[w][k]] = n], root' = root
  PROVE  /\ Walked(w, k + 1)' = n
         /\ \A v \in Ipas :
              /\ Table1(v) # Nil => Table1(v)' = Table1(v)
              /\ Table2(v) # Nil => Table2(v)' = Table2(v)
              /\ Table3(v) # Nil => Table3(v)' = Table3(v)
              /\ Leaf(v)' = Leaf(v)
<1> DEFINE t == Walked(w, k)
           i == PIDX[w][k]
<1>1. /\ t \in FrameSet /\ i \in Idx /\ t # Nil /\ pgt[t][i] = Nil
      /\ use[t] = TableUse[k + 1] /\ n # Nil
  <2>1. k \in 0 .. 3
    OBVIOUS
  <2> QED
    BY <2>1, WalkedPath, Constants
<1>2. use[t] # "free" /\ n # t
  BY <1>1 DEF TableUse
<1>3. /\ \A x \in FrameSet, j \in Idx :
           pgt'[x][j] = IF x = t /\ j = i THEN n ELSE pgt[x][j]
      /\ \A j \in Idx : pgt'[n][j] = Nil
  <2>1. \A x \in FrameSet, j \in Idx :
           pgt'[x][j] = IF x = t /\ j = i THEN n ELSE pgt[x][j]
    BY <1>1 DEF TypeOK
  <2>2. pgt[n] = ZeroPage
    BY DEF Rooted, TableUses
  <2> QED
    BY <1>2, <2>1, <2>2 DEF ZeroPage
<1>4. \A v \in Ipas : /\ PIDX[v][0] \in Idx /\ PIDX[v][1] \in Idx
                      /\ PIDX[v][2] \in Idx /\ PIDX[v][3] \in Idx
  BY Constants
<1>5. k = 0 \/ k = 1 \/ k = 2
  OBVIOUS
<1>6. CASE k = 0
  <2>1. t = root /\ use[root] = "level0" /\ i = PIDX[w][0] /\ root' = root
    BY <1>1, <1>6 DEF Walked, TableUse
  <2>2. ASSUME NEW v \in Ipas
        PROVE  Table1(v)' = IF PIDX[v][0] = i THEN n ELSE Table1(v)
    BY <1>1, <1>3, <1>4, <2>1 DEF Table1, Entry
  <2>3. Walked(w, k + 1)' = n
    BY <1>6, <2>1, <2>2 DEF Walked
  <2>4. ASSUME NEW v \in Ipas, PIDX[v][0] = i
        PROVE  /\ Table1(v) = Nil /\ Table2(v) = Nil /\ Table3(v) = Nil
               /\ Leaf(v) = Nil /\ Leaf(v)' = Nil
    <3>1. Table1(v) = Nil
      BY <1>1, <2>1, <2>4 DEF Table1, Entry
    <3>2. Table2(v)' = Nil
      BY <1>1, <1>3, <1>4, <2>2, <2>4 DEF Table2, Entry
    <3>3. Leaf(v)' = Nil
      BY <3>2 DEF Table3, Leaf, Entry
    <3> QED
      BY <3>1, <3>3 DEF Table2, Table3, Leaf, Entry
  <2>5. ASSUME NEW v \in Ipas, PIDX[v][0] # i
        PROVE  /\ Table1(v)' = Table1(v) /\ Table2(v)' = Table2(v)
               /\ Table3(v)' = Table3(v) /\ Leaf(v)' = Leaf(v)
    <3>1. Table1(v)' = Table1(v)
      BY <2>2, <2>5
    <3>2. Table2(v)' = Table2(v)
      BY <1>3, <1>4, <2>1, <3>1, Path DEF Table2, Entry
    <3>3. Table3(v)' = Table3(v)
      BY <1>3, <1>4, <2>1, <3>2, Path DEF Table3, Entry
    <3>4. Leaf(v)' = Leaf(v)
      BY <1>3, <1>4, <2>1, <3>3, Path DEF Leaf, Entry
    <3> QED
      BY <3>1, <3>2, <3>3, <3>4
  <2> QED
    BY <2>3, <2>4, <2>5
<1>7. CASE k = 1
  <2>1. t = Table1(w) /\ use[t] = "level1" /\ i = PIDX[w][1] /\ root' = root
    BY <1>1, <1>7 DEF Walked, TableUse
  <2>2. ASSUME NEW v \in Ipas PROVE Table1(v)' = Table1(v)
    BY <1>3, <1>4, <2>1, Path DEF Table1, Entry
  <2>3. ASSUME NEW v \in Ipas
        PROVE  Table2(v)' = IF Table1(v) = t /\ PIDX[v][1] = i THEN n ELSE Table2(v)
    BY <1>1, <1>3, <1>4, <2>2, Path DEF Table2, Entry
  <2>4. Walked(w, k + 1)' = n
    BY <1>7, <2>1, <2>3 DEF Walked
  <2>5. ASSUME NEW v \in Ipas, Table1(v) = t, PIDX[v][1] = i
        PROVE  /\ Table2(v) = Nil /\ Table3(v) = Nil
               /\ Leaf(v) = Nil /\ Leaf(v)' = Nil
    <3>1. Table2(v) = Nil
      BY <1>1, <2>1, <2>5 DEF Table2, Entry
    <3>2. Table3(v)' = Nil
      BY <1>1, <1>3, <1>4, <2>3, <2>5 DEF Table3, Entry
    <3> QED
      BY <3>1, <3>2 DEF Table3, Leaf, Entry
  <2>6. ASSUME NEW v \in Ipas, ~ (Table1(v) = t /\ PIDX[v][1] = i)
        PROVE  /\ Table2(v)' = Table2(v)
               /\ Table3(v)' = Table3(v) /\ Leaf(v)' = Leaf(v)
    <3>1. Table2(v)' = Table2(v)
      BY <2>3, <2>6
    <3>2. Table3(v)' = Table3(v)
      BY <1>3, <1>4, <2>1, <3>1, Path DEF Table3, Entry
    <3>3. Leaf(v)' = Leaf(v)
      BY <1>3, <1>4, <2>1, <3>2, Path DEF Leaf, Entry
    <3> QED
      BY <3>1, <3>2, <3>3
  <2> QED
    BY <2>2, <2>4, <2>5, <2>6
<1>8. CASE k = 2
  <2>1. t = Table2(w) /\ use[t] = "level2" /\ i = PIDX[w][2] /\ root' = root
    BY <1>1, <1>8 DEF Walked, TableUse
  <2>2. ASSUME NEW v \in Ipas PROVE Table1(v)' = Table1(v)
    BY <1>3, <1>4, <2>1, Path DEF Table1, Entry
  <2>3. ASSUME NEW v \in Ipas PROVE Table2(v)' = Table2(v)
    BY <1>3, <1>4, <2>1, <2>2, Path DEF Table2, Entry
  <2>4. ASSUME NEW v \in Ipas
        PROVE  Table3(v)' = IF Table2(v) = t /\ PIDX[v][2] = i THEN n ELSE Table3(v)
    BY <1>1, <1>3, <1>4, <2>3, Path DEF Table3, Entry
  <2>5. Walked(w, k + 1)' = n
    BY <1>8, <2>1, <2>4 DEF Walked
  <2>6. ASSUME NEW v \in Ipas, Table2(v) = t, PIDX[v][2] = i
        PROVE  Table3(v) = Nil /\ Leaf(v) = Nil /\ Leaf(v)' = Nil
    <3>1. Table3(v) = Nil
      BY <1>1, <2>1, <2>6 DEF Table3, Entry
    <3>2. Leaf(v)' = Nil
      BY <1>1, <1>3, <1>4, <2>4, <2>6 DEF Leaf, Entry
    <3> QED
      BY <3>1, <3>2 DEF Leaf, Entry
  <2>7. ASSUME NEW v \in Ipas, ~ (Table2(v) = t /\ PIDX[v][2] = i)
        PROVE  Table3(v)' = Table3(v) /\ Leaf(v)' = Leaf(v)
    <3>1. Table3(v)' = Table3(v)
      BY <2>4, <2>7
    <3>2. Leaf(v)' = Leaf(v)
      BY <1>3, <1>4, <2>1, <3>1, Path DEF Leaf, Entry
    <3> QED
      BY <3>1, <3>2
  <2> QED
    BY <2>2, <2>3, <2>5, <2>6, <2>7
<1> QED
  BY <1>5, <1>6, <1>7, <1>8

\* The entry of level 3 of w is the leaf of no other page.
LEMMA WriteLeaf ==
  ASSUME TypeOK, Rooted, Levels, OneEntry, NEW w \in Ipas, NEW e \in Pages \cup {Nil},
         Table3(w) \in FrameSet,
         pgt' = [pgt EXCEPT ![Table3(w)][PIDX[w][3]] = e], root' = root
  PROVE  \A v \in Ipas :
           /\ Table1(v)' = Table1(v) /\ Table2(v)' = Table2(v) /\ Table3(v)' = Table3(v)
           /\ Leaf(v)' = IF v = w THEN e ELSE Leaf(v)
<1> DEFINE t == Table3(w)
           i == PIDX[w][3]
<1>1. t \in FrameSet /\ i \in Idx /\ t # Nil /\ use[t] = "level3"
  BY Path, Constants
<1>2. \A x \in FrameSet, j \in Idx :
        pgt'[x][j] = IF x = t /\ j = i THEN e ELSE pgt[x][j]
  BY <1>1 DEF TypeOK
<1>3. \A v \in Ipas : /\ PIDX[v][0] \in Idx /\ PIDX[v][1] \in Idx
                      /\ PIDX[v][2] \in Idx /\ PIDX[v][3] \in Idx
  BY Constants
<1>4. SUFFICES ASSUME NEW v \in Ipas
      PROVE  /\ Table1(v)' = Table1(v) /\ Table2(v)' = Table2(v) /\ Table3(v)' = Table3(v)
             /\ Leaf(v)' = IF v = w THEN e ELSE Leaf(v)
  OBVIOUS
<1>5. Table1(v)' = Table1(v)
  BY <1>1, <1>2, <1>3, Path DEF Table1, Entry
<1>6. Table2(v)' = Table2(v)
  BY <1>1, <1>2, <1>3, <1>5, Path DEF Table2, Entry
<1>7. Table3(v)' = Table3(v)
  BY <1>1, <1>2, <1>3, <1>6, Path DEF Table3, Entry
<1>8. Leaf(v)' = IF v = w THEN e ELSE Leaf(v)
  <2>1. CASE v = w
    BY <1>1, <1>2, <1>7, <2>1 DEF Leaf, Entry
  <2>2. CASE v # w
    <3>1. Table3(v) = t => PIDX[v][3] # i
      BY <1>1, <2>2, SamePlace
    <3> QED
      BY <1>2, <1>3, <1>7, <2>2, <3>1, Path DEF Leaf, Entry
  <2> QED
    BY <2>1, <2>2
<1> QED
  BY <1>5, <1>6, <1>7, <1>8

\* As long as the tables stay, so does every path.
LEMMA SameTables ==
  ASSUME pgt' = pgt, root' = root
  PROVE  \A v \in Ipas :
           /\ Table1(v)' = Table1(v) /\ Table2(v)' = Table2(v) /\ Table3(v)' = Table3(v)
           /\ Leaf(v)' = Leaf(v)
           /\ \A l \in 0 .. 3 : Walked(v, l)' = Walked(v, l)
<1> SUFFICES ASSUME NEW v \in Ipas
    PROVE  /\ Table1(v)' = Table1(v) /\ Table2(v)' = Table2(v) /\ Table3(v)' = Table3(v)
           /\ Leaf(v)' = Leaf(v)
           /\ \A l \in 0 .. 3 : Walked(v, l)' = Walked(v, l)
  OBVIOUS
<1>1. Table1(v)' = Table1(v)
  BY DEF Table1, Entry
<1>2. Table2(v)' = Table2(v)
  BY <1>1 DEF Table2, Entry
<1>3. Table3(v)' = Table3(v)
  BY <1>2 DEF Table3, Entry
<1>4. Leaf(v)' = Leaf(v)
  BY <1>3 DEF Leaf, Entry
<1> QED
  BY <1>1, <1>2, <1>3, <1>4 DEF Walked

-----------------------------------------------------------------------------
(* Type correctness *)

LEMMA InitInv == ASSUME Init PROVE IInv
<1> USE Stage2Assumption, Constants
<1>1. TypeOK
  <2>1. Frames \in Seq(FrameSet)
    OBVIOUS
  <2> QED
    BY <2>1 DEF Init, TypeOK, ZeroPage, Panics
<1>2. Pool
  BY DEF Init, Pool, FrameSet
<1>3. Tree /\ LeafUse
  BY DEF Init, Tree, Rooted, Levels, LeafUse, Devices, OneEntry, Grown, ZeroPage, TableUses
<1>4. \A v \in Ipas : Leaf(v) = Nil
  BY DEF Init, Leaf, Table3, Table2, Table1, Entry
<1>5. Walking /\ Phase /\ Mapping /\ Mapped /\ Unmapping /\ Copying
  <2>1. \A c \in Cpus : ~ Busy(c)
    BY DEF Init, Busy
  <2>2. Phase
    BY DEF Init, Phase
  <2>3. ~ MapWalk
    BY DEF Init, MapWalk
  <2>4. \A c \in Cpus : at[c] # "walk"
    BY DEF Init
  <2> QED
    BY <1>4, <2>1, <2>2, <2>3, <2>4 DEF Init, Walking, Mapping, Mapped, Unmapping, Region, Unmaps, Copying
<1> QED
  BY <1>1, <1>2, <1>3, <1>5 DEF IInv

\* A CPU in a walk is at an entry of a table of its level.
LEMMA PteEntry ==
  ASSUME IInv, NEW c \in Cpus, Busy(c)
  PROVE  /\ va[c] \in Ipas /\ level[c] \in 0 .. 3
         /\ table[c] = Walked(va[c], level[c])
         /\ table[c] \in FrameSet /\ use[table[c]] = TableUse[level[c] + 1]
         /\ PIDX[va[c]][level[c]] \in Idx /\ Pte(c) \in Pages \cup {Nil}
         /\ level[c] = 3 => table[c] = Table3(va[c]) /\ Pte(c) = Leaf(va[c])
         /\ level[c] < 3 =>
              /\ Walked(va[c], level[c] + 1) = Pte(c)
              /\ Pte(c) # Nil => Pte(c) \in FrameSet
         /\ Leaf(va[c]) # Nil => Pte(c) # Nil
<1>1. /\ va[c] \in Ipas /\ level[c] \in 0 .. 3 /\ table[c] \in FrameSet
      /\ table[c] = Walked(va[c], level[c])
  BY DEF IInv, TypeOK, Walking
<1>2. Walked(va[c], level[c]) # Nil
  BY <1>1, Constants
<1>3. /\ use[table[c]] = TableUse[level[c] + 1]
      /\ level[c] = 3 => Leaf(va[c]) = Pte(c)
      /\ level[c] < 3 => Walked(va[c], level[c] + 1) = Pte(c)
      /\ Leaf(va[c]) # Nil => Pte(c) # Nil
  BY <1>1, <1>2, WalkedPath DEF IInv, Tree, Pte
<1>4. PIDX[va[c]][level[c]] \in Idx
  BY <1>1, Constants
<1>5. Pte(c) \in Pages \cup {Nil}
  BY <1>1, <1>4 DEF Pte, IInv, TypeOK
<1>6. level[c] < 3 /\ Pte(c) # Nil => Pte(c) \in FrameSet
  <2>1. level[c] < 3 => use[table[c]] \in {"level0", "level1", "level2"}
    BY <1>1, <1>3 DEF TableUse
  <2> QED
    BY <1>1, <1>4, <2>1 DEF Pte, IInv, Tree, Levels
<1>7. level[c] = 3 => table[c] = Table3(va[c])
  BY <1>1 DEF Walked
<1> QED
  BY <1>1, <1>3, <1>4, <1>5, <1>6, <1>7

\* A page is mapped by BootCpu alone, before it is unmapped or copied.
LEMMA MapBoot ==
  ASSUME IInv, NEW c \in Cpus, at[c] = "walk", op[c] = "map"
  PROVE  c = BootCpu /\ MapWalk /\ root # Nil
BY DEF IInv, Phase, MapWalk

LEMMA GuestPhase ==
  ASSUME IInv, NEW c \in Cpus, at[c] \in {"guest", "clear"} \/ (at[c] = "walk" /\ op[c] # "map")
  PROVE  /\ left = {} /\ root # Nil /\ ~ MapWalk
         /\ \A d \in Cpus : \/ at[d] = "guest"
                            \/ at[d] = "walk" /\ op[d] \in {"unmap", "copy"}
                            \/ at[d] = "clear" /\ op[d] = "unmap"
BY Stage2Assumption DEF IInv, Phase, MapWalk

\* A region that is not of RAM has no table of level 3.
LEMMA NoTable ==
  ASSUME IInv, NEW q \in Traps, q \notin Ram
  PROVE  Table3(q) = Nil
<1>1. q \in Ipas
  BY Stage2Assumption
<1>2. SUFFICES ASSUME Table3(q) # Nil PROVE FALSE
  OBVIOUS
<1>3. PICK v \in Ram \cup Dev : Table3(v) = Table3(q)
  BY <1>1, <1>2, Path DEF IInv, Tree, Grown
<1>4. \A l \in 0 .. 2 : PIDX[v][l] = PIDX[q][l]
  BY <1>1, <1>2, <1>3, Constants, SamePath DEF IInv, Tree
<1> QED
  BY <1>4, TrapAssumption

\* The pages of a region are of RAM, or its first is not.
LEMMA RegionRam ==
  ASSUME NEW q \in Traps, q \in Ram
  PROVE  q + 1 \in Ram
BY TrapAssumption

\* A CPU that gets to level 3 to unmap a page finds it mapped.
LEMMA RegionMapped ==
  ASSUME IInv, NEW c \in Cpus, Unmaps(c), at[c] = "walk", level[c] = 3
  PROVE  base[c] \in Ram /\ Backed(va[c])
<1>1. base[c] \in Traps /\ (base[c] \notin Ram => va[c] = base[c])
  BY DEF IInv, TypeOK, Unmapping, Region
<1>2. table[c] \in FrameSet /\ table[c] = Table3(va[c])
  BY PteEntry DEF Unmaps
<1>3. base[c] \in Ram
  BY <1>1, <1>2, NoTable, Constants
<1> QED
  BY <1>3 DEF IInv, Unmapping, Region

\* What is copied is mapped.
LEMMA CopyMapped ==
  ASSUME IInv, NEW c \in Cpus, at[c] = "walk", op[c] = "copy"
  PROVE  Backed(va[c])
<1>1. /\ base[c] \in Bufs /\ va[c] \in {base[c], base[c] + 1}
      /\ left = {} /\ ~ MapWalk /\ at[BootCpu] # "nomem" /\ trapped \subseteq Traps
  BY GuestPhase, Stage2Assumption DEF IInv, Copying, TypeOK
<1>2. va[c] \in Ram \ left
  BY <1>1, Stage2Assumption
<1>3. ASSUME NEW q \in trapped, va[c] \in {q, q + 1} PROVE FALSE
  BY <1>1, <1>3, Stage2Assumption
<1> QED
  BY <1>1, <1>2, <1>3 DEF IInv, Mapped

LEMMA TypeStep == ASSUME IInv, [Next]_vars PROVE TypeOK'
<1> USE DEF TypeOK, memVars, Goto, Panics
<1>0. TypeOK /\ Pool
  BY DEF IInv
<1>1. ASSUME NEW u \in {"ram", "other", "level0", "level1", "level2", "level3"},
             pool # <<>>, Kalloc(u)
      PROVE  /\ pool' \in Seq(FrameSet) /\ Head(pool) \in FrameSet
             /\ use' \in [FrameSet -> {"free", "ram", "other", "level0", "level1", "level2", "level3"}]
  BY <1>0, <1>1, KallocFree
<1>2. \A c \in Cpus, e \in Pages \cup {Nil} :
        Busy(c) /\ SetPte(c, e) => pgt' \in [FrameSet -> [Idx -> Pages \cup {Nil}]]
  BY <1>0, PteEntry DEF SetPte
<1>3. FrameSet \subseteq Pages /\ Dev \subseteq Pages /\ Ram \cup Dev \subseteq Ipas
  BY Constants DEF Pages
<1>19. \A c \in Cpus, v \in Ipas : StartWalk(c, v) =>
         /\ va' \in [Cpus -> Ipas \cup {Nil}] /\ table' \in [Cpus -> FrameSet \cup {Nil}]
         /\ level' \in [Cpus -> 0 .. 3]
         /\ at' \in [Cpus -> {"off", "start", "boot", "guest", "walk", "clear"} \cup Panics]
  BY <1>0 DEF StartWalk
<1>4. ASSUME NewTable PROVE TypeOK'
  <2>1. CASE pool = <<>>
    BY <1>0, <1>4, <2>1 DEF NewTable
  <2>2. CASE pool # <<>>
    BY <1>0, <1>1, <1>4, <2>2 DEF NewTable, TableUse
  <2> QED
    BY <2>1, <2>2
<1>5. ASSUME Booted PROVE TypeOK'
  BY <1>0, <1>5 DEF Booted
<1>6. ASSUME NEW v \in Ram \cup Dev, MapNext(v) PROVE TypeOK'
  <2>1. CASE v \in Ram /\ pool = <<>>
    BY <1>0, <1>6, <2>1 DEF MapNext
  <2>2. CASE v \in Ram /\ pool # <<>>
    <3>1. Kalloc("ram") /\ StartWalk(BootCpu, v) /\ page' = [page EXCEPT ![BootCpu] = Head(pool)]
      BY <1>6, <2>2 DEF MapNext
    <3>2. /\ pool' \in Seq(FrameSet) /\ Head(pool) \in FrameSet
          /\ use' \in [FrameSet -> {"free", "ram", "other", "level0", "level1", "level2", "level3"}]
      BY <1>1, <2>2, <3>1
    <3>3. page' \in [Cpus -> Pages \cup {Nil}]
      BY <1>0, <1>3, <3>1, <3>2
    <3> QED
      BY <1>0, <1>3, <1>6, <1>19, <2>2, <3>1, <3>2, <3>3, Stage2Assumption DEF MapNext
  <2>3. CASE v \notin Ram
    <3>1. page' \in [Cpus -> Pages \cup {Nil}] /\ StartWalk(BootCpu, v)
      BY <1>0, <1>3, <1>6, <2>3 DEF MapNext
    <3> QED
      BY <1>0, <1>3, <1>6, <1>19, <2>3, <3>1, Stage2Assumption DEF MapNext
  <2> QED
    BY <2>1, <2>2, <2>3
<1>7. ASSUME NEW c \in Cpus, WalkDown(c) PROVE TypeOK'
  <2>1. Pte(c) \in FrameSet /\ level[c] + 1 \in 0 .. 3
    BY <1>0, <1>7, PteEntry DEF WalkDown, Busy
  <2> QED
    BY <1>0, <1>7, <2>1 DEF WalkDown, NextLevel
<1>8. ASSUME NEW c \in Cpus, WalkAlloc(c) PROVE TypeOK'
  <2>1. CASE pool = <<>>
    BY <1>0, <1>8, <2>1 DEF WalkAlloc
  <2>2. CASE pool # <<>>
    <3>1. TableUse[level[c] + 2] \in {"level1", "level2", "level3"} /\ level[c] + 1 \in 0 .. 3
      BY <1>0, <1>8 DEF WalkAlloc, TableUse
    <3>2. Kalloc(TableUse[level[c] + 2]) /\ SetPte(c, Head(pool)) /\ NextLevel(c, Head(pool))
      BY <1>8, <2>2 DEF WalkAlloc
    <3>3. /\ pool' \in Seq(FrameSet) /\ Head(pool) \in FrameSet
          /\ use' \in [FrameSet -> {"free", "ram", "other", "level0", "level1", "level2", "level3"}]
      BY <1>1, <2>2, <3>1, <3>2
    <3>4. pgt' \in [FrameSet -> [Idx -> Pages \cup {Nil}]]
      BY <1>2, <1>3, <1>8, <3>2, <3>3 DEF WalkAlloc, Busy
    <3> QED
      BY <1>0, <1>8, <2>2, <3>1, <3>2, <3>3, <3>4 DEF WalkAlloc, NextLevel
  <2> QED
    BY <2>1, <2>2
<1>9. ASSUME NEW c \in Cpus, WalkNull(c) PROVE TypeOK'
  BY <1>0, <1>9 DEF WalkNull
<1>10. ASSUME NEW c \in Cpus, MapPage(c) PROVE TypeOK'
  <2>1. pgt' \in [FrameSet -> [Idx -> Pages \cup {Nil}]]
    BY <1>0, <1>2, <1>10 DEF MapPage, AtPte, Busy
  <2> QED
    BY <1>0, <1>10, <2>1 DEF MapPage
<1>11. ASSUME NEW c \in Cpus, FreePage(c) PROVE TypeOK'
  <2>1. CASE Pte(c) = Nil
    BY <1>0, <1>11, <2>1 DEF FreePage
  <2>2. CASE Pte(c) # Nil
    <3>1. Pte(c) \in FrameSet /\ use[Pte(c)] # "free"
      <4>1. Leaf(va[c]) = Pte(c) /\ Unmaps(c) /\ at[c] = "walk"
        BY <1>11, PteEntry DEF FreePage, AtPte, Busy, Unmaps
      <4> QED
        BY <1>11, <2>2, <4>1, RegionMapped DEF FreePage, AtPte, Backed
    <3>2. pool' \in Seq(FrameSet)
      BY <1>0, <1>11, <2>2, <3>1, KfreeUsed DEF FreePage
    <3> QED
      BY <1>0, <1>11, <2>2, <3>1, <3>2 DEF FreePage
  <2> QED
    BY <2>1, <2>2
<1>12. ASSUME NEW c \in Cpus, ClearPte(c) PROVE TypeOK'
  <2>1. Unmaps(c)
    BY <1>12, GuestPhase DEF ClearPte, Unmaps, Busy
  <2>2. va[c] # base[c] + 1 => va[c] + 1 \in Ipas
    BY <1>0, <2>1, Stage2Assumption DEF IInv, Unmapping, Region
  <2>3. pgt' \in [FrameSet -> [Idx -> Pages \cup {Nil}]]
    BY <1>2, <1>12 DEF ClearPte, Busy
  <2> QED
    BY <1>0, <1>12, <1>19, <2>2, <2>3 DEF ClearPte
<1>13. ASSUME NEW c \in Cpus, CopyPage(c) PROVE TypeOK'
  <2>1. va[c] # base[c] + 1 => va[c] + 1 \in Ipas
    BY <1>0, <1>3, <1>13, Stage2Assumption DEF CopyPage, AtPte, IInv, Copying
  <2> QED
    BY <1>0, <1>13, <1>19, <2>1 DEF CopyPage
<1>14. ASSUME NEW c \in Cpus, NEW q \in Traps, Trap(c, q) PROVE TypeOK'
  <2>1. q \in Ipas
    BY Stage2Assumption
  <2> QED
    BY <1>0, <1>14, <1>19, <2>1 DEF Trap
<1>15. ASSUME NEW c \in Cpus, NEW b \in Bufs, StartCopy(c, b) PROVE TypeOK'
  <2>1. b \in Ipas
    BY <1>3, Stage2Assumption
  <2> QED
    BY <1>0, <1>15, <1>19, <2>1 DEF StartCopy
<1>16. ASSUME NEW c \in Cpus, Take(c) PROVE TypeOK'
  BY <1>0, <1>1, <1>16 DEF Take
<1>17. ASSUME NEW c \in Cpus, NEW f \in FrameSet, Give(c, f) PROVE TypeOK'
  BY <1>0, <1>17, KfreeUsed DEF Give
<1>18. CASE UNCHANGED vars
  BY <1>0, <1>18 DEF vars
<1> QED
  BY <1>4, <1>5, <1>6, <1>7, <1>8, <1>9, <1>10, <1>11, <1>12, <1>13, <1>14, <1>15,
     <1>16, <1>17, <1>18 DEF Next, PageWalk

-----------------------------------------------------------------------------
(* The tables stay a tree *)

Kept == \A v \in Ipas :
  /\ root # Nil => root' = root
  /\ Table1(v) # Nil => Table1(v)' = Table1(v)
  /\ Table2(v) # Nil => Table2(v)' = Table2(v)
  /\ Table3(v) # Nil => Table3(v)' = Table3(v)

\* An entry leads to a table or to RAM while nothing is unmapped.
LEMMA EntryUse ==
  ASSUME IInv, \A c \in Cpus : at[c] # "clear",
         NEW t \in FrameSet, NEW i \in Idx, pgt[t][i] \in FrameSet
  PROVE  use[pgt[t][i]] \in TableUses \cup {"ram"} /\ use[t] \in TableUses
<1>1. pgt[t][i] # Nil
  BY Constants
<1>2. use[t] \in TableUses
  BY <1>1 DEF IInv, Tree, Rooted, ZeroPage
<1>3. use[t] \in {"level0", "level1", "level2"} => use[pgt[t][i]] \in TableUses
  BY <1>1 DEF IInv, Tree, Levels, TableUses
<1>4. use[t] = "level3" => use[pgt[t][i]] = "ram"
  BY DEF IInv, LeafUse
<1> QED
  BY <1>2, <1>3, <1>4 DEF TableUses

\* A page that is no table is taken, freed, or given to the guest.
LEMMA UseOnly ==
  ASSUME IInv, pgt' = pgt, root' = root, NEW f \in FrameSet, NEW u,
         use[f] \notin TableUses, u \notin TableUses, use' = [use EXCEPT ![f] = u]
  PROVE  Tree' /\ Kept
<1>1. \A t \in FrameSet : use'[t] = IF t = f THEN u ELSE use[t]
  BY DEF IInv, TypeOK
<1>2. ASSUME NEW t \in FrameSet, NEW s \in TableUses
      PROVE  use'[t] = s <=> use[t] = s
  BY <1>1
<1>3. root # Nil => root \in FrameSet
  BY DEF IInv, TypeOK
<1>4. Rooted'
  BY <1>1, <1>2, <1>3 DEF IInv, Tree, Rooted, TableUses, ZeroPage
<1>5. Levels'
  BY <1>2 DEF IInv, Tree, Levels, TableUses
<1>6. Devices' /\ OneEntry'
  BY SameTables, Constants DEF IInv, Tree, Devices, OneEntry
<1>7. Grown'
  <2>1. ASSUME NEW t \in FrameSet, use'[t] = "level3"
        PROVE  \E v \in Ram \cup Dev : Table3(v)' = t
    <3>1. use[t] = "level3"
      BY <1>2, <2>1 DEF TableUses
    <3>2. PICK v \in Ram \cup Dev : Table3(v) = t
      BY <3>1 DEF IInv, Tree, Grown
    <3> QED
      BY <3>2, SameTables, Constants
  <2> QED
    BY <2>1 DEF Grown
<1>8. Kept
  BY SameTables DEF Kept
<1> QED
  BY <1>4, <1>5, <1>6, <1>7, <1>8 DEF Tree

LEMMA MemSame ==
  ASSUME IInv, pgt' = pgt, root' = root, use' = use, pool' = pool
  PROVE  Pool' /\ Tree' /\ Kept
<1>1. Pool'
  BY DEF IInv, Pool
<1>2. Rooted' /\ Levels' /\ OneEntry'
  BY DEF IInv, Tree, Rooted, Levels, OneEntry, ZeroPage
<1>3. Devices' /\ Grown' /\ Kept
  BY SameTables, Constants DEF IInv, Tree, Devices, Grown, Kept
<1> QED
  BY <1>1, <1>2, <1>3 DEF Tree

\* The first table.
LEMMA NewTableTree ==
  ASSUME IInv, NewTable, pool # <<>>
  PROVE  Pool' /\ Tree' /\ Kept /\ \A v \in Ipas : Leaf(v) = Nil /\ Leaf(v)' = Nil
<1>1. Kalloc("level0") /\ root' = Head(pool) /\ pgt' = pgt /\ at[BootCpu] = "start"
  BY DEF NewTable, TableUse
<1>2. root = Nil
  BY <1>1, Stage2Assumption DEF IInv, Phase, MapWalk
<1>3. /\ Pool' /\ root' \in FrameSet /\ use[root'] = "free"
      /\ use' = [use EXCEPT ![root'] = "level0"]
  BY <1>1, KallocFree DEF IInv
<1>4. \A t \in FrameSet : use'[t] = IF t = root' THEN "level0" ELSE use[t]
  BY <1>3 DEF IInv, TypeOK
<1>5. \A t \in FrameSet : use[t] # "level0"
  BY <1>2, Constants DEF IInv, Tree, Rooted
<1>6. Rooted'
  BY <1>1, <1>3, <1>4, <1>5 DEF IInv, Tree, Rooted, TableUses, ZeroPage
<1>7. \A v \in Ipas : Table1(v) = Nil /\ Table2(v) = Nil /\ Table3(v) = Nil /\ Leaf(v) = Nil
  BY <1>2 DEF Table1, Table2, Table3, Leaf, Entry
<1>8. \A t \in FrameSet : use[t] # "level3"
  BY <1>7, Constants DEF IInv, Tree, Grown
<1>9. pgt[root'] = ZeroPage
  BY <1>3 DEF IInv, Tree, Rooted, TableUses
<1>10. ASSUME NEW t \in FrameSet, NEW i \in Idx, pgt'[t][i] # Nil
       PROVE  /\ use'[t] # "level0"
              /\ use[t] \in {"level1", "level2"} => pgt[t][i] # root'
  <2>1. t # root'
    BY <1>1, <1>9, <1>10 DEF ZeroPage
  <2>2. use[t] \in {"level1", "level2"} => use[pgt[t][i]] \in {"level2", "level3"}
    BY <1>1, <1>10 DEF IInv, Tree, Levels
  <2> QED
    BY <1>3, <1>4, <1>5, <2>1, <2>2
<1>11. Levels'
  BY <1>1, <1>4, <1>10 DEF IInv, Tree, Levels
<1>12. Devices'
  BY <1>1, <1>7, Constants DEF IInv, Tree, Devices
<1>13. OneEntry' /\ Grown'
  BY <1>1, <1>4, <1>8 DEF IInv, Tree, OneEntry, Grown
<1>14. Kept
  BY <1>2, <1>7 DEF Kept
<1>15. ASSUME NEW v \in Ipas PROVE Leaf(v)' = Nil
  <2>1. PIDX[v][0] \in Idx
    BY Constants
  <2>2. Table1(v)' = Nil
    BY <1>1, <1>9, <2>1 DEF Table1, Entry, ZeroPage
  <2> QED
    BY <2>2 DEF Table2, Table3, Leaf, Entry
<1> QED
  BY <1>3, <1>6, <1>7, <1>11, <1>12, <1>13, <1>14, <1>15 DEF Tree

\* A table further down.
LEMMA WalkAllocTree ==
  ASSUME IInv, NEW c \in Cpus, WalkAlloc(c), pool # <<>>
  PROVE  /\ Pool' /\ Tree' /\ Kept
         /\ \A w \in Ipas, k \in 0 .. 2 :
              w = va[c] /\ k = level[c] => Walked(w, k + 1)' = Head(pool)
         /\ Head(pool) \in FrameSet /\ use[Head(pool)] = "free"
         /\ \E u \in TableUses : use' = [use EXCEPT ![Head(pool)] = u]
         /\ \A v \in Ipas : Leaf(v)' = Leaf(v)
<1>0. PICK w \in Ipas, k \in 0 .. 2 : w = va[c] /\ k = level[c]
  BY PteEntry DEF WalkAlloc, Busy
<1> DEFINE n == Head(pool)
           t == table[c]
           i == PIDX[w][k]
           u == TableUse[k + 2]
<1>1. /\ c = BootCpu /\ MapWalk /\ w \in Ram \cup Dev
      /\ \A d \in Cpus : at[d] # "clear"
  <2>1. c = BootCpu /\ MapWalk
    BY MapBoot DEF WalkAlloc
  <2>2. \A d \in Cpus : at[d] # "clear"
    BY <2>1, GuestPhase
  <2> QED
    BY <1>0, <2>1, <2>2 DEF IInv, Mapping
<1>2. /\ w \in Ipas /\ k \in 0 .. 2 /\ t = Walked(w, k) /\ t \in FrameSet
      /\ use[t] = TableUse[k + 1] /\ i \in Idx /\ pgt[t][i] = Nil
  BY <1>0, PteEntry DEF WalkAlloc, Busy, Pte
<1>3. Kalloc(u) /\ pgt' = [pgt EXCEPT ![t][i] = n] /\ root' = root
  BY <1>0 DEF WalkAlloc, SetPte
<1>4. u \in {"level1", "level2", "level3"} /\ TableUse[k + 1] \in {"level0", "level1", "level2"}
  BY <1>2 DEF TableUse
<1>5. /\ Pool' /\ n \in FrameSet /\ use[n] = "free"
      /\ use' = [use EXCEPT ![n] = u]
  BY <1>3, <1>4, KallocFree DEF IInv
<1>6. /\ Walked(w, k + 1)' = n
      /\ \A v \in Ipas :
              /\ Table1(v) # Nil => Table1(v)' = Table1(v)
              /\ Table2(v) # Nil => Table2(v)' = Table2(v)
              /\ Table3(v) # Nil => Table3(v)' = Table3(v)
              /\ Leaf(v)' = Leaf(v)
  BY <1>2, <1>3, <1>5, Grow DEF IInv, Tree
<1>7. /\ \A x \in FrameSet : use'[x] = IF x = n THEN u ELSE use[x]
      /\ \A x \in FrameSet, j \in Idx : pgt'[x][j] = IF x = t /\ j = i THEN n ELSE pgt[x][j]
      /\ t # n /\ pgt[n] = ZeroPage
  <2>1. \A x \in FrameSet : use'[x] = IF x = n THEN u ELSE use[x]
    BY <1>5 DEF IInv, TypeOK
  <2>2. \A x \in FrameSet, j \in Idx : pgt'[x][j] = IF x = t /\ j = i THEN n ELSE pgt[x][j]
    BY <1>2, <1>3 DEF IInv, TypeOK
  <2>3. t # n
    BY <1>2, <1>4, <1>5
  <2>4. pgt[n] = ZeroPage
    BY <1>5 DEF IInv, Tree, Rooted, TableUses
  <2> QED
    BY <2>1, <2>2, <2>3, <2>4
<1>8. \A x \in FrameSet, j \in Idx : pgt[x][j] # n
  BY <1>1, <1>5, EntryUse DEF TableUses
<1>9. Rooted'
  <2>1. root' # Nil => use'[root'] = "level0"
    BY <1>3, <1>5, <1>7 DEF IInv, TypeOK, Tree, Rooted
  <2>2. \A x \in FrameSet : use'[x] = "level0" => x = root'
    BY <1>3, <1>4, <1>7 DEF IInv, Tree, Rooted
  <2>3. ASSUME NEW x \in FrameSet, use'[x] \notin TableUses PROVE pgt'[x] = ZeroPage
    <3>1. x # n /\ use[x] \notin TableUses
      BY <1>4, <1>7, <2>3 DEF TableUses
    <3>2. x # t
      BY <1>2, <1>4, <3>1 DEF TableUses
    <3>3. pgt'[x] = pgt[x]
      BY <1>3, <3>2 DEF IInv, TypeOK
    <3> QED
      BY <3>1, <3>3 DEF IInv, Tree, Rooted
  <2> QED
    BY <2>1, <2>2, <2>3 DEF Rooted, ZeroPage
<1>10. Levels'
  <2>1. SUFFICES ASSUME NEW x \in FrameSet, NEW j \in Idx, pgt'[x][j] # Nil
                 PROVE  /\ use'[x] = "level0" => pgt'[x][j] \in FrameSet /\ use'[pgt'[x][j]] = "level1"
                        /\ use'[x] = "level1" => pgt'[x][j] \in FrameSet /\ use'[pgt'[x][j]] = "level2"
                        /\ use'[x] = "level2" => pgt'[x][j] \in FrameSet /\ use'[pgt'[x][j]] = "level3"
    BY DEF Levels
  <2>2. x # n
    BY <1>7, <2>1 DEF ZeroPage
  <2>3. CASE x = t /\ j = i
    <3>1. use'[x] = TableUse[k + 1] /\ pgt'[x][j] = n /\ use'[n] = TableUse[k + 2]
      BY <1>2, <1>5, <1>7, <2>2, <2>3
    <3> QED
      BY <1>2, <1>5, <3>1 DEF TableUse
  <2>4. CASE ~ (x = t /\ j = i)
    <3>1. pgt'[x][j] = pgt[x][j] /\ use'[x] = use[x] /\ pgt[x][j] # n
      BY <1>7, <1>8, <2>2, <2>4
    <3> QED
      BY <1>7, <2>1, <3>1 DEF IInv, Tree, Levels
  <2> QED
    BY <2>3, <2>4
<1>11. Devices'
  <2>1. ASSUME NEW x \in FrameSet, NEW j \in Idx, NEW v \in Dev, pgt'[x][j] = v
        PROVE  Table3(v)' = x /\ PIDX[v][3] = j
    <3>1. pgt[x][j] = v
      BY <1>5, <1>7, <2>1, Constants
    <3>2. Table3(v) = x /\ PIDX[v][3] = j
      BY <3>1 DEF IInv, Tree, Devices
    <3> QED
      BY <1>6, <3>2, Constants
  <2> QED
    BY <2>1 DEF Devices
<1>12. OneEntry'
  BY <1>7, <1>8 DEF IInv, Tree, OneEntry
<1>13. Grown'
  <2>1. ASSUME NEW x \in FrameSet, use'[x] = "level3"
        PROVE  \E v \in Ram \cup Dev : Table3(v)' = x
    <3>1. CASE x = n
      <4>1. k = 2
        BY <1>2, <1>7, <2>1, <3>1 DEF TableUse
      <4>2. Table3(w)' = n
        BY <1>6, <4>1 DEF Walked
      <4> QED
        BY <1>1, <3>1, <4>2
    <3>2. CASE x # n
      <4>1. PICK v \in Ram \cup Dev : Table3(v) = x
        BY <1>7, <2>1, <3>2 DEF IInv, Tree, Grown
      <4> QED
        BY <1>6, <4>1, Constants
    <3> QED
      BY <3>1, <3>2
  <2> QED
    BY <2>1 DEF Grown
<1>14. Kept
  BY <1>3, <1>6 DEF Kept
<1>15. u \in TableUses
  BY <1>4 DEF TableUses
<1> QED
  BY <1>0, <1>5, <1>6, <1>9, <1>10, <1>11, <1>12, <1>13, <1>14, <1>15 DEF Tree

\* An entry of level 3 is written: it leads to e, which stands nowhere else.
LEMMA LeafTree ==
  ASSUME IInv, NEW w \in Ipas, NEW e \in Pages \cup {Nil},
         Table3(w) \in FrameSet, use' = use, root' = root,
         pgt' = [pgt EXCEPT ![Table3(w)][PIDX[w][3]] = e],
         e = Nil \/ \A t \in FrameSet, i \in Idx : pgt[t][i] # e,
         e \in Dev => e = w
  PROVE  /\ Tree' /\ Kept
         /\ \A v \in Ipas : /\ Leaf(v)' = IF v = w THEN e ELSE Leaf(v)
                            /\ \A l \in 0 .. 3 : Walked(v, l)' = Walked(v, l)
<1>1. \A v \in Ipas :
           /\ Table1(v)' = Table1(v) /\ Table2(v)' = Table2(v) /\ Table3(v)' = Table3(v)
           /\ Leaf(v)' = IF v = w THEN e ELSE Leaf(v)
  BY WriteLeaf DEF IInv, Tree
<1> DEFINE t == Table3(w)
           i == PIDX[w][3]
<1>2. t \in FrameSet /\ use[t] = "level3" /\ i \in Idx
  BY Path, Constants DEF IInv, Tree
<1>3. \A x \in FrameSet, j \in Idx : pgt'[x][j] = IF x = t /\ j = i THEN e ELSE pgt[x][j]
  BY <1>2 DEF IInv, TypeOK
<1>4. Rooted'
  <2>1. ASSUME NEW x \in FrameSet, use'[x] \notin TableUses PROVE pgt'[x] = ZeroPage
    <3>1. x # t
      BY <1>2, <2>1 DEF TableUses
    <3>2. pgt'[x] = pgt[x]
      BY <3>1 DEF IInv, TypeOK
    <3> QED
      BY <2>1, <3>2 DEF IInv, Tree, Rooted
  <2> QED
    BY <2>1 DEF IInv, Tree, Rooted, ZeroPage
<1>5. Levels'
  BY <1>2, <1>3 DEF IInv, Tree, Levels
<1>6. Devices'
  <2>1. ASSUME NEW x \in FrameSet, NEW j \in Idx, NEW v \in Dev, pgt'[x][j] = v
        PROVE  Table3(v)' = x /\ PIDX[v][3] = j
    <3>1. CASE x = t /\ j = i
      <4>1. v = w
        BY <1>3, <2>1, <3>1
      <4> QED
        BY <1>1, <3>1, <4>1
    <3>2. CASE ~ (x = t /\ j = i)
      <4>1. pgt[x][j] = v
        BY <1>3, <2>1, <3>2
      <4> QED
        BY <1>1, <4>1, Constants DEF IInv, Tree, Devices
    <3> QED
      BY <3>1, <3>2
  <2> QED
    BY <2>1 DEF Devices
<1>7. OneEntry'
  BY <1>3 DEF IInv, Tree, OneEntry
<1>8. Grown'
  BY <1>1, Constants DEF IInv, Tree, Grown
<1>9. Kept
  BY <1>1 DEF Kept
<1>10. \A v \in Ipas, l \in 0 .. 3 : Walked(v, l)' = Walked(v, l)
  BY <1>1 DEF Walked
<1> QED
  BY <1>1, <1>4, <1>5, <1>6, <1>7, <1>8, <1>9, <1>10 DEF Tree

\* pagemap() finds the entry empty, and its page is in no other.
LEMMA MapPageTree ==
  ASSUME IInv, NEW c \in Cpus, MapPage(c)
  PROVE  /\ Pool' /\ Tree' /\ Kept /\ use' = use /\ at' = [at EXCEPT ![c] = "boot"]
         /\ c = BootCpu /\ MapWalk /\ page[c] # Nil
         /\ \A v \in Ipas : Leaf(v) = page[c] => page[c] = Nil
         /\ \A v \in Ipas : /\ Leaf(v)' = IF v = va[c] THEN page[c] ELSE Leaf(v)
                            /\ \A l \in 0 .. 3 : Walked(v, l)' = Walked(v, l)
<1>0. PICK w \in Ipas : w = va[c]
  BY PteEntry DEF MapPage, AtPte, Busy
<1>1. c = BootCpu /\ MapWalk
  BY MapBoot DEF MapPage, AtPte
<1>2. /\ level[c] = 3 /\ table[c] = Table3(w) /\ table[c] \in FrameSet
      /\ Pte(c) = Leaf(w)
  BY <1>0, PteEntry DEF MapPage, AtPte, Busy
<1>3. /\ w \in Ram \cup Dev /\ Leaf(w) = Nil
      /\ w \in Ram => /\ page[c] \in FrameSet
                      /\ \A t \in FrameSet, i \in Idx : pgt[t][i] # page[c]
      /\ w \in Dev => page[c] = w
  BY <1>0, <1>1 DEF IInv, Mapping
<1>4. /\ pgt' = [pgt EXCEPT ![Table3(w)][PIDX[w][3]] = page[c]]
      /\ at' = [at EXCEPT ![c] = "boot"] /\ use' = use /\ root' = root /\ pool' = pool
  BY <1>0, <1>2, <1>3 DEF MapPage, SetPte, Goto
<1>5. ASSUME NEW t \in FrameSet, NEW i \in Idx, pgt[t][i] = page[c] PROVE FALSE
  <2>1. w \in Dev /\ page[c] = w
    BY <1>3, <1>5
  <2>2. t = Table3(w) /\ i = PIDX[w][3]
    BY <1>5, <2>1 DEF IInv, Tree, Devices
  <2>3. Leaf(w) = w
    BY <1>0, <1>5, <2>1, <2>2, Constants, Path DEF IInv, Tree
  <2> QED
    BY <1>3, <2>1, <2>3, Constants
<1>6. page[c] \in Pages /\ page[c] # Nil /\ (page[c] \in Dev => page[c] = w)
  BY <1>3, Constants DEF Pages
<1>7. ASSUME NEW v \in Ipas, Leaf(v) = page[c] PROVE FALSE
  <2>1. Table3(v) \in FrameSet /\ pgt[Table3(v)][PIDX[v][3]] = page[c]
    BY <1>6, <1>7, Path DEF IInv, Tree
  <2> QED
    BY <1>5, <2>1, Constants
<1>8. /\ Tree' /\ Kept
      /\ \A v \in Ipas : /\ Leaf(v)' = IF v = w THEN page[c] ELSE Leaf(v)
                         /\ \A l \in 0 .. 3 : Walked(v, l)' = Walked(v, l)
  BY <1>2, <1>4, <1>5, <1>6, LeafTree
<1>9. Pool'
  BY <1>4 DEF IInv, Pool
<1> QED
  BY <1>0, <1>1, <1>4, <1>6, <1>7, <1>8, <1>9

LEMMA ClearPteTree ==
  ASSUME IInv, NEW c \in Cpus, ClearPte(c)
  PROVE  /\ Pool' /\ Tree' /\ Kept /\ use' = use /\ Unmaps(c)
         /\ \A v \in Ipas : /\ Leaf(v)' = IF v = va[c] THEN Nil ELSE Leaf(v)
                            /\ \A l \in 0 .. 3 : Walked(v, l)' = Walked(v, l)
<1>0. PICK w \in Ipas : w = va[c]
  BY PteEntry DEF ClearPte, Busy
<1>1. Unmaps(c)
  BY GuestPhase DEF ClearPte, Unmaps, Busy
<1>2. level[c] = 3
  BY <1>1 DEF IInv, Unmapping, Region, ClearPte
<1>3. table[c] = Table3(w) /\ table[c] \in FrameSet
  BY <1>0, <1>2, PteEntry DEF ClearPte, Busy
<1>4. /\ pgt' = [pgt EXCEPT ![Table3(w)][PIDX[w][3]] = Nil]
      /\ use' = use /\ root' = root /\ pool' = pool
  BY <1>0, <1>2, <1>3 DEF ClearPte, SetPte
<1>5. /\ Tree' /\ Kept
      /\ \A v \in Ipas : /\ Leaf(v)' = IF v = w THEN Nil ELSE Leaf(v)
                         /\ \A l \in 0 .. 3 : Walked(v, l)' = Walked(v, l)
  BY <1>3, <1>4, Constants, LeafTree
<1>6. Pool'
  BY <1>4 DEF IInv, Pool
<1> QED
  BY <1>0, <1>1, <1>4, <1>5, <1>6

\* kfree() of the page that is unmapped: RAM, and on no other path.
LEMMA FreePageUse ==
  ASSUME IInv, NEW c \in Cpus, FreePage(c)
  PROVE  /\ Pool' /\ Tree' /\ Kept /\ Unmaps(c) /\ at' = [at EXCEPT ![c] = "clear"]
         /\ base[c] \in Ram /\ Backed(va[c]) /\ Pte(c) = Leaf(va[c])
         /\ use' = [use EXCEPT ![Leaf(va[c])] = "free"]
<1>1. Unmaps(c) /\ at[c] = "walk" /\ level[c] = 3
  BY DEF FreePage, AtPte, Unmaps, Busy
<1>2. base[c] \in Ram /\ Backed(va[c]) /\ Pte(c) = Leaf(va[c])
  BY <1>1, RegionMapped, PteEntry DEF Busy
<1>3. Pte(c) \in FrameSet /\ use[Pte(c)] = "ram" /\ Pte(c) # Nil
  BY <1>2, Constants DEF Backed
<1>4. /\ pool' = <<Pte(c)>> \o pool /\ use' = [use EXCEPT ![Pte(c)] = "free"]
      /\ at' = [at EXCEPT ![c] = "clear"] /\ pgt' = pgt /\ root' = root
  BY <1>3 DEF FreePage, Goto
<1>5. Pool'
  BY <1>3, <1>4, KfreeUsed DEF IInv
<1>6. Tree' /\ Kept
  BY <1>3, <1>4, UseOnly DEF TableUses
<1> QED
  BY <1>1, <1>2, <1>4, <1>5, <1>6

LEMMA MemStep == ASSUME IInv, [Next]_vars PROVE Pool' /\ Tree' /\ Kept
<1> USE DEF memVars
<1>0. /\ "other" \notin TableUses /\ "free" \notin TableUses /\ "ram" \notin TableUses
      /\ TypeOK /\ Pool
  BY DEF TableUses, IInv
<1>1. ASSUME NEW u \in {"ram", "other"}, pool # <<>>, Kalloc(u), pgt' = pgt, root' = root
      PROVE  Pool' /\ Tree' /\ Kept
  BY <1>0, <1>1, KallocFree, UseOnly
<1>2. ASSUME NewTable PROVE Pool' /\ Tree' /\ Kept
  <2>1. CASE pool = <<>>
    BY <1>2, <2>1, MemSame DEF NewTable
  <2> QED
    BY <1>2, <2>1, NewTableTree
<1>3. ASSUME NEW v \in Ram \cup Dev, MapNext(v) PROVE Pool' /\ Tree' /\ Kept
  <2>1. CASE v \in Ram /\ pool # <<>>
    BY <1>1, <1>3, <2>1 DEF MapNext
  <2>2. CASE ~ (v \in Ram /\ pool # <<>>)
    BY <1>3, <2>2, MemSame DEF MapNext
  <2> QED
    BY <2>1, <2>2
<1>4. ASSUME NEW c \in Cpus, WalkAlloc(c) PROVE Pool' /\ Tree' /\ Kept
  <2>1. CASE pool = <<>>
    BY <1>4, <2>1, MemSame DEF WalkAlloc
  <2> QED
    BY <1>4, <2>1, WalkAllocTree
<1>5. ASSUME NEW c \in Cpus, Take(c) PROVE Pool' /\ Tree' /\ Kept
  BY <1>1, <1>5 DEF Take
<1>6. ASSUME NEW c \in Cpus, NEW f \in FrameSet, Give(c, f) PROVE Pool' /\ Tree' /\ Kept
  <2>1. /\ pool' = <<f>> \o pool /\ use' = [use EXCEPT ![f] = "free"]
        /\ use[f] = "other" /\ pgt' = pgt /\ root' = root
    BY <1>6 DEF Give
  <2> QED
    BY <1>0, <2>1, KfreeUsed, UseOnly
<1>7. ASSUME \/ Booted \/ \E c \in Cpus : \/ WalkDown(c) \/ WalkNull(c) \/ CopyPage(c)
                                          \/ \E q \in Traps : Trap(c, q)
                                          \/ \E b \in Bufs : StartCopy(c, b)
      PROVE  Pool' /\ Tree' /\ Kept
  <2>1. UNCHANGED memVars
    BY <1>7 DEF Booted, WalkDown, WalkNull, CopyPage, Trap, StartCopy
  <2> QED
    BY <2>1, MemSame
<1>8. CASE UNCHANGED vars
  BY <1>8, MemSame DEF vars
<1> QED
  BY <1>2, <1>3, <1>4, <1>5, <1>6, <1>7, <1>8, MapPageTree, ClearPteTree, FreePageUse
  DEF Next, PageWalk

-----------------------------------------------------------------------------
(* What the CPUs do meanwhile *)

\* A step of c is of no other CPU.
Alone(c) == \A d \in Cpus \ {c} :
  /\ at'[d] = at[d] /\ op'[d] = op[d] /\ base'[d] = base[d] /\ va'[d] = va[d]
  /\ level'[d] = level[d] /\ table'[d] = table[d] /\ page'[d] = page[d]

LEMMA StepAlone ==
  ASSUME TypeOK, NEW c \in Cpus,
         \/ PageWalk(c) \/ MapPage(c) \/ FreePage(c) \/ ClearPte(c) \/ CopyPage(c)
         \/ \E q \in Traps : Trap(c, q)
         \/ \E b \in Bufs : StartCopy(c, b)
         \/ Take(c) \/ \E f \in FrameSet : Give(c, f)
  PROVE  Alone(c)
<1> USE DEF TypeOK, Alone, Goto, StartWalk, NextLevel
<1>1. CASE PageWalk(c)
  BY <1>1 DEF PageWalk, WalkDown, WalkAlloc, WalkNull
<1>2. CASE MapPage(c) \/ FreePage(c)
  BY <1>2 DEF MapPage, FreePage
<1>3. CASE ClearPte(c)
  BY <1>3 DEF ClearPte
<1>4. CASE CopyPage(c)
  BY <1>4 DEF CopyPage
<1>5. CASE \/ \E q \in Traps : Trap(c, q)
           \/ \E b \in Bufs : StartCopy(c, b)
  BY <1>5 DEF Trap, StartCopy
<1>6. CASE Take(c) \/ \E f \in FrameSet : Give(c, f)
  BY <1>6 DEF Take, Give
<1> QED
  BY <1>1, <1>2, <1>3, <1>4, <1>5, <1>6

LEMMA KeptWalked ==
  ASSUME Kept, NEW v \in Ipas, NEW l \in 0 .. 3, Walked(v, l) # Nil
  PROVE  Walked(v, l)' = Walked(v, l)
BY DEF Kept, Walked

\* The next page of an operation, if the one at hand is not its last.
LEMMA NextPage ==
  ASSUME IInv, NEW c \in Cpus, Unmaps(c) \/ (at[c] = "walk" /\ op[c] = "copy"),
         va[c] # base[c] + 1
  PROVE  va[c] = base[c] /\ va[c] + 1 \in Ipas
<1>1. CASE Unmaps(c)
  BY <1>1, Stage2Assumption DEF IInv, TypeOK, Unmapping, Region
<1>2. CASE at[c] = "walk" /\ op[c] = "copy"
  BY <1>2, Stage2Assumption DEF IInv, Copying
<1> QED
  BY <1>1, <1>2

\* pagewalk() returns NULL for a region that is not of RAM, and for no other.
LEMMA NullUnmap ==
  ASSUME IInv, NEW c \in Cpus, WalkNull(c)
  PROVE  Unmaps(c) /\ at' = [at EXCEPT ![c] = "guest"]
<1>1. at[c] = "walk" /\ Busy(c) /\ Pte(c) = Nil /\ op[c] \in {"unmap", "copy"}
  BY DEF WalkNull, Busy, IInv, TypeOK
<1>2. Leaf(va[c]) = Nil /\ ~ Backed(va[c])
  BY <1>1, PteEntry, Constants DEF Backed
<1>3. op[c] = "unmap" /\ Unmaps(c)
  BY <1>1, <1>2, CopyMapped DEF Unmaps
<1>4. va[c] = base[c]
  BY <1>1, <1>2, <1>3 DEF IInv, Unmapping, Region
<1> QED
  BY <1>3, <1>4 DEF WalkNull, Goto

LEMMA PhaseStep == ASSUME IInv, [Next]_vars PROVE Phase'
<1> USE Stage2Assumption DEF IInv, TypeOK, Phase, MapWalk, Goto
<1>1. ASSUME NewTable PROVE Phase'
  <2>1. CASE pool = <<>>
    BY <1>1, <2>1 DEF NewTable
  <2>2. CASE pool # <<>>
    <3>1. root' # Nil
      BY <1>1, <2>2, KallocFree, Constants DEF NewTable, TableUse
    <3> QED
      BY <1>1, <2>2, <3>1 DEF NewTable
  <2> QED
    BY <2>1, <2>2
<1>2. ASSUME Booted PROVE Phase'
  BY <1>2 DEF Booted, memVars
<1>3. ASSUME NEW v \in Ram \cup Dev, MapNext(v) PROVE Phase'
  BY <1>3 DEF MapNext, StartWalk
<1>4. ASSUME NEW c \in Cpus, WalkDown(c) PROVE Phase'
  BY <1>4 DEF WalkDown, memVars
<1>5. ASSUME NEW c \in Cpus, WalkAlloc(c) PROVE Phase'
  BY <1>5 DEF WalkAlloc
<1>6. ASSUME NEW c \in Cpus, MapPage(c) PROVE Phase'
  BY <1>6, MapPageTree DEF MapPage
<1>7. ASSUME NEW c \in Cpus, WalkNull(c) PROVE Phase'
  BY <1>7, NullUnmap DEF WalkNull, memVars
<1>8. ASSUME NEW c \in Cpus, FreePage(c) PROVE Phase'
  BY <1>8, FreePageUse DEF FreePage, AtPte
<1>9. ASSUME NEW c \in Cpus, ClearPte(c) PROVE Phase'
  BY <1>9 DEF ClearPte, StartWalk
<1>10. ASSUME NEW c \in Cpus, CopyPage(c) PROVE Phase'
  <2>1. Pte(c) # Nil
    BY <1>10, CopyMapped, PteEntry, Constants DEF CopyPage, AtPte, Busy, Backed
  <2> QED
    BY <1>10, <2>1 DEF CopyPage, AtPte, StartWalk, memVars
<1>11. ASSUME NEW c \in Cpus, NEW q \in Traps, Trap(c, q) PROVE Phase'
  BY <1>11 DEF Trap, StartWalk, memVars
<1>12. ASSUME NEW c \in Cpus, NEW b \in Bufs, StartCopy(c, b) PROVE Phase'
  BY <1>12 DEF StartCopy, StartWalk, memVars
<1>13. ASSUME NEW c \in Cpus, Take(c) \/ \E f \in FrameSet : Give(c, f) PROVE Phase'
  BY <1>13 DEF Take, Give
<1>14. CASE UNCHANGED vars
  BY <1>14 DEF vars
<1> QED
  BY <1>1, <1>2, <1>3, <1>4, <1>5, <1>6, <1>7, <1>8, <1>9, <1>10, <1>11, <1>12, <1>13, <1>14
  DEF Next, PageWalk

\* The walks: each step of one leaves the tables that the others have reached.
LEMMA WalkingStep == ASSUME IInv, [Next]_vars PROVE Walking'
<1>0. Kept /\ TypeOK /\ TypeOK'
  BY MemStep, TypeStep DEF IInv
<1>1. ASSUME NEW d \in Cpus, Busy(d), va'[d] = va[d], level'[d] = level[d], table'[d] = table[d]
      PROVE  /\ va'[d] \in Ipas /\ table'[d] \in FrameSet
             /\ table'[d] = Walked(va[d], level[d])'
  <2>1. /\ va[d] \in Ipas /\ level[d] \in 0 .. 3 /\ table[d] \in FrameSet
        /\ table[d] = Walked(va[d], level[d])
    BY <1>1, PteEntry
  <2>2. PICK w \in Ipas, l \in 0 .. 3 : w = va[d] /\ l = level[d]
    BY <2>1
  <2>3. Walked(w, l)' = table[d]
    BY <1>0, <2>1, <2>2, KeptWalked, Constants
  <2> QED
    BY <1>1, <2>1, <2>2, <2>3
<1>2. ASSUME NEW d \in Cpus, NEW v \in Ipas, StartWalk(d, v), root # Nil
      PROVE  /\ va'[d] \in Ipas /\ table'[d] \in FrameSet
             /\ table'[d] = Walked(va[d], level[d])'
  <2>1. va'[d] = v /\ level'[d] = 0 /\ table'[d] = root /\ root' = root
    BY <1>0, <1>2 DEF StartWalk, TypeOK, Kept, Walked
  <2>2. root \in FrameSet
    BY <1>0, <1>2 DEF TypeOK
  <2> QED
    BY <2>1, <2>2 DEF Walked
<1>3. ASSUME NEW c \in Cpus, Alone(c),
             Busy(c)' => /\ va'[c] \in Ipas /\ table'[c] \in FrameSet
                         /\ table'[c] = Walked(va[c], level[c])'
      PROVE  Walking'
  <2>1. ASSUME NEW d \in Cpus, Busy(d)', d # c
        PROVE  /\ va'[d] \in Ipas /\ table'[d] \in FrameSet
               /\ table'[d] = Walked(va[d], level[d])'
    <3>1. Busy(d) /\ va'[d] = va[d] /\ level'[d] = level[d] /\ table'[d] = table[d]
      BY <1>3, <2>1 DEF Alone, Busy
    <3> QED
      BY <1>1, <3>1
  <2> QED
    BY <1>3, <2>1 DEF Walking
<1>4. ASSUME NewTable \/ Booted PROVE Walking'
  <2>1. \A d \in Cpus : Busy(d)' => /\ Busy(d) /\ va'[d] = va[d]
                                    /\ level'[d] = level[d] /\ table'[d] = table[d]
    BY <1>0, <1>4 DEF NewTable, Booted, Goto, Busy, TypeOK
  <2> QED
    BY <1>1, <2>1 DEF Walking
<1>5. ASSUME NEW v \in Ram \cup Dev, MapNext(v) PROVE Walking'
  <2>1. Alone(BootCpu)
    BY <1>0, <1>5 DEF MapNext, StartWalk, Goto, Alone, TypeOK
  <2>2. at[BootCpu] = "boot" /\ root # Nil
    BY <1>5, Stage2Assumption DEF MapNext, IInv, Phase, MapWalk
  <2>3. CASE v \in Ram /\ pool = <<>>
    BY <1>0, <1>3, <1>5, <2>1, <2>3, Stage2Assumption DEF MapNext, Goto, Busy, TypeOK
  <2>4. CASE ~ (v \in Ram /\ pool = <<>>)
    <3>1. StartWalk(BootCpu, v) /\ v \in Ipas
      BY <1>5, <2>4, Constants DEF MapNext
    <3> QED
      BY <1>2, <1>3, <2>1, <2>2, <3>1, Stage2Assumption
  <2> QED
    BY <2>3, <2>4
<1>6. ASSUME NEW c \in Cpus, WalkDown(c) PROVE Walking'
  <2>1. Alone(c)
    BY <1>0, <1>6, StepAlone DEF PageWalk
  <2>2. /\ va[c] \in Ipas /\ level[c] \in 0 .. 2 /\ Walked(va[c], level[c] + 1) = Pte(c)
        /\ Pte(c) \in FrameSet
    BY <1>6, PteEntry DEF WalkDown, Busy
  <2>3. PICK w \in Ipas, l \in 1 .. 3 : w = va[c] /\ l = level[c] + 1
    BY <2>2
  <2>4. Walked(w, l)' = Pte(c)
    BY <1>0, <2>2, <2>3, KeptWalked, Constants
  <2>5. va'[c] = w /\ level'[c] = l /\ table'[c] = Pte(c)
    BY <1>0, <1>6, <2>3 DEF WalkDown, NextLevel, TypeOK
  <2> QED
    BY <1>3, <2>1, <2>2, <2>4, <2>5
<1>7. ASSUME NEW c \in Cpus, WalkAlloc(c) PROVE Walking'
  <2>1. Alone(c)
    BY <1>0, <1>7, StepAlone DEF PageWalk
  <2>2. CASE pool = <<>>
    BY <1>0, <1>3, <1>7, <2>1, <2>2 DEF WalkAlloc, Goto, Busy, TypeOK
  <2>3. CASE pool # <<>>
    <3>1. va[c] \in Ipas /\ level[c] \in 0 .. 2
      BY <1>7, PteEntry DEF WalkAlloc, Busy
    <3>2. PICK w \in Ipas, l \in 0 .. 2 : w = va[c] /\ l = level[c]
      BY <3>1
    <3>3. Walked(w, l + 1)' = Head(pool) /\ Head(pool) \in FrameSet
      BY <1>7, <2>3, <3>2, WalkAllocTree
    <3>4. va'[c] = w /\ level'[c] = l + 1 /\ table'[c] = Head(pool)
      BY <1>0, <1>7, <2>3, <3>2 DEF WalkAlloc, NextLevel, TypeOK
    <3> QED
      BY <1>3, <2>1, <3>3, <3>4
  <2> QED
    BY <2>2, <2>3
<1>8. ASSUME NEW c \in Cpus, MapPage(c) \/ FreePage(c) \/ WalkNull(c) PROVE Walking'
  <2>1. Alone(c)
    BY <1>0, <1>8, StepAlone DEF PageWalk
  <2>2. Busy(c) /\ va'[c] = va[c] /\ level'[c] = level[c] /\ table'[c] = table[c]
    BY <1>8 DEF MapPage, FreePage, WalkNull, AtPte, Busy
  <2> QED
    BY <1>1, <1>3, <2>1, <2>2
<1>9. ASSUME NEW c \in Cpus, ClearPte(c) \/ CopyPage(c) PROVE Walking'
  <2>1. Alone(c)
    BY <1>0, <1>9, StepAlone
  <2>2. root # Nil
    BY <1>9, GuestPhase DEF ClearPte, CopyPage, AtPte
  <2>3. CASE StartWalk(c, va[c] + 1)
    <3>1. at'[c] = "walk"
      BY <1>0, <2>3 DEF StartWalk, Goto, TypeOK
    <3>2. va[c] + 1 \in Ipas
      <4>1. CASE ClearPte(c)
        <5>1. va[c] # base[c] + 1
          BY <1>0, <3>1, <4>1 DEF ClearPte, Goto, TypeOK
        <5> QED
          BY <4>1, <5>1, ClearPteTree, NextPage
      <4>2. CASE CopyPage(c)
        <5>1. va[c] # base[c] + 1 /\ at[c] = "walk" /\ op[c] = "copy"
          BY <1>0, <3>1, <4>2 DEF CopyPage, AtPte, Goto, TypeOK
        <5> QED
          BY <5>1, NextPage
      <4> QED
        BY <1>9, <4>1, <4>2
    <3> QED
      BY <1>2, <1>3, <2>1, <2>2, <2>3, <3>2
  <2>4. CASE ~ StartWalk(c, va[c] + 1)
    <3>1. ~ Busy(c)'
      BY <1>0, <1>9, <2>4 DEF ClearPte, CopyPage, Goto, Busy, TypeOK
    <3> QED
      BY <1>3, <2>1, <3>1
  <2> QED
    BY <2>3, <2>4
<1>10. ASSUME NEW c \in Cpus, NEW q \in Traps, Trap(c, q) PROVE Walking'
  <2>1. Alone(c) /\ root # Nil
    BY <1>0, <1>10, StepAlone, GuestPhase DEF Trap
  <2>2. q \in Ipas /\ StartWalk(c, q)
    BY <1>10, Stage2Assumption DEF Trap
  <2> QED
    BY <1>2, <1>3, <2>1, <2>2
<1>11. ASSUME NEW c \in Cpus, NEW b \in Bufs, StartCopy(c, b) PROVE Walking'
  <2>1. Alone(c) /\ root # Nil
    BY <1>0, <1>11, StepAlone, GuestPhase DEF StartCopy
  <2>2. b \in Ipas /\ StartWalk(c, b)
    BY <1>11, Stage2Assumption, Constants DEF StartCopy
  <2> QED
    BY <1>2, <1>3, <2>1, <2>2
<1>12. ASSUME NEW c \in Cpus, Take(c) \/ \E f \in FrameSet : Give(c, f) PROVE Walking'
  <2>1. Alone(c)
    BY <1>0, <1>12, StepAlone
  <2>2. ~ Busy(c)'
    BY <1>12 DEF Take, Give, Busy
  <2> QED
    BY <1>3, <2>1, <2>2
<1>13. CASE UNCHANGED vars
  <2>1. \A d \in Cpus : Busy(d)' => /\ Busy(d) /\ va'[d] = va[d]
                                    /\ level'[d] = level[d] /\ table'[d] = table[d]
    BY <1>13 DEF vars, Busy
  <2> QED
    BY <1>1, <2>1 DEF Walking
<1> QED
  BY <1>4, <1>5, <1>6, <1>7, <1>8, <1>9, <1>10, <1>11, <1>12, <1>13 DEF Next, PageWalk

LEMMA CopyingStep == ASSUME IInv, [Next]_vars PROVE Copying'
<1>0. TypeOK /\ Copying
  BY DEF IInv
<1>1. ASSUME NEW c \in Cpus, Alone(c),
             at'[c] = "walk" /\ op'[c] = "copy" =>
               base'[c] \in Bufs /\ va'[c] \in {base'[c], base'[c] + 1}
      PROVE  Copying'
  BY <1>0, <1>1 DEF Copying, Alone
<1>2. ASSUME NEW c \in Cpus,
             PageWalk(c) \/ MapPage(c) \/ FreePage(c) \/ Take(c) \/ \E f \in FrameSet : Give(c, f)
      PROVE  Copying'
  <2>1. Alone(c)
    BY <1>0, <1>2, StepAlone
  <2>2. at'[c] = "walk" => /\ at[c] = "walk" /\ op'[c] = op[c]
                           /\ base'[c] = base[c] /\ va'[c] = va[c]
    BY <1>0, <1>2 DEF TypeOK, PageWalk, WalkDown, WalkAlloc, WalkNull, MapPage, FreePage,
                      AtPte, Take, Give, Goto
  <2> QED
    BY <1>0, <1>1, <2>1, <2>2 DEF Copying
<1>3. ASSUME NEW c \in Cpus, ClearPte(c) PROVE Copying'
  <2>1. Alone(c) /\ op'[c] # "copy"
    BY <1>0, <1>3, StepAlone, ClearPteTree DEF ClearPte, Unmaps
  <2> QED
    BY <1>1, <2>1
<1>4. ASSUME NEW c \in Cpus, CopyPage(c) PROVE Copying'
  <2>1. Alone(c)
    BY <1>0, <1>4, StepAlone
  <2>2. base[c] \in Bufs /\ va[c] \in {base[c], base[c] + 1} /\ base'[c] = base[c]
    BY <1>0, <1>4 DEF CopyPage, AtPte, Copying
  <2>3. at'[c] = "walk" => va'[c] = va[c] + 1 /\ va[c] = base[c]
    BY <1>0, <1>4, <2>2 DEF CopyPage, StartWalk, Goto, TypeOK
  <2> QED
    BY <1>1, <2>1, <2>2, <2>3
<1>5. ASSUME NEW c \in Cpus, NEW q \in Traps, Trap(c, q) PROVE Copying'
  <2>1. Alone(c) /\ op'[c] # "copy"
    BY <1>0, <1>5, StepAlone DEF Trap, TypeOK
  <2> QED
    BY <1>1, <2>1
<1>6. ASSUME NEW c \in Cpus, NEW b \in Bufs, StartCopy(c, b) PROVE Copying'
  <2>1. Alone(c) /\ base'[c] = b /\ va'[c] = b
    BY <1>0, <1>6, StepAlone DEF StartCopy, StartWalk, TypeOK
  <2> QED
    BY <1>1, <2>1
<1>7. ASSUME NewTable \/ Booted PROVE Copying'
  BY <1>0, <1>7 DEF NewTable, Booted, Goto, TypeOK, Copying
<1>8. ASSUME NEW v \in Ram \cup Dev, MapNext(v) PROVE Copying'
  <2>1. Alone(BootCpu)
    BY <1>0, <1>8 DEF MapNext, StartWalk, Goto, Alone, TypeOK
  <2>2. op'[BootCpu] = "map"
    BY <1>8, GuestPhase, Stage2Assumption DEF MapNext, IInv, Phase, MapWalk
  <2> QED
    BY <1>1, <2>1, <2>2, Stage2Assumption
<1>9. CASE UNCHANGED vars
  BY <1>0, <1>9 DEF vars, Copying
<1> QED
  BY <1>2, <1>3, <1>4, <1>5, <1>6, <1>7, <1>8, <1>9 DEF Next

\* What the guest finds changes at the end of pagemap() and of pageunmap() only.
LEMMA LeafSame ==
  ASSUME IInv, [Next]_vars, \A c \in Cpus : ~ MapPage(c) /\ ~ ClearPte(c)
  PROVE  \A v \in Ipas : Leaf(v)' = Leaf(v)
<1> USE DEF memVars
<1>1. ASSUME NewTable PROVE \A v \in Ipas : Leaf(v)' = Leaf(v)
  <2>1. CASE pool = <<>>
    BY <1>1, <2>1, SameTables DEF NewTable
  <2> QED
    BY <1>1, <2>1, NewTableTree
<1>2. ASSUME NEW c \in Cpus, WalkAlloc(c) PROVE \A v \in Ipas : Leaf(v)' = Leaf(v)
  <2>1. CASE pool = <<>>
    BY <1>2, <2>1, SameTables DEF WalkAlloc
  <2> QED
    BY <1>2, <2>1, WalkAllocTree
<1>3. ASSUME NEW v \in Ram \cup Dev, MapNext(v) PROVE \A w \in Ipas : Leaf(w)' = Leaf(w)
  BY <1>3, SameTables DEF MapNext
<1>4. ASSUME \/ Booted \/ \E c \in Cpus : \/ WalkDown(c) \/ WalkNull(c) \/ CopyPage(c)
                                          \/ FreePage(c) \/ Take(c)
                                          \/ \E f \in FrameSet : Give(c, f)
                                          \/ \E q \in Traps : Trap(c, q)
                                          \/ \E b \in Bufs : StartCopy(c, b)
      PROVE  \A v \in Ipas : Leaf(v)' = Leaf(v)
  <2>1. pgt' = pgt /\ root' = root
    BY <1>4 DEF Booted, WalkDown, WalkNull, CopyPage, FreePage, Take, Give, Trap, StartCopy
  <2> QED
    BY <2>1, SameTables
<1>5. CASE UNCHANGED vars
  BY <1>5, SameTables DEF vars
<1> QED
  BY <1>1, <1>2, <1>3, <1>4, <1>5 DEF Next, PageWalk

\* A page of RAM is freed by the CPU that unmaps it, and by no other step.
LEMMA RamKept ==
  ASSUME IInv, [Next]_vars, NEW f \in FrameSet, use[f] = "ram",
         \A c \in Cpus : FreePage(c) => Leaf(va[c]) # f
  PROVE  use'[f] = "ram"
<1>0. TypeOK /\ Pool
  BY DEF IInv
<1>1. ASSUME NEW u, u # "free", pool # <<>>, Kalloc(u) PROVE use'[f] = "ram"
  BY <1>0, <1>1, KallocFree DEF TypeOK
<1>2. ASSUME NewTable PROVE use'[f] = "ram"
  BY <1>1, <1>2 DEF NewTable, TableUse
<1>3. ASSUME NEW v \in Ram \cup Dev, MapNext(v) PROVE use'[f] = "ram"
  BY <1>1, <1>3 DEF MapNext
<1>4. ASSUME NEW c \in Cpus, WalkAlloc(c) PROVE use'[f] = "ram"
  <2>1. TableUse[level[c] + 2] # "free"
    BY <1>0, <1>4 DEF TypeOK, WalkAlloc, TableUse
  <2> QED
    BY <1>1, <1>4, <2>1 DEF WalkAlloc
<1>5. ASSUME NEW c \in Cpus, FreePage(c) PROVE use'[f] = "ram"
  BY <1>0, <1>5, FreePageUse DEF TypeOK
<1>6. ASSUME NEW c \in Cpus, Take(c) \/ \E g \in FrameSet : Give(c, g) PROVE use'[f] = "ram"
  BY <1>0, <1>1, <1>6 DEF Take, Give, TypeOK
<1>7. ASSUME \/ Booted \/ \E c \in Cpus : \/ WalkDown(c) \/ WalkNull(c) \/ CopyPage(c)
                                          \/ \E q \in Traps : Trap(c, q)
                                          \/ \E b \in Bufs : StartCopy(c, b)
      PROVE  use'[f] = "ram"
  BY <1>7 DEF memVars, Booted, WalkDown, WalkNull, CopyPage, Trap, StartCopy
<1>8. ASSUME NEW c \in Cpus, MapPage(c) \/ ClearPte(c) PROVE use'[f] = "ram"
  BY <1>8 DEF MapPage, ClearPte
<1>9. CASE UNCHANGED vars
  BY <1>9 DEF vars
<1> QED
  BY <1>2, <1>3, <1>4, <1>5, <1>6, <1>7, <1>8, <1>9 DEF Next, PageWalk

\* What is mapped stays so until it is unmapped.
LEMMA BackedKept ==
  ASSUME IInv, [Next]_vars, NEW w \in Ipas, Backed(w),
         \A c \in Cpus : FreePage(c) \/ ClearPte(c) => va[c] # w
  PROVE  Leaf(w)' = Leaf(w) /\ Backed(w)'
<1>1. Leaf(w) \in FrameSet /\ use[Leaf(w)] = "ram" /\ Leaf(w) # Nil
  BY Constants DEF Backed
<1>2. Leaf(w)' = Leaf(w)
  <2>1. ASSUME NEW c \in Cpus, MapPage(c) PROVE Leaf(w)' = Leaf(w)
    <3>1. Leaf(va[c]) = Nil
      BY <2>1, MapPageTree DEF IInv, Mapping
    <3> QED
      BY <1>1, <2>1, <3>1, MapPageTree
  <2>2. ASSUME NEW c \in Cpus, ClearPte(c) PROVE Leaf(w)' = Leaf(w)
    BY <2>2, ClearPteTree
  <2> QED
    BY <2>1, <2>2, LeafSame
<1>3. ASSUME NEW c \in Cpus, FreePage(c) PROVE Leaf(va[c]) # Leaf(w)
  <2>1. va[c] \in Ipas
    BY <1>3, PteEntry DEF FreePage, AtPte, Busy
  <2> QED
    BY <1>1, <1>3, <2>1, SamePlace DEF IInv, Tree
<1>4. use'[Leaf(w)] = "ram"
  BY <1>1, <1>3, RamKept
<1> QED
  BY <1>1, <1>2, <1>4 DEF Backed

\* BootCpu maps nothing any more once the guest runs.
LEMMA MapWalkEnds ==
  ASSUME IInv, [Next]_vars, MapWalk', \A v \in Ram \cup Dev : ~ MapNext(v)
  PROVE  /\ MapWalk /\ va'[BootCpu] = va[BootCpu] /\ page'[BootCpu] = page[BootCpu]
         /\ left' = left /\ \A c \in Cpus : ~ MapPage(c)
<1>0. TypeOK /\ BootCpu \in Cpus
  BY Stage2Assumption DEF IInv
<1>1. left' = left
  BY DEF Next, PageWalk, NewTable, Booted, WalkDown, WalkAlloc, WalkNull, MapPage, FreePage,
         ClearPte, CopyPage, Trap, StartCopy, Take, Give, vars
<1>2. \A c \in Cpus : ~ MapPage(c)
  <2>1. ASSUME NEW c \in Cpus, MapPage(c) PROVE FALSE
    BY <1>0, <2>1, MapPageTree DEF MapWalk, TypeOK
  <2> QED
    BY <2>1
<1>3. CASE NewTable \/ Booted
  BY <1>0, <1>3 DEF NewTable, Booted, Goto, MapWalk, TypeOK
<1>4. ASSUME NEW c \in Cpus, WalkDown(c) \/ WalkAlloc(c)
      PROVE  MapWalk /\ va'[BootCpu] = va[BootCpu] /\ page'[BootCpu] = page[BootCpu]
  BY <1>0, <1>4 DEF WalkDown, WalkAlloc, Goto, MapWalk, TypeOK
<1>5. ASSUME NEW c \in Cpus, \/ WalkNull(c) \/ FreePage(c) \/ ClearPte(c) \/ CopyPage(c)
                             \/ Take(c) \/ \E f \in FrameSet : Give(c, f)
                             \/ \E q \in Traps : Trap(c, q)
                             \/ \E b \in Bufs : StartCopy(c, b)
      PROVE  FALSE
  <2>1. Alone(c)
    BY <1>0, <1>5, StepAlone DEF PageWalk
  <2>2. \/ at[c] \in {"guest", "clear"} \/ (at[c] = "walk" /\ op[c] # "map")
    <3>1. CASE WalkNull(c) \/ FreePage(c) \/ ClearPte(c) \/ CopyPage(c)
      BY <3>1 DEF WalkNull, FreePage, ClearPte, CopyPage, AtPte
    <3>2. CASE Take(c) \/ \E f \in FrameSet : Give(c, f)
      BY <3>2 DEF Take, Give
    <3>3. CASE \/ \E q \in Traps : Trap(c, q)
               \/ \E b \in Bufs : StartCopy(c, b)
      BY <3>3 DEF Trap, StartCopy
    <3> QED
      BY <1>5, <3>1, <3>2, <3>3
  <2>3. ~ MapWalk /\ (at[BootCpu] = "clear" => op[BootCpu] = "unmap")
    BY <1>0, <2>2, GuestPhase
  <2>4. c = BootCpu
    BY <1>0, <2>1, <2>3 DEF Alone, MapWalk
  <2>5. CASE WalkNull(c) \/ FreePage(c) \/ CopyPage(c)
    BY <1>0, <2>3, <2>4, <2>5 DEF WalkNull, FreePage, CopyPage, AtPte, MapWalk
  <2>6. CASE ClearPte(c)
    BY <1>0, <2>3, <2>4, <2>6 DEF ClearPte, MapWalk
  <2>7. CASE Take(c) \/ \E f \in FrameSet : Give(c, f)
    BY <1>0, <2>4, <2>7 DEF Take, Give, MapWalk
  <2>8. CASE \/ \E q \in Traps : Trap(c, q)
             \/ \E b \in Bufs : StartCopy(c, b)
    BY <1>0, <2>4, <2>8 DEF Trap, StartCopy, MapWalk, TypeOK
  <2> QED
    BY <1>5, <2>5, <2>6, <2>7, <2>8
<1>6. CASE UNCHANGED vars
  BY <1>1, <1>2, <1>6 DEF vars, MapWalk
<1> QED
  BY <1>1, <1>2, <1>3, <1>4, <1>5, <1>6 DEF Next, PageWalk

\* create_vm() maps each page once, and RAM to a page that is in no table.
LEMMA MappingStep == ASSUME IInv, [Next]_vars PROVE Mapping'
<1>0. TypeOK /\ Pool /\ BootCpu \in Cpus
  BY Stage2Assumption DEF IInv
<1>1. ASSUME NEW v \in Ram \cup Dev, MapNext(v) PROVE Mapping'
  <2>1. at[BootCpu] = "boot" /\ v \in left /\ v \in Ipas
    BY <1>1, Constants DEF MapNext, NextToMap
  <2>2. \A w \in Ipas : Leaf(w)' = Leaf(w)
    BY <1>1, SameTables DEF MapNext
  <2>3. Leaf(v) = Nil
    BY <2>1 DEF IInv, Mapping
  <2>4. left' \subseteq left /\ (left' = left \/ left' = left \ {v})
    BY <1>1 DEF MapNext
  <2>5. \A w \in Ipas : Leaf(w)' # Nil => w \in (Ram \cup Dev) \ left'
    BY <2>2, <2>3, <2>4 DEF IInv, Mapping
  <2>6. CASE v \in Ram /\ pool = <<>>
    <3>1. ~ MapWalk'
      BY <1>0, <1>1, <2>6 DEF MapNext, Goto, MapWalk, TypeOK
    <3> QED
      BY <2>5, <3>1 DEF Mapping
  <2>7. CASE v \in Ram /\ pool # <<>>
    <3>1. Kalloc("ram") /\ va'[BootCpu] = v /\ page'[BootCpu] = Head(pool) /\ left' = left \ {v} /\ pgt' = pgt
      BY <1>0, <1>1, <2>7 DEF MapNext, StartWalk, TypeOK
    <3>2. Head(pool) \in FrameSet /\ use[Head(pool)] = "free" /\ use'[Head(pool)] = "ram"
      BY <1>0, <2>7, <3>1, KallocFree DEF TypeOK
    <3>3. \A c \in Cpus : at[c] # "clear"
      BY <1>0, <2>1, GuestPhase
    <3>4. \A t \in FrameSet, i \in Idx : pgt[t][i] # Head(pool)
      BY <3>2, <3>3, EntryUse DEF TableUses
    <3>5. v \notin Dev
      BY <2>7, Constants
    <3>6. Leaf(va[BootCpu])' = Nil
      BY <2>1, <2>2, <2>3, <3>1
    <3> QED
      BY <1>1, <2>1, <2>5, <3>1, <3>2, <3>4, <3>5, <3>6 DEF Mapping
  <2>8. CASE v \notin Ram
    <3>1. va'[BootCpu] = v /\ page'[BootCpu] = v /\ left' = left \ {v}
      BY <1>0, <1>1, <2>8 DEF MapNext, StartWalk, TypeOK
    <3>2. Leaf(va[BootCpu])' = Nil
      BY <2>1, <2>2, <2>3, <3>1
    <3> QED
      BY <1>1, <2>5, <2>8, <3>1, <3>2 DEF Mapping
  <2> QED
    BY <2>6, <2>7, <2>8
<1>2. ASSUME \A v \in Ram \cup Dev : ~ MapNext(v) PROVE Mapping'
  <2>1. left' = left
    BY <1>2 DEF Next, PageWalk, NewTable, Booted, WalkDown, WalkAlloc, WalkNull, MapPage, FreePage,
         ClearPte, CopyPage, Trap, StartCopy, Take, Give, vars
  <2>2. ASSUME NEW w \in Ipas, Leaf(w)' # Nil PROVE w \in (Ram \cup Dev) \ left'
    <3>1. CASE \E c \in Cpus : MapPage(c)
      BY <2>1, <2>2, <3>1, MapPageTree DEF IInv, Mapping
    <3>2. CASE \E c \in Cpus : ClearPte(c)
      BY <2>1, <2>2, <3>2, ClearPteTree DEF IInv, Mapping
    <3>3. CASE \A c \in Cpus : ~ MapPage(c) /\ ~ ClearPte(c)
      BY <2>1, <2>2, <3>3, LeafSame DEF IInv, Mapping
    <3> QED
      BY <3>1, <3>2, <3>3
  <2>3. ASSUME MapWalk'
        PROVE  /\ va'[BootCpu] \in (Ram \cup Dev) \ left' /\ Leaf(va[BootCpu])' = Nil
               /\ va'[BootCpu] \in Ram =>
                    /\ page'[BootCpu] \in FrameSet /\ use'[page'[BootCpu]] = "ram"
                    /\ \A t \in FrameSet, i \in Idx : pgt'[t][i] # page'[BootCpu]
               /\ va'[BootCpu] \in Dev => page'[BootCpu] = va'[BootCpu]
    <3>1. /\ MapWalk /\ va'[BootCpu] = va[BootCpu] /\ page'[BootCpu] = page[BootCpu]
          /\ \A c \in Cpus : ~ MapPage(c)
      BY <1>2, <2>3, MapWalkEnds
    <3>2. \A c \in Cpus : ~ ClearPte(c) /\ ~ FreePage(c)
      BY <3>1, GuestPhase DEF ClearPte, FreePage, AtPte
    <3>3. \A w \in Ipas : Leaf(w)' = Leaf(w)
      BY <3>1, <3>2, LeafSame
    <3>4. PICK w \in Ipas : w = va[BootCpu]
      BY <3>1, Constants DEF IInv, Mapping
    <3>5. Leaf(w)' = Nil
      BY <3>1, <3>3, <3>4 DEF IInv, Mapping
    <3>6. ASSUME w \in Ram
          PROVE  /\ page[BootCpu] \in FrameSet /\ use'[page[BootCpu]] = "ram"
                 /\ \A t \in FrameSet, i \in Idx : pgt'[t][i] # page[BootCpu]
      <4>1. /\ page[BootCpu] \in FrameSet /\ use[page[BootCpu]] = "ram"
            /\ \A t \in FrameSet, i \in Idx : pgt[t][i] # page[BootCpu]
        BY <3>1, <3>4, <3>6 DEF IInv, Mapping
      <4>2. use'[page[BootCpu]] = "ram"
        BY <3>2, <4>1, RamKept
      <4>3. CASE \E c \in Cpus : WalkAlloc(c) /\ pool # <<>>
        <5>1. PICK c \in Cpus : WalkAlloc(c) /\ pool # <<>>
          BY <4>3
        <5>2. /\ table[c] \in FrameSet /\ PIDX[va[c]][level[c]] \in Idx
              /\ pgt' = [pgt EXCEPT ![table[c]][PIDX[va[c]][level[c]]] = Head(pool)]
          BY <5>1, PteEntry DEF WalkAlloc, SetPte, Busy
        <5>3. use[Head(pool)] = "free"
          BY <5>1, WalkAllocTree
        <5> QED
          BY <1>0, <4>1, <4>2, <5>2, <5>3 DEF TypeOK
      <4>4. CASE \A c \in Cpus : ~ (WalkAlloc(c) /\ pool # <<>>)
        <5>1. pgt' = pgt
          BY <1>2, <3>1, <3>2, <4>4 DEF Next, PageWalk, NewTable, Booted, WalkDown, WalkAlloc,
             WalkNull, CopyPage, Trap, StartCopy, Take, Give, vars, memVars
        <5> QED
          BY <4>1, <4>2, <5>1
      <4> QED
        BY <4>3, <4>4
    <3> QED
      BY <2>1, <3>1, <3>4, <3>5, <3>6 DEF IInv, Mapping
  <2> QED
    BY <2>2, <2>3 DEF Mapping
<1> QED
  BY <1>1, <1>2

\* The leaf of a page goes only while its region is unmapped, and RAM that is
\* mapped is backed when create_vm() gets to the next page.
LEMMA MappedStep == ASSUME IInv, [Next]_vars PROVE Mapped'
<1>0. TypeOK /\ BootCpu \in Cpus
  BY Stage2Assumption DEF IInv
<1>1. SUFFICES ASSUME NEW v \in Ram \ left'
               PROVE  \/ Backed(v)'
                      \/ MapWalk' /\ va'[BootCpu] = v
                      \/ at'[BootCpu] = "nomem"
                      \/ \E q \in trapped' : v \in {q, q + 1}
  BY DEF Mapped
<1>2. v \in Ipas /\ trapped \subseteq trapped'
  <2>1. trapped \subseteq trapped'
    BY DEF Next, PageWalk, NewTable, MapNext, Booted, WalkDown, WalkAlloc, WalkNull, MapPage,
       FreePage, ClearPte, CopyPage, Trap, StartCopy, Take, Give, vars
  <2> QED
    BY <2>1, Constants
<1>3. CASE v \in left
  <2>1. PICK w \in Ram \cup Dev : MapNext(w)
    BY <1>3 DEF Next, PageWalk, NewTable, Booted, WalkDown, WalkAlloc, WalkNull, MapPage,
       FreePage, ClearPte, CopyPage, Trap, StartCopy, Take, Give, vars
  <2>2. w = v /\ StartWalk(BootCpu, v) /\ op' = op /\ at[BootCpu] = "boot"
    BY <1>3, <2>1 DEF MapNext
  <2>3. op[BootCpu] = "map"
    BY <1>0, <2>2, GuestPhase DEF IInv, Phase
  <2> QED
    BY <1>0, <2>2, <2>3 DEF StartWalk, Goto, MapWalk, TypeOK
<1>4. CASE v \notin left
  <2>1. CASE Backed(v)
    <3>1. CASE \E c \in Cpus : (FreePage(c) \/ ClearPte(c)) /\ va[c] = v
      <4>1. PICK c \in Cpus : (FreePage(c) \/ ClearPte(c)) /\ va[c] = v
        BY <3>1
      <4>2. Unmaps(c)
        BY <4>1, FreePageUse, ClearPteTree
      <4>3. base[c] \in trapped /\ v \in {base[c], base[c] + 1}
        BY <4>1, <4>2 DEF IInv, Unmapping, Region
      <4> QED
        BY <1>2, <4>3
    <3>2. CASE ~ \E c \in Cpus : (FreePage(c) \/ ClearPte(c)) /\ va[c] = v
      BY <1>2, <2>1, <3>2, BackedKept
    <3> QED
      BY <3>1, <3>2
  <2>2. CASE MapWalk /\ va[BootCpu] = v
    <3>1. CASE \E c \in Cpus : MapPage(c)
      <4>1. PICK c \in Cpus : MapPage(c)
        BY <3>1
      <4>2. c = BootCpu /\ Leaf(v)' = page[c] /\ use' = use
        BY <1>2, <2>2, <4>1, MapPageTree
      <4>3. page[c] \in FrameSet /\ use[page[c]] = "ram"
        BY <2>2, <4>2 DEF IInv, Mapping
      <4> QED
        BY <4>2, <4>3 DEF Backed
    <3>2. CASE \A c \in Cpus : ~ MapPage(c)
      <4>1. \A c \in Cpus : at[c] = "walk" => op[c] = "map"
        BY <2>2, GuestPhase DEF IInv, TypeOK
      <4>2. \A c \in Cpus : at[c] # "guest" /\ at[c] # "clear"
        BY <2>2, GuestPhase
      <4>3. at[BootCpu] = "walk" /\ op[BootCpu] = "map"
        BY <2>2 DEF MapWalk
      <4>4. at' = at \/ at' = [at EXCEPT ![BootCpu] = "nomem"]
        <5>1. ASSUME NEW c \in Cpus, WalkAlloc(c) PROVE c = BootCpu
          BY <5>1, MapBoot DEF WalkAlloc
        <5> QED
          BY <3>2, <4>1, <4>2, <4>3, <5>1
          DEF Next, PageWalk, NewTable, MapNext, Booted, WalkDown, WalkAlloc, WalkNull,
              FreePage, ClearPte, CopyPage, AtPte, Trap, StartCopy, Take, Give, Goto, vars
      <4>5. op' = op /\ va' = va
        BY <3>2, <4>1, <4>2, <4>3
        DEF Next, PageWalk, NewTable, MapNext, Booted, WalkDown, WalkAlloc, WalkNull,
            FreePage, ClearPte, CopyPage, AtPte, Trap, StartCopy, Take, Give, vars
      <4> QED
        BY <1>0, <2>2, <4>3, <4>4, <4>5 DEF MapWalk, TypeOK
    <3> QED
      BY <3>1, <3>2
  <2>3. CASE at[BootCpu] = "nomem"
    <3>1. \A c \in Cpus : /\ at[c] # "guest" /\ at[c] # "clear" /\ at[c] # "walk"
                          /\ at[c] # "start" /\ at[c] # "boot"
      BY <1>0, <2>3 DEF IInv, Phase, MapWalk
    <3>2. at' = at
      BY <1>0, <3>1
      DEF Next, PageWalk, NewTable, MapNext, Booted, WalkDown, WalkAlloc, WalkNull, MapPage,
          FreePage, ClearPte, CopyPage, AtPte, Trap, StartCopy, Take, Give, vars
    <3> QED
      BY <2>3, <3>2
  <2>4. CASE \E q \in trapped : v \in {q, q + 1}
    BY <1>2, <2>4
  <2> QED
    BY <1>4, <2>1, <2>2, <2>3, <2>4 DEF IInv, Mapped
<1> QED
  BY <1>3, <1>4

\* The regions of two CPUs have no page in common.
LEMMA Apart ==
  ASSUME IInv, NEW c \in Cpus, NEW d \in Cpus, c # d, Unmaps(c), Unmaps(d)
  PROVE  va[c] # base[d] /\ va[c] # base[d] + 1
<1>1. base[c] \in Traps /\ base[d] \in Traps /\ base[c] # base[d]
  BY DEF IInv, TypeOK, Unmapping, Region
<1>2. {base[c], base[c] + 1} \cap {base[d], base[d] + 1} = {}
  BY <1>1, Stage2Assumption
<1> QED
  BY <1>2 DEF IInv, Unmapping, Region

\* The region of a CPU stays as it is in the steps of the others.
LEMMA RegionKept ==
  ASSUME IInv, [Next]_vars, NEW d \in Cpus, Unmaps(d),
         at'[d] = at[d], op'[d] = op[d], base'[d] = base[d], va'[d] = va[d], level'[d] = level[d]
  PROVE  Region(d)'
<1>0. TypeOK /\ Region(d)
  BY DEF IInv, Unmapping
<1>1. /\ base[d] \in Traps /\ va[d] \in {base[d], base[d] + 1}
      /\ base[d] \in Ipas /\ base[d] + 1 \in Ipas /\ trapped \subseteq trapped'
  <2>1. trapped \subseteq trapped'
    BY DEF Next, PageWalk, NewTable, MapNext, Booted, WalkDown, WalkAlloc, WalkNull, MapPage,
       FreePage, ClearPte, CopyPage, Trap, StartCopy, Take, Give, vars
  <2>2. base[d] \in Traps /\ va[d] \in {base[d], base[d] + 1}
    BY <1>0 DEF TypeOK, Region
  <2> QED
    BY <2>1, <2>2, Stage2Assumption
<1>2. ASSUME NEW e \in Cpus, FreePage(e) \/ ClearPte(e)
      PROVE  va[e] # base[d] /\ va[e] # base[d] + 1
  <2>1. Unmaps(e)
    BY <1>2, FreePageUse, ClearPteTree
  <2>2. FreePage(e) => at'[e] = "clear" /\ at[e] = "walk"
    BY <1>0, FreePageUse DEF FreePage, AtPte, TypeOK
  <2>3. ClearPte(e) => at'[e] # "clear" /\ at[e] = "clear"
    BY <1>0 DEF ClearPte, StartWalk, Goto, TypeOK
  <2>4. e # d
    BY <1>2, <2>2, <2>3
  <2> QED
    BY <2>1, <2>4, Apart
<1>3. \A w \in {base[d], base[d] + 1} : Backed(w) => Backed(w)'
  BY <1>1, <1>2, BackedKept
<1>4. Leaf(va[d]) \in FrameSet => Leaf(va[d])' \in FrameSet
  <2>1. PICK w \in Ipas : w = va[d]
    BY <1>1
  <2>2. \A c \in Cpus : ~ MapPage(c)
    <3>1. ~ MapWalk
      BY GuestPhase DEF Unmaps, Busy
    <3> QED
      BY <3>1, MapPageTree
  <2>3. Leaf(w)' = Leaf(w)
    BY <1>1, <1>2, <2>1, <2>2, LeafSame, ClearPteTree
  <2> QED
    BY <2>1, <2>3
<1>5. /\ base'[d] \in trapped' /\ va'[d] \in {base'[d], base'[d] + 1}
      /\ base'[d] \notin Ram => va'[d] = base'[d] /\ at'[d] = "walk"
      /\ at'[d] = "clear" => level'[d] = 3
  BY <1>0, <1>1 DEF Region
<1>6. base'[d] \in Ram /\ at'[d] = "walk" => Backed(va[d])'
  <2>1. PICK w \in {base[d], base[d] + 1} : w = va[d]
    BY <1>1
  <2> QED
    BY <1>0, <1>3, <2>1 DEF Region
<1>7. base'[d] \in Ram /\ va'[d] = base'[d] => Backed(base[d] + 1)'
  <2>1. PICK w \in {base[d], base[d] + 1} : w = base[d] + 1
    BY <1>1
  <2> QED
    BY <1>0, <1>3, <2>1 DEF Region
<1>8. at'[d] = "clear" => Leaf(va[d])' \in FrameSet
  BY <1>0, <1>4 DEF Region
<1> QED
  BY <1>5, <1>6, <1>7, <1>8 DEF Region

LEMMA UnmappingStep == ASSUME IInv, [Next]_vars PROVE Unmapping'
<1>0. TypeOK /\ Unmapping /\ BootCpu \in Cpus
  BY Stage2Assumption DEF IInv
<1>1. ASSUME NEW c \in Cpus, Alone(c),
             Unmaps(c)' => Unmaps(c) /\ base'[c] = base[c] /\ Region(c)'
      PROVE  Unmapping'
  <2>1. \A d \in Cpus : Unmaps(d)' => Unmaps(d) /\ base'[d] = base[d]
    BY <1>1 DEF Alone, Unmaps, Busy
  <2>2. ASSUME NEW d \in Cpus, d # c, Unmaps(d)' PROVE Region(d)'
    BY <1>1, <2>1, <2>2, RegionKept DEF Alone
  <2> QED
    BY <1>0, <1>1, <2>1, <2>2 DEF Unmapping
<1>2. ASSUME NEW c \in Cpus, Alone(c), ~ Unmaps(c)' PROVE Unmapping'
  BY <1>1, <1>2
<1>3. ASSUME \A d \in Cpus : ~ Unmaps(d)' PROVE Unmapping'
  BY <1>3 DEF Unmapping
<1>4. ASSUME NewTable \/ Booted \/ \E v \in Ram \cup Dev : MapNext(v) PROVE Unmapping'
  <2>1. at[BootCpu] \in {"start", "boot"}
    BY <1>4 DEF NewTable, Booted, MapNext
  <2>2. op[BootCpu] = "map" /\ \A d \in Cpus : d # BootCpu => at[d] = "off"
    BY <1>0, <2>1 DEF IInv, Phase
  <2>3. op' = op
    BY <1>4 DEF NewTable, Booted, MapNext
  <2>4. \A d \in Cpus : ~ Unmaps(d)'
    BY <1>0, <1>4, <2>2, <2>3 DEF NewTable, Booted, MapNext, StartWalk, Goto, Unmaps, Busy, TypeOK
  <2> QED
    BY <1>3, <2>4
<1>5. ASSUME NEW c \in Cpus, WalkDown(c) PROVE Unmapping'
  <2>1. /\ Alone(c) /\ at'[c] = at[c] /\ op'[c] = op[c] /\ base'[c] = base[c]
        /\ va'[c] = va[c] /\ at[c] = "walk"
    BY <1>0, <1>5, StepAlone DEF PageWalk, WalkDown
  <2>2. ASSUME Unmaps(c) PROVE Region(c)'
    <3>1. UNCHANGED <<pgt, root, use, trapped, base, va, at>>
      BY <1>5 DEF WalkDown, memVars
    <3>2. \A w \in Ipas : Leaf(w)' = Leaf(w)
      BY <3>1, SameTables
    <3>3. base[c] \in Ipas /\ base[c] + 1 \in Ipas /\ va[c] \in {base[c], base[c] + 1}
      BY <1>0, <2>2, Stage2Assumption DEF TypeOK, Unmapping, Region
    <3>4. PICK v \in Ipas, w \in Ipas : v = va[c] /\ w = base[c] + 1
      BY <3>3
    <3>5. (Backed(v)' <=> Backed(v)) /\ (Backed(w)' <=> Backed(w))
      BY <3>1, <3>2 DEF Backed
    <3>6. (Backed(va[c])' <=> Backed(va[c])) /\ (Backed(base[c] + 1)' <=> Backed(base[c] + 1))
      BY <3>1, <3>4, <3>5
    <3> QED
      BY <1>0, <2>1, <2>2, <3>1, <3>6 DEF Unmapping, Region
  <2>3. Unmaps(c)' => Unmaps(c)
    BY <2>1 DEF Unmaps, Busy
  <2> QED
    BY <1>1, <2>1, <2>2, <2>3
<1>6. ASSUME NEW c \in Cpus, WalkAlloc(c) PROVE Unmapping'
  <2>1. Alone(c) /\ op'[c] = "map"
    BY <1>0, <1>6, StepAlone DEF PageWalk, WalkAlloc
  <2> QED
    BY <1>2, <2>1 DEF Unmaps
<1>7. ASSUME NEW c \in Cpus, WalkNull(c) \/ MapPage(c) PROVE Unmapping'
  <2>1. Alone(c)
    BY <1>0, <1>7, StepAlone DEF PageWalk
  <2>2. at'[c] \in {"guest", "boot"}
    BY <1>0, <1>7, NullUnmap, MapPageTree DEF TypeOK
  <2> QED
    BY <1>2, <2>1, <2>2 DEF Unmaps, Busy
<1>8. ASSUME NEW c \in Cpus, FreePage(c) PROVE Unmapping'
  <2>1. /\ Alone(c) /\ Unmaps(c) /\ at'[c] = "clear" /\ base' = base /\ va' = va
        /\ level'[c] = 3 /\ trapped' = trapped /\ base[c] \in Ram /\ Backed(va[c])
        /\ at[c] = "walk"
    BY <1>0, <1>8, StepAlone, FreePageUse DEF FreePage, AtPte, TypeOK
  <2>2. base[c] \in trapped /\ va[c] \in {base[c], base[c] + 1} /\ base[c] \in Ipas
    BY <1>0, <2>1, Constants DEF Unmapping, Region
  <2>3. PICK w \in Ipas : w = va[c]
    BY <1>8, PteEntry DEF FreePage, AtPte, Busy
  <2>4. Leaf(va[c])' \in FrameSet
    <3>1. Leaf(w)' = Leaf(w)
      BY <1>8, SameTables DEF FreePage
    <3> QED
      BY <2>1, <2>3, <3>1 DEF Backed
  <2>5. ASSUME va[c] = base[c] PROVE Backed(base[c] + 1)'
    <3>1. PICK x \in Ipas : x = base[c] + 1
      BY <2>1, <2>2, Stage2Assumption DEF IInv, TypeOK
    <3>2. Backed(x) /\ x # base[c]
      BY <1>0, <2>1, <2>2, <2>5, <3>1, Constants DEF Unmapping, Region
    <3>3. ASSUME NEW e \in Cpus, FreePage(e) \/ ClearPte(e) PROVE va[e] # x
      <4>1. CASE e = c
        BY <2>5, <3>2, <4>1
      <4>2. CASE e # c
        BY <2>1, <3>1, <3>3, <4>2, Apart, FreePageUse, ClearPteTree
      <4> QED
        BY <4>1, <4>2
    <3>4. Backed(x)'
      BY <3>2, <3>3, BackedKept
    <3> QED
      BY <2>1, <3>1, <3>4
  <2>6. Region(c)'
    BY <2>1, <2>2, <2>4, <2>5 DEF Region
  <2> QED
    BY <1>1, <2>1, <2>6
<1>9. ASSUME NEW c \in Cpus, ClearPte(c) PROVE Unmapping'
  <2>1. Alone(c) /\ Unmaps(c) /\ base' = base /\ trapped' = trapped /\ at[c] = "clear"
    BY <1>0, <1>9, StepAlone, ClearPteTree DEF ClearPte
  <2>2. Region(c) /\ base[c] \in Ram /\ base[c] \in Traps
    BY <1>0, <2>1 DEF Unmapping, Region, TypeOK
  <2>3. CASE va[c] = base[c] + 1
    <3>1. ~ Unmaps(c)'
      BY <1>0, <1>9, <2>3 DEF ClearPte, Goto, Unmaps, Busy, TypeOK
    <3> QED
      BY <1>2, <2>1, <3>1
  <2>4. CASE va[c] # base[c] + 1
    <3>1. va[c] = base[c] /\ at'[c] = "walk" /\ va'[c] = va[c] + 1
      BY <1>0, <1>9, <2>2, <2>4 DEF ClearPte, StartWalk, Goto, TypeOK, Region
    <3>2. PICK x \in Ipas : x = base[c] + 1
      BY <2>2, Stage2Assumption
    <3>3. Backed(x) /\ x # base[c]
      BY <2>2, <2>4, <3>1, <3>2 DEF Region
    <3>4. ASSUME NEW e \in Cpus, FreePage(e) \/ ClearPte(e) PROVE va[e] # x
      <4>1. CASE e = c
        BY <3>1, <3>3, <4>1
      <4>2. CASE e # c
        BY <2>1, <3>2, <3>4, <4>2, Apart, FreePageUse, ClearPteTree
      <4> QED
        BY <4>1, <4>2
    <3>5. Backed(x)'
      BY <3>3, <3>4, BackedKept
    <3>6. Backed(va[c])' /\ va'[c] = x /\ x # base'[c]
      BY <2>1, <3>1, <3>2, <3>3, <3>5
    <3>7. Region(c)'
      BY <2>1, <2>2, <3>1, <3>2, <3>6 DEF Region
    <3> QED
      BY <1>1, <2>1, <3>7
  <2> QED
    BY <2>3, <2>4
<1>10. ASSUME NEW c \in Cpus, \/ CopyPage(c) \/ Take(c) \/ \E f \in FrameSet : Give(c, f)
                              \/ \E b \in Bufs : StartCopy(c, b)
       PROVE  Unmapping'
  <2>1. Alone(c)
    BY <1>0, <1>10, StepAlone
  <2>2. ~ Unmaps(c)'
    BY <1>0, <1>10 DEF CopyPage, AtPte, Take, Give, StartCopy, Unmaps, Busy, TypeOK
  <2> QED
    BY <1>2, <2>1, <2>2
<1>11. ASSUME NEW c \in Cpus, NEW q \in Traps, Trap(c, q) PROVE Unmapping'
  <2>1. /\ Alone(c) /\ base'[c] = q /\ va'[c] = q /\ at'[c] = "walk" /\ at[c] = "guest"
        /\ q \in trapped' /\ q \notin trapped /\ trapped \subseteq Traps
        /\ UNCHANGED <<pgt, root, use>>
    BY <1>0, <1>11, StepAlone DEF Trap, StartWalk, Goto, TypeOK, memVars
  <2>2. \A d \in Cpus : d # c /\ Unmaps(d)' => Unmaps(d) /\ base'[d] = base[d] /\ base[d] \in trapped
    BY <1>0, <2>1 DEF Alone, Unmaps, Busy, Unmapping, Region
  <2>3. ASSUME NEW d \in Cpus, d # c, Unmaps(d)' PROVE Region(d)'
    BY <2>1, <2>2, <2>3, RegionKept DEF Alone
  <2>4. \A d, e \in Cpus : Unmaps(d)' /\ Unmaps(e)' /\ base'[d] = base'[e] => d = e
    BY <1>0, <2>1, <2>2 DEF Unmapping
  <2>5. q \in Ipas /\ q + 1 \in Ipas
    BY Stage2Assumption
  <2>6. ASSUME q \in Ram, NEW v \in {q, q + 1} PROVE Backed(v)'
    <3>1. v \in Ram \ left /\ ~ MapWalk /\ at[BootCpu] # "nomem"
      BY <1>0, <2>1, <2>6, RegionRam, GuestPhase
    <3>2. ASSUME NEW r \in trapped, v \in {r, r + 1} PROVE FALSE
      BY <2>1, <2>6, <3>2, Stage2Assumption
    <3>3. Backed(v)
      BY <3>1, <3>2 DEF IInv, Mapped
    <3>4. Leaf(v)' = Leaf(v)
      BY <2>1, <2>5, <2>6, SameTables
    <3> QED
      BY <2>1, <3>3, <3>4 DEF Backed
  <2>7. q \in Ram => Backed(va[c])' /\ Backed(base[c] + 1)'
    BY <2>1, <2>6
  <2>8. Region(c)'
    BY <2>1, <2>7 DEF Region
  <2> QED
    BY <2>3, <2>4, <2>8 DEF Unmapping
<1>12. CASE UNCHANGED vars
  <2>1. \A d \in Cpus : Unmaps(d)' => /\ Unmaps(d) /\ at'[d] = at[d] /\ op'[d] = op[d]
                        /\ base'[d] = base[d] /\ va'[d] = va[d] /\ level'[d] = level[d]
    BY <1>12 DEF vars, Unmaps, Busy
  <2>2. ASSUME NEW d \in Cpus, Unmaps(d)' PROVE Region(d)'
    BY <2>1, <2>2, RegionKept
  <2> QED
    BY <1>0, <2>1, <2>2 DEF Unmapping
<1> QED
  BY <1>4, <1>5, <1>6, <1>7, <1>8, <1>9, <1>10, <1>11, <1>12 DEF Next, PageWalk

\* A page is out of the guest's reach for mvmm only once its entry is cleared, or
\* about to be by the CPU that freed it.
LEMMA LeafUseStep == ASSUME IInv, [Next]_vars PROVE LeafUse'
<1>0. TypeOK /\ TypeOK' /\ Pool /\ BootCpu \in Cpus
  BY TypeStep, Stage2Assumption DEF IInv
<1>1. SUFFICES ASSUME NEW t \in FrameSet, NEW i \in Idx,
                      use'[t] = "level3", pgt'[t][i] \in FrameSet
               PROVE  \/ use'[pgt'[t][i]] = "ram"
                      \/ \E d \in Cpus : at'[d] = "clear" /\ table'[d] = t /\ PIDX[va'[d]][3] = i
  BY DEF LeafUse
<1>2. ASSUME NEW c \in Cpus, Alone(c), at[c] # "clear", use[t] = "level3",
             pgt'[t][i] = pgt[t][i], \A d \in Cpus : FreePage(d) => Leaf(va[d]) # pgt[t][i]
      PROVE  \/ use'[pgt'[t][i]] = "ram"
             \/ \E d \in Cpus : at'[d] = "clear" /\ table'[d] = t /\ PIDX[va'[d]][3] = i
  <2>1. CASE use[pgt[t][i]] = "ram"
    BY <1>1, <1>2, <2>1, RamKept
  <2>2. CASE \E d \in Cpus : at[d] = "clear" /\ table[d] = t /\ PIDX[va[d]][3] = i
    BY <1>2, <2>2 DEF Alone
  <2> QED
    BY <1>1, <1>2, <2>1, <2>2 DEF IInv, LeafUse
<1>3. ASSUME \A d \in Cpus : at[d] # "clear" /\ ~ FreePage(d),
             use[t] = "level3", pgt'[t][i] = pgt[t][i]
      PROVE  use'[pgt'[t][i]] = "ram"
  BY <1>1, <1>3, RamKept DEF IInv, LeafUse
<1>4. at[BootCpu] \in {"start", "boot"} \/ MapWalk =>
        \A d \in Cpus : at[d] # "clear" /\ ~ FreePage(d)
  BY <1>0, GuestPhase DEF FreePage, AtPte
<1>5. ASSUME NEW n \in FrameSet, NEW u, use' = [use EXCEPT ![n] = u], u # "level3"
      PROVE  use[t] = "level3"
  BY <1>0, <1>1, <1>5 DEF TypeOK
<1>6. CASE NewTable
  <2>1. at[BootCpu] = "start" /\ pgt' = pgt
    BY <1>6 DEF NewTable
  <2>2. use[t] = "level3"
    <3>1. CASE pool = <<>>
      BY <1>1, <1>6, <3>1 DEF NewTable
    <3>2. CASE pool # <<>>
      BY <1>0, <1>5, <1>6, <3>2, KallocFree DEF NewTable, TableUse
    <3> QED
      BY <3>1, <3>2
  <2> QED
    BY <1>3, <1>4, <2>1, <2>2
<1>7. ASSUME NEW v \in Ram \cup Dev, MapNext(v)
      PROVE  use'[pgt'[t][i]] = "ram"
  <2>1. at[BootCpu] = "boot" /\ pgt' = pgt
    BY <1>7 DEF MapNext
  <2>2. use[t] = "level3"
    <3>1. CASE ~ (v \in Ram /\ pool # <<>>)
      BY <1>1, <1>7, <3>1 DEF MapNext
    <3>2. CASE v \in Ram /\ pool # <<>>
      BY <1>0, <1>5, <1>7, <3>2, KallocFree DEF MapNext
    <3> QED
      BY <3>1, <3>2
  <2> QED
    BY <1>3, <1>4, <2>1, <2>2
<1>8. ASSUME NEW c \in Cpus, WalkAlloc(c)
      PROVE  use'[pgt'[t][i]] = "ram"
  <2>1. MapWalk
    BY <1>8, MapBoot DEF WalkAlloc
  <2>2. CASE pool = <<>>
    <3>1. pgt' = pgt /\ use' = use
      BY <1>8, <2>2 DEF WalkAlloc
    <3> QED
      BY <1>1, <1>3, <1>4, <2>1, <3>1
  <2>3. CASE pool # <<>>
    <3>1. /\ table[c] \in FrameSet /\ use[table[c]] = TableUse[level[c] + 1]
          /\ PIDX[va[c]][level[c]] \in Idx /\ level[c] \in 0 .. 2
      BY <1>8, PteEntry DEF WalkAlloc, Busy
    <3>2. /\ pgt' = [pgt EXCEPT ![table[c]][PIDX[va[c]][level[c]]] = Head(pool)]
          /\ use' = [use EXCEPT ![Head(pool)] = TableUse[level[c] + 2]]
      BY <1>8, <2>3 DEF WalkAlloc, SetPte, Kalloc
    <3>3. Head(pool) \in FrameSet /\ use[Head(pool)] = "free"
      BY <1>8, <2>3, WalkAllocTree
    <3>4. pgt[Head(pool)] = ZeroPage
      BY <3>3 DEF IInv, Tree, Rooted, TableUses
    <3>5. use[table[c]] \in {"level0", "level1", "level2"}
      BY <3>1 DEF TableUse
    <3>6. t # Head(pool)
      <4>1. ASSUME t = Head(pool) PROVE pgt'[t][i] = Nil
        BY <1>0, <3>1, <3>2, <3>3, <3>4, <3>5, <4>1 DEF TypeOK, ZeroPage
      <4> QED
        BY <1>1, <4>1, Constants
    <3>7. use[t] = "level3" /\ t # table[c]
      BY <1>0, <1>1, <3>2, <3>5, <3>6 DEF TypeOK
    <3>8. pgt'[t][i] = pgt[t][i]
      BY <1>0, <3>2, <3>7 DEF TypeOK
    <3> QED
      BY <1>3, <1>4, <2>1, <3>7, <3>8
  <2> QED
    BY <2>2, <2>3
<1>9. ASSUME NEW c \in Cpus, MapPage(c)
      PROVE  use'[pgt'[t][i]] = "ram"
  <2>1. c = BootCpu /\ MapWalk /\ use' = use /\ page[c] # Nil
    BY <1>9, MapPageTree
  <2>2. /\ table[c] \in FrameSet /\ PIDX[va[c]][level[c]] \in Idx
    BY <1>9, PteEntry DEF MapPage, AtPte, Busy
  <2>3. pgt' = pgt \/ pgt' = [pgt EXCEPT ![table[c]][PIDX[va[c]][level[c]]] = page[c]]
    BY <1>9 DEF MapPage, SetPte
  <2>4. pgt'[t][i] = pgt[t][i] \/ pgt'[t][i] = page[c]
    BY <1>0, <2>3 DEF TypeOK
  <2>5. CASE pgt'[t][i] = page[c]
    BY <1>1, <2>1, <2>5, Constants DEF IInv, Mapping
  <2> QED
    BY <1>1, <1>3, <1>4, <2>1, <2>4, <2>5
<1>10. ASSUME NEW c \in Cpus, FreePage(c)
       PROVE  \/ use'[pgt'[t][i]] = "ram"
              \/ \E d \in Cpus : at'[d] = "clear" /\ table'[d] = t /\ PIDX[va'[d]][3] = i
  <2>1. /\ Alone(c) /\ at[c] = "walk" /\ at'[c] = "clear" /\ pgt' = pgt
        /\ table' = table /\ va' = va /\ level[c] = 3
    BY <1>0, <1>10, StepAlone, FreePageUse DEF FreePage, AtPte, TypeOK
  <2>2. /\ Leaf(va[c]) = pgt[table[c]][PIDX[va[c]][3]] /\ Leaf(va[c]) # Nil
        /\ table[c] \in FrameSet /\ PIDX[va[c]][3] \in Idx /\ Leaf(va[c]) \in FrameSet
    BY <1>10, <2>1, PteEntry, FreePageUse, Constants DEF Busy, Pte, Backed
  <2>3. CASE pgt[t][i] = Leaf(va[c])
    <3>1. t = table[c] /\ i = PIDX[va[c]][3]
      BY <2>2, <2>3 DEF IInv, Tree, OneEntry
    <3> QED
      BY <2>1, <3>1
  <2>4. CASE pgt[t][i] # Leaf(va[c])
    <3>1. use[t] = "level3"
      BY <1>5, <1>10, <2>2, FreePageUse
    <3>2. ASSUME NEW d \in Cpus, FreePage(d) PROVE Leaf(va[d]) # pgt[t][i]
      <4>1. d = c
        <5>1. at[d] = "walk" /\ at'[d] = "clear"
          BY <1>0, <3>2, FreePageUse DEF FreePage, AtPte, TypeOK
        <5> QED
          BY <2>1, <5>1 DEF Alone
      <4> QED
        BY <2>4, <4>1
    <3> QED
      BY <1>2, <2>1, <3>1, <3>2
  <2> QED
    BY <2>3, <2>4
<1>11. ASSUME NEW c \in Cpus, ClearPte(c)
       PROVE  \/ use'[pgt'[t][i]] = "ram"
              \/ \E d \in Cpus : at'[d] = "clear" /\ table'[d] = t /\ PIDX[va'[d]][3] = i
  <2>1. Alone(c) /\ at[c] = "clear" /\ use' = use /\ level[c] = 3
    BY <1>0, <1>11, StepAlone, ClearPteTree DEF ClearPte, IInv, Unmapping, Region
  <2>2. table[c] \in FrameSet /\ PIDX[va[c]][3] \in Idx
    BY <2>1, PteEntry DEF Busy
  <2>3. pgt' = [pgt EXCEPT ![table[c]][PIDX[va[c]][3]] = Nil]
    BY <1>11, <2>1 DEF ClearPte, SetPte
  <2>4. ~ (t = table[c] /\ i = PIDX[va[c]][3])
    BY <1>0, <1>1, <2>2, <2>3, Constants DEF TypeOK
  <2>5. pgt'[t][i] = pgt[t][i] /\ use[t] = "level3"
    BY <1>0, <1>1, <2>1, <2>2, <2>3, <2>4 DEF TypeOK
  <2>6. CASE use[pgt[t][i]] = "ram"
    BY <2>1, <2>5, <2>6
  <2>7. CASE \E d \in Cpus : at[d] = "clear" /\ table[d] = t /\ PIDX[va[d]][3] = i
    <3>1. PICK d \in Cpus : at[d] = "clear" /\ table[d] = t /\ PIDX[va[d]][3] = i
      BY <2>7
    <3>2. d # c
      BY <2>4, <3>1
    <3> QED
      BY <2>1, <3>1, <3>2 DEF Alone
  <2> QED
    BY <1>1, <2>5, <2>6, <2>7 DEF IInv, LeafUse
<1>12. ASSUME NEW c \in Cpus,
              \/ WalkDown(c) \/ WalkNull(c) \/ CopyPage(c)
              \/ \E q \in Traps : Trap(c, q)
              \/ \E b \in Bufs : StartCopy(c, b)
              \/ Take(c) \/ \E f \in FrameSet : Give(c, f)
       PROVE  \/ use'[pgt'[t][i]] = "ram"
              \/ \E d \in Cpus : at'[d] = "clear" /\ table'[d] = t /\ PIDX[va'[d]][3] = i
  <2>1. Alone(c)
    BY <1>0, <1>12, StepAlone DEF PageWalk
  <2>2. pgt' = pgt /\ at[c] # "clear" /\ at'[c] # "clear"
    BY <1>0, <1>12, NullUnmap DEF WalkDown, WalkNull, CopyPage, AtPte, Trap, StartCopy, StartWalk, Goto,
                       Take, Give, memVars, TypeOK
  <2>3. use[t] = "level3"
    <3>1. CASE Take(c)
      BY <1>0, <1>5, <3>1, KallocFree DEF Take
    <3>2. CASE \E f \in FrameSet : Give(c, f)
      BY <1>5, <3>2 DEF Give
    <3>3. CASE ~ (Take(c) \/ \E f \in FrameSet : Give(c, f))
      BY <1>1, <1>12, <3>3 DEF WalkDown, WalkNull, CopyPage, Trap, StartCopy, memVars
    <3> QED
      BY <3>1, <3>2, <3>3
  <2>4. \A d \in Cpus : ~ FreePage(d)
    <3>1. ASSUME NEW d \in Cpus, FreePage(d) PROVE FALSE
      <4>1. at[d] = "walk" /\ at'[d] = "clear"
        BY <1>0, <3>1, FreePageUse DEF FreePage, AtPte, TypeOK
      <4> QED
        BY <2>1, <2>2, <4>1 DEF Alone
    <3> QED
      BY <3>1
  <2> QED
    BY <1>2, <2>1, <2>2, <2>3, <2>4
<1>13. CASE Booted
  BY <1>1, <1>3, <1>4, <1>13 DEF Booted, memVars
<1>14. CASE UNCHANGED vars
  BY <1>1, <1>14 DEF vars, IInv, LeafUse
<1> QED
  BY <1>6, <1>7, <1>8, <1>9, <1>10, <1>11, <1>12, <1>13, <1>14 DEF Next, PageWalk

LEMMA Inductive == IInv /\ [Next]_vars => IInv'
<1> SUFFICES ASSUME IInv, [Next]_vars PROVE IInv'
  OBVIOUS
<1>1. TypeOK' /\ Pool' /\ Tree' /\ LeafUse'
  BY TypeStep, MemStep, LeafUseStep
<1>2. Walking' /\ Phase' /\ Mapping'
  BY WalkingStep, PhaseStep, MappingStep
<1>3. Mapped' /\ Unmapping' /\ Copying'
  BY MappedStep, UnmappingStep, CopyingStep
<1> QED
  BY <1>1, <1>2, <1>3 DEF IInv

-----------------------------------------------------------------------------
(* Theorems *)

LEMMA Invariant == Spec => []IInv
<1>1. Init => IInv
  BY InitInv
<1> QED
  BY <1>1, Inductive, PTL DEF Spec

\* The tables, the free list and the CPUs in mm.c hold what their types allow.
THEOREM TypeCorrect == Spec => []TypeOK
<1>1. IInv => TypeOK
  BY DEF IInv
<1> QED
  BY <1>1, Invariant, PTL

\* What the guest reaches is its RAM or a peripheral, except between kfree() and
\* the write that clears the entry (pageunmap(), mm.c).
THEOREM GuestIsolated == Spec => []Isolated
<1>1. IInv => Isolated
  <2>1. SUFFICES ASSUME IInv, NEW v \in Ipas, Leaf(v) \in FrameSet
                 PROVE  use[Leaf(v)] = "ram" \/ Clearing(v)
    BY DEF Isolated
  <2>2. /\ Table3(v) \in FrameSet /\ use[Table3(v)] = "level3" /\ Table3(v) # Nil
        /\ Leaf(v) = pgt[Table3(v)][PIDX[v][3]] /\ PIDX[v][3] \in Idx
    BY <2>1, Path, Constants DEF IInv, Tree
  <2>3. ASSUME NEW c \in Cpus, at[c] = "clear", table[c] = Table3(v), PIDX[va[c]][3] = PIDX[v][3]
        PROVE  Clearing(v)
    <3>1. Unmaps(c)
      BY <2>1, <2>3, GuestPhase DEF Unmaps, Busy
    <3>2. level[c] = 3
      BY <2>1, <2>3, <3>1 DEF IInv, Unmapping, Region
    <3>3. va[c] \in Ipas /\ Table3(va[c]) = table[c]
      BY <2>1, <3>1, <3>2, PteEntry DEF Unmaps
    <3>4. va[c] = v
      BY <2>1, <2>2, <2>3, <3>3, SamePlace DEF IInv, Tree
    <3> QED
      BY <2>3, <3>4 DEF Clearing
  <2> QED
    BY <2>1, <2>2, <2>3 DEF IInv, LeafUse
<1> QED
  BY <1>1, Invariant, PTL

\* pagewalk() goes through tables, each of its level, without a lock.
THEOREM WalksOnTables == Spec => []WalksTables
<1>1. IInv => WalksTables
  BY PteEntry DEF WalksTables, Busy
<1> QED
  BY <1>1, Invariant, PTL

\* mm.c never panics, but for want of pages, and reads no entry through NULL.
THEOREM NoPanic == Spec => []NeverPanics
<1>1. IInv => NeverPanics
  BY Stage2Assumption DEF NeverPanics, IInv, Phase, MapWalk
<1> QED
  BY <1>1, Invariant, PTL

\* Every step of mm.c maps a page that stands nowhere, unmaps one, or leaves the
\* guest's map as it is.
LEMMA SpaceStep == IInv /\ [Next]_vars => [Space!Next]_Leaves
<1> SUFFICES ASSUME IInv, [Next]_vars PROVE Space!Next \/ Leaves' = Leaves
  BY DEF Leaves
<1>1. ASSUME NEW c \in Cpus, MapPage(c) PROVE Space!Next
  <2>1. /\ c = BootCpu /\ MapWalk /\ page[c] # Nil
        /\ \A v \in Ipas : Leaf(v) = page[c] => page[c] = Nil
        /\ \A v \in Ipas : Leaf(v)' = IF v = va[c] THEN page[c] ELSE Leaf(v)
    BY <1>1, MapPageTree
  <2>2. PICK w \in Ipas : w = va[c] /\ Leaf(w) = Nil
    BY <2>1, Constants DEF IInv, Mapping
  <2>3. Leaves' = [Leaves EXCEPT ![w] = page[c]] /\ Leaves'[w] = page[c]
    BY <2>1, <2>2 DEF Leaves
  <2>4. Leaves[w] = Nil /\ \A v \in Ipas : Leaves[v] # page[c]
    BY <2>1, <2>2 DEF Leaves
  <2>5. Space!Map(w, Leaves'[w])
    BY <2>1, <2>3, <2>4 DEF Space!Map
  <2> QED
    BY <2>5 DEF Space!Next
<1>2. ASSUME NEW c \in Cpus, ClearPte(c) PROVE Space!Next
  <2>1. /\ Unmaps(c)
        /\ \A v \in Ipas : Leaf(v)' = IF v = va[c] THEN Nil ELSE Leaf(v)
    BY <1>2, ClearPteTree
  <2>2. Leaf(va[c]) # Nil
    BY <1>2, <2>1, Constants DEF ClearPte, IInv, Unmapping, Region
  <2>3. PICK w \in Ipas : w = va[c]
    BY <1>2, PteEntry DEF ClearPte, Busy
  <2>4. Leaves' = [Leaves EXCEPT ![w] = Nil] /\ Leaves[w] # Nil
    BY <2>1, <2>2, <2>3 DEF Leaves
  <2>5. Space!Unmap(w)
    BY <2>4 DEF Space!Unmap
  <2> QED
    BY <2>5 DEF Space!Next
<1>3. CASE \A c \in Cpus : ~ MapPage(c) /\ ~ ClearPte(c)
  BY <1>3, LeafSame DEF Leaves
<1> QED
  BY <1>1, <1>2, <1>3

\* The tables implement AddressSpace: pagemap() and pageunmap() (mm.c) are steps of
\* a map in which each page stands once, and all else leaves it as it is.
THEOREM RefinesAddressSpace == Spec => ImplementsAddressSpace
<1>1. Init => Space!Init
  BY DEF Init, Space!Init, Leaves, Leaf, Table3, Table2, Table1, Entry
<1> QED
  BY <1>1, Invariant, SpaceStep, PTL DEF Spec, Space!Spec, ImplementsAddressSpace

=============================================================================
