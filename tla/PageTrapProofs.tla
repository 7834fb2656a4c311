--------------------------- MODULE PageTrapProofs ---------------------------
(***************************************************************************)
(* Proofs about PageTrap, for any number of CPUs, pages, queues (that may   *)
(* overlap) and slots of the list of handlers.                              *)
(***************************************************************************)
EXTENDS PageTrap, TLAPS

\* pagetrap() is for the two pages of a queue, in order, and the registration
\* fills a slot.
TrapInv == \A c \in Cpus :
  /\ at[c] \in Trapping => queue[c] \in Queues
  /\ at[c] \in {"unmap", "clear"} =>
       /\ page[c] \in OfQueue(c)
       /\ page[c] # queue[c] => queue[c] \notin pte
  /\ at[c] \in {"register", "fill", "flush", "nomem"} => OfQueue(c) \cap pte = {}
  /\ at[c] = "fill" => node[c] \in Slots

\* The list is an array: slot s links to slot s - 1, and the slots after the
\* head have never been used.
ListInv ==
  /\ pmap \in Slots
  /\ \A s \in Slots :
       /\ s <= pmap => info[s].size # 0 /\ info[s].next = IF s = 0 THEN Nil ELSE s - 1
       /\ pmap < s => info[s] = Unused

\* A node is complete when no CPU is still to store one of its fields.
Filling(s) == \E c \in Cpus : at[c] = "fill" /\ node[c] = s
Complete(s) == s \in Slots /\ s <= pmap /\ ~ Filling(s)

\* A node that is being filled has the fields that are no longer to do.
Filled(c) ==
  LET m == info[node[c]] IN
  /\ node[c] <= pmap
  /\ m.base = IF "base" \in todo[c] THEN 0 ELSE queue[c]
  /\ m.size = IF "size" \in todo[c] THEN 1 ELSE QueueLen
  /\ m.read <=> "read" \notin todo[c]
  /\ m.write <=> "write" \notin todo[c]

FillInv ==
  /\ \A c \in Cpus : at[c] = "fill" => Filled(c)
  /\ \A c, d \in Cpus : at[c] = "fill" /\ at[d] = "fill" /\ node[c] = node[d] => c = d
  /\ \A s \in Slots : Complete(s) => info[s].read /\ info[s].write
  /\ \A c \in Cpus : at[c] = "flush" =>
       \A p \in OfQueue(c) : \E s \in Slots : Complete(s) /\ Covers(s, p)

Base == TypeOK /\ TrapInv /\ ListInv /\ FillInv

-----------------------------------------------------------------------------

\* The pages of queues are RAM, and numbers, above those that a node covers
\* before it has its base.
LEMMA QueueRange ==
  /\ \A p \in Ram \cup {Dev} : p \in Nat /\ p # 0 /\ p # 1
  /\ Dev \notin Ram
  /\ QueuePages \subseteq Ram
  /\ \A q \in Queues : q \in QueuePages /\ q + 1 \in QueuePages
<1>0. \A p \in Ram \cup {Dev} : p \in Nat /\ p # 0 /\ p # 1
  BY PageTrapAssumption DEF QueueLen
<1>1. ASSUME NEW q \in Queues
      PROVE  q \in Ram /\ q + 1 \in Ram /\ q .. q + QueueLen - 1 = {q, q + 1}
  <2>1. q \in Ram /\ q + 1 \in Ram
    BY PageTrapAssumption
  <2>2. q \in Nat
    BY <1>0, <2>1
  <2> QED
    BY <2>1, <2>2 DEF QueueLen
<1>2. QueuePages = UNION {{q, q + 1} : q \in Queues}
  BY <1>1 DEF QueuePages
<1>3. ASSUME NEW q \in Queues PROVE q \in QueuePages /\ q + 1 \in QueuePages
  BY <1>2
<1>4. QueuePages \subseteq Ram
  BY <1>1, <1>2
<1> QED
  BY <1>0, <1>3, <1>4, PageTrapAssumption

LEMMA InitBase == ASSUME Init PROVE Base
<1> USE PageTrapAssumption DEF Slots, Unused, Aborts, MmioInfo, QueueLen
<1>1. TypeOK
  BY DEF Init, TypeOK
<1>2. TrapInv
  BY DEF Init, TrapInv, Trapping
<1>3. ListInv
  BY DEF Init, ListInv
<1>4. FillInv
  BY DEF Init, FillInv, Complete
<1> QED
  BY <1>1, <1>2, <1>3, <1>4 DEF Base

\* The steps that touch neither the list nor pagetrap(): of the guest and of
\* a lookup.
LEMMA GuestType ==
  ASSUME Base, NEW c \in Cpus, Guest(c) \/ Lookup(c)
  PROVE  TypeOK'
<1> USE PageTrapAssumption, QueueRange DEF Base, TypeOK, Goto, Aborts, Slots, MmioInfo
<1>1. ASSUME NEW p \in Ram, Fill(c, p) \/ Evict(c, p) PROVE TypeOK'
  <2>1. tlb' \in [Cpus -> SUBSET Ram]
    <3>0. tlb \in [Cpus -> SUBSET Ram]
      OBVIOUS
    <3>1. \/ tlb' = [tlb EXCEPT ![c] = @ \cup {p}]
          \/ tlb' = [tlb EXCEPT ![c] = @ \ {p}]
      BY <1>1 DEF Fill, Evict
    <3> HIDE PageTrapAssumption, QueueRange DEF Base, TypeOK
    <3> QED
      BY <3>0, <3>1
  <2>2. UNCHANGED <<pte, pool, pmap, info, at, queue, page, node, wnr, todo, ready>>
    BY <1>1 DEF Fill, Evict, unmapVars, listVars
  <2> QED
    BY <2>1, <2>2
<1>2. ASSUME NEW p \in Aborts, NEW w \in BOOLEAN, Abort(c, p, w) PROVE TypeOK'
  BY <1>2 DEF Abort, unmapVars, listVars
<1>3. ASSUME NEW q \in Queues, SetQueue(c, q) PROVE TypeOK'
  BY <1>3 DEF SetQueue, unmapVars, listVars
<1>4. ASSUME LookupNext(c) PROVE TypeOK'
  <2>1. node[c] # Nil => node[c] \in Slots
    OBVIOUS
  <2>2. node[c] # Nil => info[node[c]].next \in Slots \cup {Nil}
    BY <2>1
  <2> QED
    BY <1>4, <2>2 DEF LookupNext, unmapVars, listVars
<1>5. ASSUME LookupHit(c) PROVE TypeOK'
  BY <1>5 DEF LookupHit, unmapVars, listVars
<1> QED
  BY <1>1, <1>2, <1>3, <1>4, <1>5 DEF Guest, Lookup

\* No step but those of pagetrap() puts a CPU past the write of QUEUE_PFN, or
\* changes what belongs to it.
LEMMA GuestFrame ==
  ASSUME Base, NEW c \in Cpus, Guest(c) \/ Lookup(c)
  PROVE  /\ UNCHANGED <<pte, pmap, info, pool, todo, ready>>
         /\ \/ at[c] \in {"guest", "lookup"}
            \/ at'[c] = at[c] /\ UNCHANGED <<queue, page, node>>
         /\ \/ at'[c] \in {"guest", "lookup", "dabort"} \/ at'[c] = at[c]
            \/ at'[c] = "unmap" /\ queue'[c] \in Queues /\ page'[c] = queue'[c]
         /\ \A d \in Cpus \ {c} :
              at'[d] = at[d] /\ queue'[d] = queue[d] /\ page'[d] = page[d] /\ node'[d] = node[d]
<1> USE DEF Base, TypeOK, Goto, unmapVars, listVars
<1>1. ASSUME NEW p \in Ram, Fill(c, p) \/ Evict(c, p)
      PROVE  UNCHANGED <<pte, pmap, info, pool, at, queue, page, node, todo, ready>>
  BY <1>1 DEF Fill, Evict
<1>2. ASSUME NEW p \in Aborts, NEW w \in BOOLEAN, Abort(c, p, w)
      PROVE  /\ UNCHANGED <<pte, pmap, info, pool, queue, todo, ready>>
             /\ at[c] = "guest" /\ at'[c] = "lookup"
             /\ \A d \in Cpus \ {c} : at'[d] = at[d] /\ page'[d] = page[d] /\ node'[d] = node[d]
  BY <1>2 DEF Abort
<1>3. ASSUME NEW q \in Queues, SetQueue(c, q)
      PROVE  /\ UNCHANGED <<pte, pmap, info, pool, node, todo, ready>>
             /\ at[c] = "guest" /\ at'[c] = "unmap" /\ queue'[c] = q /\ page'[c] = q
             /\ \A d \in Cpus \ {c} : at'[d] = at[d] /\ queue'[d] = queue[d] /\ page'[d] = page[d]
  BY <1>3 DEF SetQueue
<1>4. ASSUME Lookup(c)
      PROVE  /\ UNCHANGED <<pte, pmap, info, pool, queue, page, todo, ready>>
             /\ at[c] = "lookup" /\ at'[c] \in {"guest", "lookup", "dabort"}
             /\ \A d \in Cpus \ {c} : at'[d] = at[d] /\ node'[d] = node[d]
  BY <1>4 DEF Lookup, LookupNext, LookupHit
<1> QED
  BY <1>1, <1>2, <1>3, <1>4 DEF Guest

\* What is complete, and what it covers, stays so when neither the list nor who
\* fills it changes.
LEMMA SameComplete ==
  ASSUME UNCHANGED listVars,
         \A d \in Cpus : /\ at'[d] = "fill" <=> at[d] = "fill"
                         /\ at[d] = "fill" => node'[d] = node[d]
  PROVE  /\ \A s \in Slots : Complete(s)' <=> Complete(s)
         /\ \A s \in Slots, p \in Nat : Covers(s, p)' <=> Covers(s, p)
BY DEF listVars, Complete, Filling, Covers

LEMMA GuestBase == ASSUME Base, NEW c \in Cpus, Guest(c) \/ Lookup(c) PROVE Base'
<1> USE DEF Base
<1>1. TypeOK'
  BY GuestType
<1>2. /\ UNCHANGED <<pte, pmap, info, todo>>
      /\ \A d \in Cpus : at'[d] \in Trapping =>
           /\ at'[d] \notin {"guest", "lookup", "dabort"}
           /\ \/ at'[d] = at[d] /\ queue'[d] = queue[d] /\ page'[d] = page[d] /\ node'[d] = node[d]
              \/ at'[d] = "unmap" /\ queue'[d] \in Queues /\ page'[d] = queue'[d]
      /\ \A d \in Cpus : at[d] = "fill" => at'[d] = at[d] /\ node'[d] = node[d]
  BY GuestFrame DEF Trapping
<1>3. TrapInv'
  BY <1>2 DEF TrapInv, Trapping, OfQueue
<1>4. ListInv'
  BY <1>2 DEF ListInv
<1>5. \A s \in Slots : Complete(s)' <=> Complete(s)
  BY <1>2, SameComplete DEF Trapping, listVars
<1>6. FillInv'
  <2>1. ASSUME NEW d \in Cpus, at'[d] = "fill" PROVE Filled(d)'
    BY <1>2, <2>1 DEF FillInv, Filled, Trapping
  <2>2. ASSUME NEW d \in Cpus, NEW e \in Cpus,
               at'[d] = "fill", at'[e] = "fill", node'[d] = node'[e]
        PROVE  d = e
    BY <1>2, <2>2 DEF FillInv, Trapping
  <2>3. ASSUME NEW s \in Slots, Complete(s)' PROVE info'[s].read /\ info'[s].write
    BY <1>2, <1>5, <2>3 DEF FillInv
  <2>4. ASSUME NEW d \in Cpus, at'[d] = "flush", NEW p \in OfQueue(d)'
        PROVE  \E s \in Slots : Complete(s)' /\ Covers(s, p)'
    BY <1>2, <1>5, <2>4 DEF FillInv, Trapping, OfQueue, Covers
  <2> QED
    BY <2>1, <2>2, <2>3, <2>4 DEF FillInv
<1> QED
  BY <1>1, <1>3, <1>4, <1>6

\* The steps of pageunmap().
LEMMA UnmapBase == ASSUME Base, NEW c \in Cpus, Unmap(c) \/ Clear(c) PROVE Base'
<1> USE PageTrapAssumption, QueueRange DEF Base
<1>1. /\ at[c] \in {"unmap", "clear"} /\ queue[c] \in Queues /\ page[c] \in OfQueue(c)
      /\ queue[c] \in Nat /\ page[c] \in Ram /\ queue[c] + 1 # queue[c]
      /\ page[c] # queue[c] => page[c] = queue[c] + 1 /\ queue[c] \notin pte
  <2>1. /\ at[c] \in {"unmap", "clear"} /\ queue[c] \in Queues /\ page[c] \in OfQueue(c)
        /\ page[c] # queue[c] => queue[c] \notin pte
    BY DEF Unmap, Clear, TrapInv, Trapping
  <2>2. queue[c] \in Ram /\ queue[c] + 1 \in Ram
    BY <2>1
  <2>3. queue[c] \in Nat
    BY <2>2
  <2> QED
    BY <2>1, <2>2, <2>3 DEF OfQueue
<1>2. /\ UNCHANGED <<tlb, pmap, info, queue, node, wnr, todo, ready>>
      /\ at'[c] \in {"unmap", "clear", "register", "unmapped"}
      /\ \A d \in Cpus \ {c} : at'[d] = at[d] /\ page'[d] = page[d]
      /\ pte' \subseteq pte
  BY DEF TypeOK, Unmap, Clear, Goto, unmapVars, listVars
<1>3. /\ at' \in [Cpus -> {"guest", "unmap", "clear", "register", "fill", "flush",
                           "lookup", "unmapped", "nomem", "dabort"}]
      /\ page' \in [Cpus -> Aborts \cup {0}]
      /\ pool' \subseteq Ram
  <2>1. CASE Unmap(c)
    <3>1. pool' \in {pool, pool \cup {page[c]}} /\ page' = page
      BY <2>1 DEF Unmap
    <3>2. at' \in {[at EXCEPT ![c] = "clear"], [at EXCEPT ![c] = "unmapped"]}
      BY <2>1 DEF Unmap, Goto
    <3> QED
      BY <1>1, <3>1, <3>2 DEF TypeOK
  <2>2. CASE Clear(c)
    <3>1. page[c] # queue[c] + 1 => page[c] + 1 \in Ram
      BY <1>1, \A q \in Queues : q + 1 \in Ram DEF OfQueue
    <3>2. queue[c] + QueueLen - 1 = queue[c] + 1
      BY <1>1 DEF QueueLen
    <3> QED
      BY <2>2, <3>1, <3>2 DEF TypeOK, Clear, Goto, Aborts
  <2> QED
    BY <2>1, <2>2
<1>4. TypeOK'
  BY <1>2, <1>3 DEF TypeOK
<1>5. TrapInv'
  <2>1. ASSUME NEW d \in Cpus \ {c}
        PROVE  /\ at'[d] \in Trapping => queue'[d] \in Queues
               /\ at'[d] \in {"unmap", "clear"} =>
                    /\ page'[d] \in OfQueue(d)'
                    /\ page'[d] # queue'[d] => queue'[d] \notin pte'
               /\ at'[d] \in {"register", "fill", "flush", "nomem"} => OfQueue(d)' \cap pte' = {}
               /\ at'[d] = "fill" => node'[d] \in Slots
    BY <1>2 DEF TrapInv, OfQueue
  <2>2. CASE Unmap(c)
    BY <1>1, <1>2, <2>1, <2>2 DEF TrapInv, OfQueue, Unmap, Goto, TypeOK
  <2>3. CASE Clear(c)
    <3>1. pte' = pte \ {page[c]}
      BY <2>3 DEF Clear
    <3>2. queue[c] + QueueLen - 1 = queue[c] + 1
      BY <1>1 DEF QueueLen
    <3>3. CASE page[c] = queue[c] + 1
      <4>1. at'[c] = "register"
        BY <2>3, <3>2, <3>3 DEF Clear, Goto, TypeOK
      <4>2. OfQueue(c)' \cap pte' = {}
        BY <1>1, <1>2, <3>1, <3>3 DEF OfQueue
      <4> QED
        BY <1>1, <1>2, <2>1, <4>1, <4>2 DEF TrapInv
    <3>4. CASE page[c] = queue[c]
      <4>1. at'[c] = "unmap" /\ page'[c] = queue[c] + 1
        BY <1>1, <2>3, <3>2, <3>4 DEF Clear, Goto, TypeOK
      <4> QED
        BY <1>1, <1>2, <2>1, <3>1, <3>4, <4>1 DEF TrapInv, OfQueue
    <3> QED
      BY <1>1, <3>3, <3>4 DEF OfQueue
  <2> QED
    BY <2>2, <2>3
<1>6. ListInv'
  BY <1>2 DEF ListInv
<1>7. FillInv'
  <2>1. \A d \in Cpus : at'[d] \in {"fill", "flush"} <=> at[d] \in {"fill", "flush"}
    BY <1>1, <1>2
  <2>2. \A d \in Cpus : at'[d] \in {"fill", "flush"} => at'[d] = at[d]
    BY <1>1, <1>2
  <2>3. \A s \in Slots : Complete(s)' <=> Complete(s)
    BY <1>2, <2>1, <2>2, SameComplete DEF listVars
  <2> QED
    BY <1>2, <2>1, <2>2, <2>3 DEF FillInv, Filled, OfQueue, Covers
<1> QED
  BY <1>4, <1>5, <1>6, <1>7

\* The first free slot is the one after the head.
LEMMA NextSlot ==
  ASSUME Base, NEW s \in FreeSlots, FirstFree(s)
  PROVE  /\ s \in Slots /\ s = pmap + 1 /\ s \in Nat /\ pmap \in Nat
         /\ info[s] = Unused
<1> USE PageTrapAssumption DEF Slots
<1>1. s \in Slots /\ info[s].size = 0 /\ pmap \in Slots /\ pmap \in Nat /\ s \in Nat
  BY DEF FreeSlots, Base, ListInv
<1>2. pmap < s
  BY <1>1 DEF Base, ListInv
<1>3. pmap + 1 \in Slots
  BY <1>1, <1>2
<1>4. info[pmap + 1].size = 0
  <2>1. info[pmap + 1] = Unused
    BY <1>1, <1>3 DEF Base, ListInv
  <2> QED
    BY <2>1 DEF Unused
<1>5. s <= pmap + 1
  BY <1>3, <1>4 DEF FreeSlots, FirstFree
<1>6. s = pmap + 1
  BY <1>1, <1>2, <1>5
<1> QED
  BY <1>1, <1>2, <1>6 DEF Base, ListInv

\* A new node is put before the head; its handlers are not there yet.
LEMMA RegisterBase == ASSUME Base, NEW c \in Cpus, Register(c) PROVE Base'
<1> USE PageTrapAssumption
<1>0. /\ at[c] = "register" /\ queue[c] \in Queues /\ OfQueue(c) \cap pte = {}
      /\ UNCHANGED <<pte, pool, tlb, queue, page, wnr, ready>>
  BY DEF Register, unmapVars, Base, TrapInv, Trapping
<1>1. CASE FreeSlots = {} /\ Goto(c, "nomem") /\ UNCHANGED <<listVars, node, todo>>
  <2>1. TypeOK'
    BY <1>0, <1>1 DEF Base, TypeOK, Goto, listVars
  <2>2. TrapInv'
    BY <1>0, <1>1 DEF Base, TypeOK, TrapInv, Goto, OfQueue, Trapping
  <2>3. ListInv'
    BY <1>1 DEF Base, ListInv, listVars
  <2>4. FillInv'
    <3>1. \A d \in Cpus : at'[d] \in {"fill", "flush"} <=> at[d] \in {"fill", "flush"}
      BY <1>0, <1>1 DEF Base, TypeOK, Goto
    <3>2. \A d \in Cpus : at'[d] \in {"fill", "flush"} => at'[d] = at[d]
      BY <1>0, <1>1 DEF Base, TypeOK, Goto
    <3>3. \A s \in Slots : Complete(s)' <=> Complete(s)
      BY <1>1, <3>1, <3>2, SameComplete DEF listVars
    <3> QED
      BY <1>0, <1>1, <3>1, <3>2, <3>3
      DEF Base, FillInv, Filled, OfQueue, Covers, listVars
  <2> QED
    BY <2>1, <2>2, <2>3, <2>4 DEF Base
<1>2. ASSUME NEW s \in FreeSlots, FirstFree(s),
             info' = [info EXCEPT ![s] = [@ EXCEPT !.size = 1, !.next = Link(s)]],
             pmap' = s, node' = [node EXCEPT ![c] = s],
             todo' = [todo EXCEPT ![c] = Fields], Goto(c, "fill")
      PROVE  Base'
  <2>1. s \in Slots /\ s = pmap + 1 /\ s \in Nat /\ pmap \in Nat /\ info[s] = Unused
    BY <1>2, NextSlot
  <2>2. /\ info'[s].next = pmap /\ info'[s].base = 0 /\ info'[s].size = 1
        /\ ~ info'[s].read /\ ~ info'[s].write
        /\ info'[s] \in MmioInfo
        /\ \A r \in Slots \ {s} : info'[r] = info[r]
        /\ \A r \in Slots : r # s => (r <= s <=> r <= pmap)
    <3>1. info'[s] = [info[s] EXCEPT !.size = 1, !.next = pmap]
      BY <1>2, <2>1 DEF Base, TypeOK, Link
    <3>2. /\ info'[s].next = pmap /\ info'[s].base = 0 /\ info'[s].size = 1
          /\ ~ info'[s].read /\ ~ info'[s].write
      BY <2>1, <3>1 DEF Unused
    <3>3. \A r \in Slots \ {s} : info'[r] = info[r]
      BY <1>2 DEF Base, TypeOK
    <3>4. \A r \in Slots : r # s => (r <= s <=> r <= pmap)
      BY <2>1 DEF Slots
    <3>5. info[s] \in MmioInfo
      BY <2>1 DEF Base, TypeOK
    <3>6. info'[s] \in MmioInfo
      <4>1. pmap \in Slots \cup {Nil} /\ 1 \in 0 .. QueueLen
        BY DEF Base, ListInv, QueueLen
      <4> QED
        BY <3>1, <3>5, <4>1 DEF MmioInfo
    <3> QED
      BY <3>2, <3>3, <3>4, <3>6
  <2>3. /\ at'[c] = "fill" /\ node'[c] = s /\ todo'[c] = Fields
        /\ \A d \in Cpus \ {c} : at'[d] = at[d] /\ node'[d] = node[d] /\ todo'[d] = todo[d]
    BY <1>2 DEF Base, TypeOK, Goto
  <2>4. TypeOK'
    <3>2. info' = [info EXCEPT ![s] = info'[s]]
      BY <1>2, <2>1 DEF Base, TypeOK
    <3>3. info' \in [Slots -> MmioInfo]
      BY <2>1, <2>2, <3>2 DEF Base, TypeOK
    <3>4. at' \in [Cpus -> {"guest", "unmap", "clear", "register", "fill", "flush", "lookup",
                            "unmapped", "nomem", "dabort"}]
      BY <1>2 DEF Base, TypeOK, Goto
    <3> QED
      BY <1>0, <1>2, <2>1, <3>3, <3>4 DEF Base, TypeOK
  <2>5. TrapInv'
    BY <1>0, <2>1, <2>3 DEF Base, TrapInv, OfQueue, Trapping
  <2>6. ListInv'
    <3>1. ASSUME NEW r \in Slots
          PROVE  /\ r <= s => info'[r].size # 0 /\ info'[r].next = IF r = 0 THEN Nil ELSE r - 1
                 /\ s < r => info'[r] = Unused
      <4>1. CASE r = s
        BY <2>1, <2>2, <4>1
      <4>2. CASE r # s
        <5>1. r \in Nat
          BY DEF Slots
        <5> QED
          BY <2>1, <2>2, <4>2, <5>1 DEF Base, ListInv
      <4> QED
        BY <4>1, <4>2
    <3> QED
      BY <1>2, <2>1, <3>1 DEF ListInv
  <2>7. ASSUME NEW d \in Cpus, at[d] = "fill"
        PROVE  node[d] \in Slots /\ node[d] # s /\ d # c
    <3>1. node[d] \in Slots /\ node[d] <= pmap
      BY <2>7 DEF Base, TrapInv, FillInv, Filled
    <3>2. node[d] # s
      BY <2>1, <3>1 DEF Slots
    <3> QED
      BY <1>0, <2>7, <3>1, <3>2
  <2>8. /\ ~ Complete(s) /\ ~ Complete(s)'
        /\ \A r \in Slots \ {s} : Complete(r)' <=> Complete(r)
    <3>1. ~ Complete(s) /\ ~ Complete(s)'
      BY <2>1, <2>3 DEF Complete, Filling
    <3>2. ASSUME NEW r \in Slots \ {s} PROVE Complete(r)' <=> Complete(r)
      <4>1. Filling(r)' <=> Filling(r)
        BY <1>0, <2>3, <2>7 DEF Filling
      <4> QED
        BY <1>2, <2>2, <4>1 DEF Complete
    <3> QED
      BY <3>1, <3>2
  <2>9. FillInv'
    <3>1. ASSUME NEW d \in Cpus, at'[d] = "fill" PROVE Filled(d)'
      <4>1. CASE d = c
        <5>1. node'[d] = s /\ todo'[d] = Fields /\ s <= pmap'
          BY <1>2, <2>1, <2>3, <4>1
        <5> QED
          BY <2>2, <5>1 DEF Filled, Fields
      <4>2. CASE d # c
        <5>1. Filled(d) /\ node[d] \in Slots /\ node[d] # s
          BY <2>3, <2>7, <3>1, <4>2 DEF Base, FillInv
        <5>2. info'[node[d]] = info[node[d]] /\ node[d] <= pmap'
          BY <1>2, <2>1, <2>2, <5>1 DEF Filled, Slots
        <5> QED
          BY <1>0, <2>3, <4>2, <5>1, <5>2 DEF Filled
      <4> QED
        BY <4>1, <4>2
    <3>2. ASSUME NEW d \in Cpus, NEW e \in Cpus,
                 at'[d] = "fill", at'[e] = "fill", node'[d] = node'[e]
          PROVE  d = e
      BY <2>3, <2>7, <3>2 DEF Base, FillInv
    <3>3. ASSUME NEW r \in Slots, Complete(r)' PROVE info'[r].read /\ info'[r].write
      BY <2>2, <2>8, <3>3 DEF Base, FillInv
    <3>4. ASSUME NEW d \in Cpus, at'[d] = "flush", NEW p \in OfQueue(d)'
          PROVE  \E r \in Slots : Complete(r)' /\ Covers(r, p)'
      <4>1. at[d] = "flush" /\ p \in OfQueue(d)
        BY <1>0, <2>3, <3>4 DEF OfQueue
      <4>2. PICK r \in Slots : Complete(r) /\ Covers(r, p)
        BY <4>1 DEF Base, FillInv
      <4>3. r # s
        BY <2>8, <4>2
      <4> QED
        BY <2>2, <2>8, <4>2, <4>3 DEF Covers
    <3> QED
      BY <3>1, <3>2, <3>3, <3>4 DEF FillInv
  <2> QED
    BY <2>4, <2>5, <2>6, <2>9 DEF Base
<1> QED
  BY <1>1, <1>2 DEF Register

\* One of the stores of the fields.
StoreAny(c) == StoreBase(c) \/ StoreSize(c) \/ StoreRead(c) \/ StoreWrite(c)

\* A CPU stores one field of its node: nothing else changes, and the node is
\* complete after the last.
LEMMA StoreFrame ==
  ASSUME Base, NEW c \in Cpus, StoreAny(c)
  PROVE  LET n == node[c] IN
         /\ UNCHANGED <<pte, pool, tlb, pmap, queue, page, node, wnr, ready>>
         /\ at[c] = "fill" /\ n \in Slots /\ n <= pmap
         /\ queue[c] \in Queues /\ OfQueue(c) \cap pte = {}
         /\ todo'[c] \subseteq todo[c] /\ todo'[c] \in SUBSET Fields
         /\ \A d \in Cpus \ {c} : at'[d] = at[d] /\ todo'[d] = todo[d]
         /\ \A r \in Slots \ {n} : info'[r] = info[r]
         /\ info' \in [Slots -> MmioInfo]
         /\ info'[n].next = info[n].next /\ info'[n].size # 0
         /\ info'[n].base = IF "base" \in todo'[c] THEN 0 ELSE queue[c]
         /\ info'[n].size = IF "size" \in todo'[c] THEN 1 ELSE QueueLen
         /\ info'[n].read <=> "read" \notin todo'[c]
         /\ info'[n].write <=> "write" \notin todo'[c]
         /\ at'[c] = IF todo'[c] = {} THEN "flush" ELSE "fill"
<1> USE PageTrapAssumption
<1> DEFINE n == node[c]
<1>0. PICK f \in Fields : /\ Store(c, f) /\ info' \in [Slots -> MmioInfo]
                          /\ \A r \in Slots \ {n} : info'[r] = info[r]
                          /\ f = "base" => info'[n] = [info[n] EXCEPT !.base = queue[c]]
                          /\ f = "size" => info'[n] = [info[n] EXCEPT !.size = QueueLen]
                          /\ f = "read" => info'[n] = [info[n] EXCEPT !.read = TRUE]
                          /\ f = "write" => info'[n] = [info[n] EXCEPT !.write = TRUE]
  <2>1. at[c] = "fill" /\ n \in Slots /\ queue[c] \in Ram /\ info[n] \in MmioInfo
    <3>1. at[c] = "fill"
      BY DEF StoreAny, StoreBase, StoreSize, StoreRead, StoreWrite, Store
    <3>2. n \in Slots /\ queue[c] \in Queues
      BY <3>1 DEF Base, TrapInv, Trapping
    <3> QED
      BY <3>1, <3>2, QueueRange DEF Base, TypeOK
  <2>2. QueueLen \in 0 .. QueueLen
    BY DEF QueueLen
  <2>3. ASSUME NEW v \in MmioInfo, info' = [info EXCEPT ![n] = v]
        PROVE  /\ info' \in [Slots -> MmioInfo] /\ info'[n] = v
               /\ \A r \in Slots \ {n} : info'[r] = info[r]
    BY <2>1, <2>3 DEF Base, TypeOK
  <2>4. CASE StoreBase(c)
    <3>1. [info[n] EXCEPT !.base = queue[c]] \in MmioInfo
      BY <2>1 DEF MmioInfo, Aborts
    <3> QED
      BY <2>3, <2>4, <3>1 DEF StoreBase, Fields
  <2>5. CASE StoreSize(c)
    <3>1. [info[n] EXCEPT !.size = QueueLen] \in MmioInfo
      BY <2>1, <2>2 DEF MmioInfo
    <3> QED
      BY <2>3, <2>5, <3>1 DEF StoreSize, Fields
  <2>6. CASE StoreRead(c)
    <3>1. [info[n] EXCEPT !.read = TRUE] \in MmioInfo
      BY <2>1 DEF MmioInfo
    <3> QED
      BY <2>3, <2>6, <3>1 DEF StoreRead, Fields
  <2>7. CASE StoreWrite(c)
    <3>1. [info[n] EXCEPT !.write = TRUE] \in MmioInfo
      BY <2>1 DEF MmioInfo
    <3> QED
      BY <2>3, <2>7, <3>1 DEF StoreWrite, Fields
  <2> QED
    BY <2>4, <2>5, <2>6, <2>7 DEF StoreAny
<1>1. at[c] = "fill" /\ f \in todo[c] /\ n \in Slots /\ queue[c] \in Queues
      /\ OfQueue(c) \cap pte = {} /\ Filled(c) /\ n <= pmap
  BY <1>0 DEF Store, Base, TrapInv, FillInv, Trapping, Filled
<1>2. /\ UNCHANGED <<pte, pool, tlb, pmap, queue, page, node, wnr, ready>>
      /\ todo'[c] = todo[c] \ {f}
      /\ \A d \in Cpus \ {c} : at'[d] = at[d] /\ todo'[d] = todo[d]
      /\ at'[c] = IF todo'[c] = {} THEN "flush" ELSE "fill"
  BY <1>0, <1>1 DEF Store, Goto, unmapVars, Base, TypeOK
<1>3. info[n] \in MmioInfo /\ info[n].size # 0
  BY <1>1 DEF Base, TypeOK, ListInv
<1>4. /\ info'[n].next = info[n].next
      /\ info'[n].base = IF f = "base" THEN queue[c] ELSE info[n].base
      /\ info'[n].size = IF f = "size" THEN QueueLen ELSE info[n].size
      /\ info'[n].read = IF f = "read" THEN TRUE ELSE info[n].read
      /\ info'[n].write = IF f = "write" THEN TRUE ELSE info[n].write
  <2>1. DOMAIN info[n] = {"next", "base", "size", "read", "write"}
    BY <1>3 DEF MmioInfo
  <2>2. CASE f = "base"
    BY <1>0, <2>1, <2>2
  <2>3. CASE f = "size"
    BY <1>0, <2>1, <2>3
  <2>4. CASE f = "read"
    BY <1>0, <2>1, <2>4
  <2>5. CASE f = "write"
    BY <1>0, <2>1, <2>5
  <2> QED
    BY <2>2, <2>3, <2>4, <2>5 DEF Fields
<1>5. /\ info'[n].base = IF "base" \in todo'[c] THEN 0 ELSE queue[c]
      /\ info'[n].size = IF "size" \in todo'[c] THEN 1 ELSE QueueLen
      /\ info'[n].read <=> "read" \notin todo'[c]
      /\ info'[n].write <=> "write" \notin todo'[c]
      /\ info'[n].size # 0
  BY <1>1, <1>2, <1>4 DEF Filled, QueueLen
<1>6. todo'[c] \subseteq todo[c] /\ todo'[c] \in SUBSET Fields
  BY <1>2 DEF Base, TypeOK
<1>7. info' \in [Slots -> MmioInfo] /\ \A r \in Slots \ {n} : info'[r] = info[r]
  BY <1>0
<1>8. info'[n].next = info[n].next
  BY <1>4
<1> HIDE DEF n
<1> QED
  BY <1>1, <1>2, <1>5, <1>6, <1>7, <1>8 DEF n

LEMMA StoreBaseInv == ASSUME Base, NEW c \in Cpus, StoreAny(c) PROVE Base'
<1> USE PageTrapAssumption, QueueRange
<1> DEFINE n == node[c]
<1>1. /\ UNCHANGED <<pte, pool, tlb, pmap, queue, page, node, wnr, ready>>
      /\ at[c] = "fill" /\ n \in Slots /\ n <= pmap
      /\ queue[c] \in Queues /\ OfQueue(c) \cap pte = {}
      /\ todo'[c] \subseteq todo[c] /\ todo'[c] \in SUBSET Fields
      /\ \A d \in Cpus \ {c} : at'[d] = at[d] /\ todo'[d] = todo[d]
      /\ \A r \in Slots \ {n} : info'[r] = info[r]
      /\ info' \in [Slots -> MmioInfo]
      /\ info'[n].next = info[n].next /\ info'[n].size # 0
      /\ info'[n].base = IF "base" \in todo'[c] THEN 0 ELSE queue[c]
      /\ info'[n].size = IF "size" \in todo'[c] THEN 1 ELSE QueueLen
      /\ info'[n].read <=> "read" \notin todo'[c]
      /\ info'[n].write <=> "write" \notin todo'[c]
      /\ at'[c] = IF todo'[c] = {} THEN "flush" ELSE "fill"
  BY StoreFrame
<1>2. at'[c] \in {"fill", "flush"}
  BY <1>1
<1>3. TypeOK'
  <2>1. at' \in [Cpus -> {"guest", "unmap", "clear", "register", "fill", "flush", "lookup",
                          "unmapped", "nomem", "dabort"}]
        /\ todo' \in [Cpus -> SUBSET Fields]
    <3>1. PICK f : Store(c, f)
      BY DEF StoreAny, StoreBase, StoreSize, StoreRead, StoreWrite
    <3> QED
      BY <3>1 DEF Store, Goto, Base, TypeOK
  <2> QED
    BY <1>1, <2>1 DEF Base, TypeOK
<1>4. TrapInv'
  BY <1>1, <1>2 DEF Base, TrapInv, OfQueue, Trapping
<1>5. ListInv'
  <2>1. ASSUME NEW r \in Slots
        PROVE  /\ r <= pmap => info'[r].size # 0 /\ info'[r].next = IF r = 0 THEN Nil ELSE r - 1
               /\ pmap < r => info'[r] = Unused
    <3>1. CASE r = n
      <4>1. ~ pmap < r
        BY <1>1, <3>1 DEF Base, ListInv, Slots
      <4> QED
        BY <1>1, <3>1, <4>1 DEF Base, ListInv
    <3>2. CASE r # n
      BY <1>1, <3>2 DEF Base, ListInv
    <3> QED
      BY <3>1, <3>2
  <2> QED
    BY <1>1, <2>1 DEF Base, ListInv
<1>6. \A d \in Cpus \ {c} : at[d] = "fill" => node[d] \in Slots \ {n}
  BY <1>1 DEF Base, TrapInv, FillInv
<1>7. /\ ~ Complete(n)
      /\ Complete(n)' <=> at'[c] = "flush"
      /\ \A r \in Slots \ {n} : Complete(r)' <=> Complete(r)
  <2>1. Filling(n) /\ (Filling(n)' <=> at'[c] = "fill")
    BY <1>1, <1>6 DEF Filling
  <2>2. \A r \in Slots \ {n} : Filling(r)' <=> Filling(r)
    BY <1>1 DEF Filling
  <2> QED
    BY <1>1, <1>2, <2>1, <2>2 DEF Complete
<1>8. FillInv'
  <2>1. ASSUME NEW d \in Cpus, at'[d] = "fill" PROVE Filled(d)'
    <3>1. CASE d = c
      BY <1>1, <3>1 DEF Filled
    <3>2. CASE d # c
      <4>1. at[d] = "fill" /\ Filled(d) /\ info'[node[d]] = info[node[d]]
        BY <1>1, <1>6, <2>1, <3>2 DEF Base, FillInv
      <4> QED
        BY <1>1, <3>2, <4>1 DEF Filled
    <3> QED
      BY <3>1, <3>2
  <2>2. ASSUME NEW d \in Cpus, NEW e \in Cpus,
               at'[d] = "fill", at'[e] = "fill", node'[d] = node'[e]
        PROVE  d = e
    BY <1>1, <2>2 DEF Base, FillInv
  <2>3. ASSUME NEW r \in Slots, Complete(r)' PROVE info'[r].read /\ info'[r].write
    <3>1. CASE r = n
      BY <1>1, <1>7, <2>3, <3>1
    <3>2. CASE r # n
      BY <1>1, <1>7, <2>3, <3>2 DEF Base, FillInv
    <3> QED
      BY <3>1, <3>2
  <2>4. ASSUME NEW d \in Cpus, at'[d] = "flush", NEW p \in OfQueue(d)'
        PROVE  \E r \in Slots : Complete(r)' /\ Covers(r, p)'
    <3>1. CASE d = c
      <4>1. Complete(n)' /\ todo'[c] = {}
        BY <1>1, <1>7, <2>4, <3>1
      <4>2. p = queue[c] \/ p = queue[c] + 1
        BY <1>1, <3>1 DEF OfQueue
      <4>3. queue[c] \in Nat
        BY <1>1
      <4>4. Covers(n, p)'
        BY <1>1, <4>1, <4>2, <4>3 DEF Covers, QueueLen
      <4> QED
        BY <1>1, <4>1, <4>4
    <3>2. CASE d # c
      <4>1. at[d] = "flush" /\ p \in OfQueue(d)
        BY <1>1, <2>4, <3>2 DEF OfQueue
      <4>2. PICK r \in Slots : Complete(r) /\ Covers(r, p)
        BY <4>1 DEF Base, FillInv
      <4>3. r # n
        BY <1>7, <4>2
      <4> QED
        BY <1>1, <1>7, <4>2, <4>3 DEF Covers
    <3> QED
      BY <3>1, <3>2
  <2> QED
    BY <2>1, <2>2, <2>3, <2>4 DEF FillInv
<1> QED
  BY <1>3, <1>4, <1>5, <1>8 DEF Base

LEMMA FlushBase == ASSUME Base, NEW c \in Cpus, Flush(c) PROVE Base'
<1> USE PageTrapAssumption, QueueRange
<1>1. /\ UNCHANGED <<pte, pool, pmap, info, queue, page, node, wnr, todo>>
      /\ at[c] = "flush" /\ at'[c] = "guest" /\ queue[c] \in Queues
      /\ \A d \in Cpus \ {c} : at'[d] = at[d]
  BY DEF Flush, Goto, unmapVars, listVars, Base, TypeOK, TrapInv, Trapping
<1>2. TypeOK'
  <2>1. ready' \in [Cpus -> SUBSET QueuePages]
    <3>1. OfQueue(c) \subseteq QueuePages
      BY <1>1 DEF OfQueue
    <3> QED
      BY <3>1 DEF Flush, Base, TypeOK
  <2>2. tlb' \in [Cpus -> SUBSET Ram]
    BY DEF Flush, Flushed, Base, TypeOK
  <2>3. at' \in [Cpus -> {"guest", "unmap", "clear", "register", "fill", "flush", "lookup",
                          "unmapped", "nomem", "dabort"}]
    BY DEF Flush, Goto, Base, TypeOK
  <2> QED
    BY <1>1, <2>1, <2>2, <2>3 DEF Base, TypeOK
<1>3. TrapInv'
  BY <1>1 DEF Base, TrapInv, OfQueue, Trapping
<1>4. ListInv'
  BY <1>1 DEF Base, ListInv
<1>5. \A r \in Slots : Complete(r)' <=> Complete(r)
  <2>1. \A d \in Cpus : at'[d] = "fill" <=> at[d] = "fill"
    BY <1>1
  <2> QED
    BY <1>1, <2>1, SameComplete DEF listVars
<1>6. \A d \in Cpus : at'[d] \in {"fill", "flush"} => at'[d] = at[d]
  BY <1>1
<1>7. FillInv'
  BY <1>1, <1>5, <1>6 DEF Base, FillInv, Filled, OfQueue, Covers
<1> QED
  BY <1>2, <1>3, <1>4, <1>7 DEF Base

LEMMA BaseStep == ASSUME Base, [Next]_vars PROVE Base'
<1>1. CASE UNCHANGED vars
  BY <1>1 DEF vars, Base, TypeOK, TrapInv, ListInv, FillInv, Filled, Complete, Filling, OfQueue, Covers
<1>2. ASSUME NEW c \in Cpus, Guest(c) \/ Lookup(c) \/ Trap(c) PROVE Base'
  BY <1>2, GuestBase, UnmapBase, RegisterBase, StoreBaseInv, FlushBase DEF Trap, StoreAny
<1> QED
  BY <1>1, <1>2 DEF Next

-----------------------------------------------------------------------------
(* What a CPU reaches through its TLB, whatever the guests do.               *)

\* p is a page of a queue that is set up, or of one being set up.
IsDone(p) == \E c \in Cpus : p \in ready[c]
IsBusy(p) == \E c \in Cpus : at[c] \in Trapping /\ p \in OfQueue(c)

LEMMA DoneBusy == /\ \A p : p \in Done <=> IsDone(p)
                  /\ \A p : p \in Busy <=> IsBusy(p)
BY DEF Done, Busy, IsDone, IsBusy

\* A step of c changes nothing that belongs to another CPU.
LEMMA OthersStay ==
  ASSUME TypeOK, NEW c \in Cpus, Guest(c) \/ Lookup(c) \/ Trap(c), NEW d \in Cpus \ {c}
  PROVE  /\ at'[d] = at[d] /\ queue'[d] = queue[d] /\ page'[d] = page[d]
         /\ node'[d] = node[d] /\ wnr'[d] = wnr[d] /\ tlb'[d] = tlb[d]
         /\ todo'[d] = todo[d] /\ ready'[d] = ready[d]
<1> USE DEF TypeOK, Goto, unmapVars, listVars
<1>1. CASE Guest(c)
  BY <1>1 DEF Guest, Fill, Evict, Abort, SetQueue
<1>2. CASE Lookup(c)
  BY <1>2 DEF Lookup, LookupNext, LookupHit
<1>3. CASE Unmap(c) \/ Clear(c) \/ Register(c)
  BY <1>3 DEF Unmap, Clear, Register
<1>4. CASE StoreAny(c)
  BY <1>4 DEF StoreAny, StoreBase, StoreSize, StoreRead, StoreWrite, Store
<1>5. CASE Flush(c)
  BY <1>5 DEF Flush
<1> QED
  BY <1>1, <1>2, <1>3, <1>4, <1>5 DEF Trap, StoreAny

\* Stage 2 only loses pages; a TLB takes in what stage 2 maps; and only the
\* flush adds to what is ready.
LEMMA ReachFrame ==
  ASSUME TypeOK, NEW c \in Cpus, Guest(c) \/ Lookup(c) \/ Trap(c)
  PROVE  /\ pte' \subseteq pte
         /\ \A p \in tlb'[c] : p \in tlb[c] \/ p \in pte
         /\ ~ Flush(c) => ready' = ready
<1> USE DEF TypeOK, unmapVars, listVars
<1>1. ASSUME NEW p \in Ram, Fill(c, p) \/ Evict(c, p)
      PROVE  /\ UNCHANGED <<pte, ready>>
             /\ \A r \in tlb'[c] : r \in tlb[c] \/ r \in pte
  BY <1>1 DEF Fill, Evict
<1>2. CASE Guest(c) /\ UNCHANGED tlb
  BY <1>2 DEF Guest, Fill, Evict, Abort, SetQueue
<1>3. Guest(c) => UNCHANGED tlb \/ \E p \in Ram : Fill(c, p) \/ Evict(c, p)
  BY DEF Guest, Abort, SetQueue
<1>4. CASE Lookup(c)
  BY <1>4 DEF Lookup, LookupNext, LookupHit
<1>5. CASE Unmap(c) \/ Clear(c) \/ Register(c)
  BY <1>5 DEF Unmap, Clear, Register
<1>6. CASE StoreAny(c)
  BY <1>6 DEF StoreAny, StoreBase, StoreSize, StoreRead, StoreWrite, Store
<1>7. CASE Flush(c)
  BY <1>7 DEF Flush, Flushed
<1> QED
  BY <1>1, <1>2, <1>3, <1>4, <1>5, <1>6, <1>7 DEF Trap, StoreAny

\* What pagetrap() on c has given away is in neither stage 2 nor the TLB of c.
ReachInv == \A c \in Cpus : ready[c] \cap pte = {} /\ ready[c] \cap tlb[c] = {}

LEMMA ReachStep == ASSUME Base, ReachInv, [Next]_vars PROVE ReachInv'
<1>1. CASE UNCHANGED vars
  BY <1>1 DEF vars, ReachInv
<1>2. ASSUME NEW c \in Cpus, Guest(c) \/ Lookup(c) \/ Trap(c) PROVE ReachInv'
  <2>1. /\ pte' \subseteq pte
        /\ \A p \in tlb'[c] : p \in tlb[c] \/ p \in pte
        /\ ~ Flush(c) => ready' = ready
    BY <1>2, ReachFrame DEF Base
  <2>2. \A d \in Cpus \ {c} : tlb'[d] = tlb[d] /\ ready'[d] = ready[d]
    BY <1>2, OthersStay DEF Base
  <2>3. CASE Flush(c)
    <3>1. /\ tlb'[c] = {} /\ ready'[c] = ready[c] \cup OfQueue(c)
          /\ OfQueue(c) \cap pte = {}
      BY <2>3 DEF Flush, Flushed, Base, TypeOK, TrapInv
    <3> QED
      BY <2>1, <2>2, <3>1 DEF ReachInv
  <2>4. CASE ~ Flush(c)
    BY <2>1, <2>2, <2>4 DEF ReachInv
  <2> QED
    BY <2>3, <2>4
<1> QED
  BY <1>1, <1>2 DEF Next

LEMMA InitReach == Init => ReachInv
BY DEF Init, ReachInv

-----------------------------------------------------------------------------
(* Guests that leave a queue alone while it is set up: who sets up which     *)
(* page, and what a lookup finds.                                            *)

\* A CPU in pagetrap() has the pages to itself, and for the first time.
TakenInv == \A c \in Cpus : at[c] \in Trapping =>
  /\ \A p \in OfQueue(c) : ~ IsDone(p)
  /\ \A d \in Cpus \ {c} : at[d] \in Trapping => OfQueue(c) \cap OfQueue(d) = {}

\* A page that stage 2 has lost is ready, or some CPU is in pagetrap() for it.
GoneInv == \A p \in Ram : p \notin pte => IsDone(p) \/ IsBusy(p)

\* What has been trapped has a node with its handlers, and a lookup has not
\* gone past it.
ReadyInv == \A p \in QueuePages \cup {Dev} :
  IsDone(p) \/ p = Dev => \E s \in Slots : Complete(s) /\ Covers(s, p)

LookupInv == \A c \in Cpus : at[c] = "lookup" =>
  /\ page[c] \in Aborts /\ (IsDone(page[c]) \/ page[c] = Dev)
  /\ node[c] \in Slots /\ node[c] <= pmap
  /\ \E s \in Slots : s <= node[c] /\ Complete(s) /\ Covers(s, page[c])

QuietInv == Base /\ ReachInv /\ TakenInv /\ GoneInv /\ ReadyInv /\ LookupInv /\ NoUnexpectedAbort

LEMMA InitQuiet == ASSUME Init PROVE QuietInv
<1>1. Base /\ ReachInv
  BY InitBase, InitReach
<1>2. TakenInv /\ GoneInv /\ LookupInv /\ NoUnexpectedAbort
  BY DEF Init, TakenInv, Trapping, GoneInv, LookupInv, NoUnexpectedAbort
<1>3. ReadyInv
  <2>1. 0 \in Slots /\ Complete(0) /\ Covers(0, Dev)
    BY PageTrapAssumption DEF Init, Slots, Complete, Filling, Covers
  <2> QED
    BY <2>1 DEF Init, ReadyInv, IsDone
<1> QED
  BY <1>1, <1>2, <1>3 DEF QuietInv

\* A complete node is never touched again.
LEMMA CompleteStays ==
  ASSUME Base, NEW c \in Cpus, Guest(c) \/ Lookup(c) \/ Trap(c)
  PROVE  /\ pmap' \in Nat /\ pmap \in Nat /\ pmap <= pmap'
         /\ \A s \in Slots : Complete(s) => Complete(s)' /\ info'[s] = info[s]
<1> USE PageTrapAssumption
<1>0. pmap \in Nat /\ pmap \in Slots
  BY DEF Base, ListInv, Slots
<1>1. ASSUME UNCHANGED listVars, at'[c] # "fill" \/ (at[c] = "fill" /\ node'[c] = node[c])
      PROVE  /\ pmap' \in Nat /\ pmap \in Nat /\ pmap <= pmap'
             /\ \A s \in Slots : Complete(s) => Complete(s)' /\ info'[s] = info[s]
  <2>1. \A d \in Cpus : at'[d] = "fill" => at[d] = "fill" /\ node'[d] = node[d]
    BY <1>1, OthersStay DEF Base
  <2>2. \A s : Filling(s)' => Filling(s)
    BY <2>1 DEF Filling
  <2> QED
    BY <1>0, <1>1, <2>2 DEF listVars, Complete
<1>2. CASE Register(c)
  <2>1. ASSUME NEW s \in FreeSlots, FirstFree(s), pmap' = s, node'[c] = s,
               info' = [info EXCEPT ![s] = [@ EXCEPT !.size = 1, !.next = Link(s)]]
        PROVE  /\ pmap' \in Nat /\ pmap <= pmap'
               /\ \A r \in Slots : Complete(r) => Complete(r)' /\ info'[r] = info[r]
    <3>1. s \in Slots /\ s = pmap + 1 /\ s \in Nat
      BY <2>1, NextSlot
    <3>2. \A r \in Slots \ {s} : info'[r] = info[r]
      BY <2>1 DEF Base, TypeOK
    <3>3. \A r \in Slots : Complete(r) => r # s /\ r <= s
      BY <1>0, <3>1 DEF Complete, Slots
    <3>4. \A r \in Slots \ {s} : Filling(r)' => Filling(r)
      <4>1. \A d \in Cpus \ {c} : at'[d] = at[d] /\ node'[d] = node[d]
        BY OthersStay DEF Base
      <4> QED
        BY <2>1, <4>1 DEF Filling
    <3> QED
      BY <1>0, <2>1, <3>1, <3>2, <3>3, <3>4 DEF Complete
  <2>2. at[c] = "register" /\ at' \in {[at EXCEPT ![c] = "nomem"], [at EXCEPT ![c] = "fill"]}
    BY <1>2 DEF Register, Goto
  <2>3. CASE FreeSlots = {} /\ Goto(c, "nomem") /\ UNCHANGED <<listVars, node, todo>>
    BY <1>1, <2>3 DEF Goto, Base, TypeOK
  <2>4. CASE ~ (FreeSlots = {} /\ Goto(c, "nomem") /\ UNCHANGED <<listVars, node, todo>>)
    <3>1. PICK s \in FreeSlots :
            /\ FirstFree(s) /\ pmap' = s /\ node' = [node EXCEPT ![c] = s]
            /\ info' = [info EXCEPT ![s] = [@ EXCEPT !.size = 1, !.next = Link(s)]]
      BY <1>2, <2>4 DEF Register
    <3>2. node'[c] = s
      BY <3>1 DEF Base, TypeOK
    <3> QED
      BY <1>0, <2>1, <3>1, <3>2
  <2> QED
    BY <2>3, <2>4
<1>3. CASE StoreAny(c)
  <2>1. /\ UNCHANGED <<pmap, node>> /\ at[c] = "fill" /\ node[c] \in Slots
        /\ at'[c] = IF todo'[c] = {} THEN "flush" ELSE "fill"
        /\ \A d \in Cpus \ {c} : at'[d] = at[d]
        /\ \A r \in Slots \ {node[c]} : info'[r] = info[r]
    BY <1>3, StoreFrame
  <2>2. ~ Complete(node[c])
    BY <2>1 DEF Complete, Filling
  <2>3. \A s : Filling(s)' => Filling(s)
    BY <2>1 DEF Filling
  <2> QED
    BY <1>0, <2>1, <2>2, <2>3 DEF Complete
<1>4. CASE Guest(c) \/ Lookup(c)
  <2>1. UNCHANGED listVars /\ (at'[c] # "fill" \/ (at[c] = "fill" /\ node'[c] = node[c]))
    BY <1>4, GuestFrame DEF listVars
  <2> QED
    BY <1>1, <2>1
<1>5. CASE Unmap(c) \/ Clear(c) \/ Flush(c)
  <2>1. UNCHANGED listVars /\ at'[c] # "fill"
    BY <1>5 DEF Unmap, Clear, Flush, Goto, Base, TypeOK
  <2> QED
    BY <1>1, <2>1
<1> QED
  BY <1>2, <1>3, <1>4, <1>5 DEF Trap, StoreAny

\* What the handler of an access to a trapped page meets first is complete.
LEMMA HitComplete ==
  ASSUME QuietInv, NEW c \in Cpus, at[c] = "lookup", Covers(node[c], page[c])
  PROVE  Complete(node[c])
<1> USE PageTrapAssumption, QueueRange
<1> DEFINE n == node[c]
<1>1. n \in Slots /\ n <= pmap /\ page[c] \in Aborts /\ (IsDone(page[c]) \/ page[c] = Dev)
  BY DEF QuietInv, LookupInv
<1> SUFFICES ASSUME NEW d \in Cpus, at[d] = "fill", node[d] = n
             PROVE  FALSE
  BY <1>1 DEF Complete, Filling
<1>2. Filled(d) /\ queue[d] \in Queues
  BY DEF QuietInv, Base, FillInv, TrapInv, Trapping
<1>3. page[c] \in Nat /\ page[c] # 0 /\ page[c] # 1
  BY <1>1 DEF Aborts
<1>4. queue[d] \in Nat /\ queue[d] # Dev /\ queue[d] + 1 # Dev
  <2>1. queue[d] \in Ram /\ queue[d] + 1 \in Ram
    BY <1>2
  <2> QED
    BY <2>1
<1>5. ~ IsDone(queue[d]) /\ ~ IsDone(queue[d] + 1)
  BY DEF QuietInv, TakenInv, Trapping, OfQueue
<1>6. page[c] = queue[d] \/ page[c] = queue[d] + 1
  BY <1>2, <1>3, <1>4 DEF Filled, Covers, QueueLen
<1> QED
  BY <1>1, <1>4, <1>5, <1>6

\* A step that changes neither what is set up, or being set up, nor stage 2,
\* keeps who has which page.
LEMMA SameTaken ==
  ASSUME QuietInv, UNCHANGED <<pte, ready>>,
         \A d \in Cpus : /\ at'[d] \in Trapping <=> at[d] \in Trapping
                         /\ at[d] \in Trapping => queue'[d] = queue[d]
  PROVE  TakenInv' /\ GoneInv'
BY DEF QuietInv, TakenInv, GoneInv, IsDone, IsBusy, OfQueue

\* Whoever has looked up, and not come back, goes on as before.
LEMMA SameLookup ==
  ASSUME QuietInv, Base', NEW c \in Cpus, Guest(c) \/ Lookup(c) \/ Trap(c), ready' = ready,
         NEW d \in Cpus, at[d] = "lookup", UNCHANGED <<page[d], node[d]>>
  PROVE  /\ page'[d] \in Aborts /\ (IsDone(page[d])' \/ page'[d] = Dev)
         /\ node'[d] \in Slots /\ node'[d] <= pmap'
         /\ \E s \in Slots : s <= node'[d] /\ Complete(s)' /\ Covers(s, page[d])'
<1>1. PICK s \in Slots : s <= node[d] /\ Complete(s) /\ Covers(s, page[d])
  BY DEF QuietInv, LookupInv
<1>2. /\ pmap \in Nat /\ pmap' \in Nat /\ pmap <= pmap'
      /\ \A r \in Slots : Complete(r) => Complete(r)' /\ info'[r] = info[r]
  BY CompleteStays DEF QuietInv
<1>3. /\ node[d] \in Slots /\ node[d] \in Nat /\ node[d] <= pmap
      /\ page[d] \in Aborts /\ (IsDone(page[d]) \/ page[d] = Dev)
  BY PageTrapAssumption DEF QuietInv, LookupInv, Slots
<1>4. Complete(s)' /\ Covers(s, page[d])'
  BY <1>1, <1>2 DEF Covers
<1>5. IsDone(page[d])' <=> IsDone(page[d])
  BY DEF IsDone
<1> QED
  BY <1>1, <1>2, <1>3, <1>4, <1>5

\* What is ready stays covered while nothing is added.
LEMMA SameReady ==
  ASSUME QuietInv, NEW c \in Cpus, Guest(c) \/ Lookup(c) \/ Trap(c), ready' = ready
  PROVE  ReadyInv'
<1> SUFFICES ASSUME NEW p \in QueuePages \cup {Dev}, IsDone(p)' \/ p = Dev
             PROVE  \E s \in Slots : Complete(s)' /\ Covers(s, p)'
  BY DEF ReadyInv
<1>1. IsDone(p) \/ p = Dev
  BY DEF IsDone
<1>2. PICK s \in Slots : Complete(s) /\ Covers(s, p)
  BY <1>1 DEF QuietInv, ReadyInv
<1>3. Complete(s)' /\ info'[s] = info[s]
  BY <1>2, CompleteStays DEF QuietInv
<1> QED
  BY <1>2, <1>3 DEF Covers

\* The guest: a CPU enters pagetrap() with the queue to itself, and aborts on
\* pages that are ready.
LEMMA GuestQuiet ==
  ASSUME Quiet, QuietInv, NEW c \in Cpus, Guest(c), ReachInv'
  PROVE  QuietInv'
<1> USE PageTrapAssumption, QueueRange
<1>0. Base /\ Base' /\ TypeOK
  BY GuestBase DEF QuietInv, Base
<1>1. UNCHANGED <<pte, pmap, info, ready>>
  BY <1>0, GuestFrame
<1>2. \A d \in Cpus \ {c} : /\ at'[d] = at[d] /\ queue'[d] = queue[d] /\ page'[d] = page[d]
                            /\ node'[d] = node[d]
  BY <1>0, OthersStay
<1>3. ReadyInv'
  BY <1>1, SameReady
<1>4. ASSUME NEW p \in Ram, Fill(c, p) \/ Evict(c, p) PROVE QuietInv'
  <2>1. UNCHANGED <<at, queue, page, node>>
    BY <1>4 DEF Fill, Evict
  <2>2. TakenInv' /\ GoneInv'
    BY <1>1, <2>1, SameTaken
  <2>3. LookupInv'
    BY <1>0, <1>1, <2>1, SameLookup DEF LookupInv
  <2> QED
    BY <1>0, <1>3, <2>1, <2>2, <2>3 DEF QuietInv, NoUnexpectedAbort
<1>5. ASSUME NEW p \in Aborts, NEW w \in BOOLEAN, Abort(c, p, w) PROVE QuietInv'
  <2>1. /\ at[c] = "guest" /\ at'[c] = "lookup" /\ page'[c] = p /\ node'[c] = pmap
        /\ p \notin pte /\ p \notin Busy /\ queue' = queue
    BY <1>0, <1>5 DEF Abort, Goto, TypeOK
  <2>2. TakenInv' /\ GoneInv'
    <3>1. \A d \in Cpus : /\ at'[d] \in Trapping <=> at[d] \in Trapping
                          /\ at[d] \in Trapping => queue'[d] = queue[d]
      BY <1>2, <2>1 DEF Trapping
    <3> QED
      BY <1>1, <3>1, SameTaken
  <2>3. IsDone(p) \/ p = Dev
    <3>1. CASE p \in Ram
      BY <2>1, <3>1, DoneBusy DEF QuietInv, GoneInv
    <3> QED
      BY <3>1 DEF Aborts
  <2>4. p \in QueuePages \cup {Dev}
    BY <1>0, <2>3 DEF IsDone, TypeOK
  <2>5. PICK s \in Slots : Complete(s)' /\ Covers(s, p)'
    <3>1. IsDone(p)' \/ p = Dev
      BY <1>1, <2>3 DEF IsDone
    <3> QED
      BY <1>3, <2>4, <3>1 DEF ReadyInv
  <2>6. pmap \in Slots /\ pmap <= pmap /\ s <= pmap
    BY <1>0, <1>1, <2>5 DEF Base, ListInv, Slots, Complete
  <2>7. LookupInv'
    <3> SUFFICES ASSUME NEW d \in Cpus, at'[d] = "lookup"
                 PROVE  /\ page'[d] \in Aborts /\ (IsDone(page[d])' \/ page'[d] = Dev)
                        /\ node'[d] \in Slots /\ node'[d] <= pmap'
                        /\ \E r \in Slots : r <= node'[d] /\ Complete(r)' /\ Covers(r, page[d])'
      BY DEF LookupInv
    <3>1. CASE d = c
      <4>1. Covers(s, page[d])'
        BY <2>1, <2>5, <3>1 DEF Covers
      <4>2. IsDone(page[d])' \/ page'[d] = Dev
        BY <1>1, <2>1, <2>3, <3>1 DEF IsDone
      <4> QED
        BY <1>1, <2>1, <2>5, <2>6, <3>1, <4>1, <4>2
    <3>2. CASE d # c
      BY <1>0, <1>1, <1>2, <3>2, SameLookup
    <3> QED
      BY <3>1, <3>2
  <2>8. NoUnexpectedAbort'
    BY <1>2, <2>1 DEF QuietInv, NoUnexpectedAbort
  <2> QED
    BY <1>0, <1>3, <2>2, <2>7, <2>8 DEF QuietInv
<1>6. ASSUME NEW q \in Queues, SetQueue(c, q) PROVE QuietInv'
  <2>1. /\ at[c] = "guest" /\ at'[c] = "unmap" /\ queue'[c] = q
        /\ {q, q + 1} \cap (Busy \cup Done) = {}
        /\ \A d \in Cpus : node'[d] = node[d]
    BY <1>0, <1>6 DEF SetQueue, Goto, TypeOK
  <2>2. OfQueue(c)' = {q, q + 1} /\ \A p \in {q, q + 1} : ~ IsDone(p) /\ ~ IsBusy(p)
    BY <2>1, DoneBusy DEF OfQueue
  <2>3. \A d \in Cpus \ {c} : OfQueue(d)' = OfQueue(d)
    BY <1>2 DEF OfQueue
  <2>4. \A p : IsDone(p)' <=> IsDone(p)
    BY <1>1 DEF IsDone
  <2>5. TakenInv'
    <3> SUFFICES ASSUME NEW d \in Cpus, at'[d] \in Trapping
                 PROVE  /\ \A p \in OfQueue(d)' : ~ IsDone(p)'
                        /\ \A e \in Cpus \ {d} : at'[e] \in Trapping =>
                             OfQueue(d)' \cap OfQueue(e)' = {}
      BY DEF TakenInv
    <3>1. CASE d = c
      BY <1>2, <2>2, <2>3, <2>4, <3>1 DEF IsBusy
    <3>2. CASE d # c
      BY <1>2, <2>2, <2>3, <2>4, <3>2 DEF QuietInv, TakenInv, IsBusy
    <3> QED
      BY <3>1, <3>2
  <2>6. \A p : IsBusy(p) => IsBusy(p)'
    <3>1. \A d \in Cpus : at[d] \in Trapping => at'[d] = at[d] /\ OfQueue(d)' = OfQueue(d)
      BY <1>2, <2>1, <2>3 DEF Trapping
    <3> QED
      BY <3>1 DEF IsBusy
  <2>7. GoneInv'
    BY <1>1, <2>4, <2>6 DEF QuietInv, GoneInv
  <2>8. LookupInv' /\ NoUnexpectedAbort'
    <3>1. \A d \in Cpus : at'[d] \in {"lookup", "dabort"} =>
            at[d] = at'[d] /\ UNCHANGED <<page[d], node[d]>>
      BY <1>2, <2>1
    <3> QED
      BY <1>0, <1>1, <3>1, SameLookup DEF LookupInv, QuietInv, NoUnexpectedAbort
  <2> QED
    BY <1>0, <1>3, <2>5, <2>7, <2>8 DEF QuietInv
<1> QED
  BY <1>4, <1>5, <1>6 DEF Guest

LEMMA LookupQuiet == ASSUME QuietInv, NEW c \in Cpus, Lookup(c), ReachInv' PROVE QuietInv'
<1> USE PageTrapAssumption, QueueRange
<1>0. Base /\ Base' /\ TypeOK
  BY GuestBase DEF QuietInv, Base
<1>1. UNCHANGED <<pte, pmap, info, ready, queue, page>> /\ at[c] = "lookup"
  BY DEF Lookup, LookupNext, LookupHit, unmapVars, listVars
<1>2. \A d \in Cpus \ {c} : at'[d] = at[d] /\ node'[d] = node[d]
  BY <1>0, OthersStay
<1>3. node[c] \in Slots /\ node[c] # Nil /\ node[c] <= pmap
  BY <1>1 DEF QuietInv, LookupInv, Slots
<1>4. ReadyInv'
  BY <1>1, SameReady
<1>5. CASE LookupHit(c)
  <2>1. Complete(node[c])
    BY <1>1, <1>5, HitComplete DEF LookupHit
  <2>2. info[node[c]].read
    BY <1>0, <1>3, <2>1 DEF Base, FillInv
  <2>3. at'[c] = "guest"
    BY <1>0, <1>5, <2>2 DEF LookupHit, Goto, TypeOK
  <2>4. TakenInv' /\ GoneInv'
    <3>1. \A d \in Cpus : at'[d] \in Trapping <=> at[d] \in Trapping
      BY <1>1, <1>2, <2>3 DEF Trapping
    <3> QED
      BY <1>1, <3>1, SameTaken
  <2>5. LookupInv'
    <3>1. \A d \in Cpus : at'[d] = "lookup" => at[d] = "lookup" /\ UNCHANGED <<page[d], node[d]>>
      BY <1>1, <1>2, <2>3
    <3> QED
      BY <1>0, <1>1, <3>1, SameLookup DEF LookupInv
  <2>6. NoUnexpectedAbort'
    BY <1>2, <2>3 DEF QuietInv, NoUnexpectedAbort
  <2> QED
    BY <1>0, <1>4, <2>4, <2>5, <2>6 DEF QuietInv
<1>6. CASE LookupNext(c)
  <2>1. /\ ~ Covers(node[c], page[c]) /\ at' = at
        /\ node'[c] = info[node[c]].next
    BY <1>0, <1>3, <1>6 DEF LookupNext, TypeOK
  <2>2. PICK s \in Slots : s <= node[c] /\ Complete(s) /\ Covers(s, page[c])
    BY <1>1 DEF QuietInv, LookupInv
  <2>3. s # node[c] /\ s \in Nat /\ node[c] \in Nat /\ pmap \in Nat
    BY <1>0, <1>3, <2>1, <2>2 DEF Slots, Base, ListInv
  <2>4. node'[c] = node[c] - 1 /\ s <= node[c] - 1
    BY <1>0, <1>3, <2>1, <2>2, <2>3 DEF Base, ListInv
  <2>5. node'[c] \in Slots /\ node'[c] <= pmap
    BY <1>3, <2>2, <2>3, <2>4 DEF Slots
  <2>6. TakenInv' /\ GoneInv'
    BY <1>1, <2>1, SameTaken
  <2>7. Complete(s)' /\ Covers(s, page[c])' /\ (IsDone(page[c])' <=> IsDone(page[c]))
    <3>1. Complete(s)'
      BY <2>2, CompleteStays DEF QuietInv
    <3> QED
      BY <1>1, <2>2, <3>1 DEF Covers, IsDone
  <2>8. LookupInv'
    <3> SUFFICES ASSUME NEW d \in Cpus, at'[d] = "lookup"
                 PROVE  /\ page'[d] \in Aborts /\ (IsDone(page[d])' \/ page'[d] = Dev)
                        /\ node'[d] \in Slots /\ node'[d] <= pmap'
                        /\ \E r \in Slots : r <= node'[d] /\ Complete(r)' /\ Covers(r, page[d])'
      BY DEF LookupInv
    <3>1. CASE d = c
      BY <1>1, <2>2, <2>4, <2>5, <2>7, <3>1 DEF QuietInv, LookupInv
    <3>2. CASE d # c
      BY <1>0, <1>1, <1>2, <2>1, <3>2, SameLookup
    <3> QED
      BY <3>1, <3>2
  <2> QED
    BY <1>0, <1>4, <2>1, <2>6, <2>8 DEF QuietInv, NoUnexpectedAbort
<1> QED
  BY <1>5, <1>6 DEF Lookup

\* pagetrap() before its flush: what it unmaps is a page that it has to itself,
\* and what is complete in the list stays.
LEMMA TrapQuiet ==
  ASSUME QuietInv, NEW c \in Cpus, Unmap(c) \/ Clear(c) \/ Register(c) \/ StoreAny(c), ReachInv'
  PROVE  QuietInv'
<1> USE PageTrapAssumption, QueueRange
<1>0. Base /\ Base' /\ TypeOK
  BY UnmapBase, RegisterBase, StoreBaseInv DEF QuietInv, Base
<1>1. /\ UNCHANGED <<ready, queue>>
      /\ at[c] \in Trapping /\ at'[c] \in Trapping
      /\ \A p \in pte \ pte' : p \in OfQueue(c)
  <2>1. CASE Unmap(c)
    BY <1>0, <2>1 DEF Unmap, Goto, TypeOK, Trapping, listVars
  <2>2. CASE Clear(c)
    BY <1>0, <2>2 DEF Clear, Goto, TypeOK, Base, TrapInv, Trapping, listVars
  <2>3. CASE Register(c)
    BY <1>0, <2>3 DEF Register, Goto, TypeOK, Trapping, unmapVars
  <2>4. CASE StoreAny(c)
    <3>1. at[c] = "fill" /\ at'[c] \in {"flush", "fill"} /\ UNCHANGED <<ready, queue, pte>>
      BY <1>0, <2>4, StoreFrame
    <3> QED
      BY <3>1 DEF Trapping
  <2> QED
    BY <2>1, <2>2, <2>3, <2>4
<1>2. \A d \in Cpus \ {c} : at'[d] = at[d] /\ page'[d] = page[d] /\ node'[d] = node[d]
  BY <1>0, OthersStay DEF Trap, StoreAny
<1>3. /\ \A d \in Cpus : at'[d] \in Trapping <=> at[d] \in Trapping
      /\ \A p : (IsDone(p)' <=> IsDone(p)) /\ (IsBusy(p)' <=> IsBusy(p))
  <2>1. \A d \in Cpus : at'[d] \in Trapping <=> at[d] \in Trapping
    BY <1>1, <1>2
  <2> QED
    BY <1>1, <2>1 DEF IsDone, IsBusy, OfQueue
<1>4. TakenInv'
  BY <1>1, <1>3 DEF QuietInv, TakenInv, OfQueue
<1>5. GoneInv'
  <2>1. \A p \in OfQueue(c) : IsBusy(p)
    BY <1>1 DEF IsBusy
  <2> QED
    BY <1>1, <1>3, <2>1 DEF QuietInv, GoneInv
<1>6. ReadyInv'
  BY <1>1, SameReady DEF Trap, StoreAny
<1>7. \A d \in Cpus : at'[d] \in {"lookup", "dabort"} =>
        at[d] = at'[d] /\ UNCHANGED <<page[d], node[d]>>
  BY <1>1, <1>2 DEF Trapping
<1>8. LookupInv' /\ NoUnexpectedAbort'
  <2>1. Trap(c)
    BY DEF Trap, StoreAny
  <2> QED
    BY <1>0, <1>1, <1>7, <2>1, SameLookup DEF LookupInv, QuietInv, NoUnexpectedAbort
<1> QED
  BY <1>0, <1>4, <1>5, <1>6, <1>8 DEF QuietInv

\* pagetrap() returns: the node of the queue is complete.
LEMMA FlushQuiet == ASSUME QuietInv, NEW c \in Cpus, Flush(c), ReachInv' PROVE QuietInv'
<1> USE PageTrapAssumption, QueueRange
<1>0. Base /\ Base' /\ TypeOK
  BY FlushBase DEF QuietInv, Base
<1>1. /\ UNCHANGED <<pte, pmap, info, queue, page, node>>
      /\ at[c] = "flush" /\ at'[c] = "guest"
      /\ ready'[c] = ready[c] \cup OfQueue(c)
  BY <1>0 DEF Flush, Goto, TypeOK, unmapVars, listVars, OfQueue
<1>2. \A d \in Cpus \ {c} : at'[d] = at[d] /\ ready'[d] = ready[d]
  BY <1>0, OthersStay DEF Trap
<1>3. \A p : IsDone(p)' <=> IsDone(p) \/ p \in OfQueue(c)
  BY <1>1, <1>2 DEF IsDone
<1>4. \A d \in Cpus : at'[d] \in Trapping <=> d # c /\ at[d] \in Trapping
  BY <1>1, <1>2 DEF Trapping
<1>5. \A d \in Cpus : OfQueue(d)' = OfQueue(d)
  BY <1>1 DEF OfQueue
<1>6. TakenInv'
  <2>1. ASSUME NEW d \in Cpus \ {c}, at[d] \in Trapping
        PROVE  OfQueue(c) \cap OfQueue(d) = {}
    BY <1>1, <2>1 DEF QuietInv, TakenInv, Trapping
  <2> QED
    BY <1>3, <1>4, <1>5, <2>1 DEF QuietInv, TakenInv
<1>7. GoneInv'
  <2>1. \A p : IsBusy(p) => IsBusy(p)' \/ p \in OfQueue(c)
    BY <1>4, <1>5 DEF IsBusy
  <2> QED
    BY <1>1, <1>3, <2>1 DEF QuietInv, GoneInv
<1>8. \A s \in Slots : Complete(s)' <=> Complete(s)
  <2>1. \A d \in Cpus : at'[d] = "fill" <=> at[d] = "fill"
    BY <1>1, <1>2
  <2> QED
    BY <1>1, <2>1, SameComplete DEF listVars
<1>9. \A s \in Slots : \A p : Covers(s, p)' <=> Covers(s, p)
  BY <1>1 DEF Covers
<1>10. ReadyInv'
  <2>1. \A p \in OfQueue(c) : \E s \in Slots : Complete(s) /\ Covers(s, p)
    BY <1>0, <1>1 DEF Base, FillInv
  <2> QED
    BY <1>3, <1>8, <1>9, <2>1 DEF QuietInv, ReadyInv
<1>11. LookupInv'
  <2> SUFFICES ASSUME NEW d \in Cpus, at'[d] = "lookup"
               PROVE  /\ page'[d] \in Aborts /\ (IsDone(page[d])' \/ page'[d] = Dev)
                      /\ node'[d] \in Slots /\ node'[d] <= pmap'
                      /\ \E s \in Slots : s <= node'[d] /\ Complete(s)' /\ Covers(s, page[d])'
    BY DEF LookupInv
  <2>1. at[d] = "lookup"
    BY <1>1, <1>2
  <2>2. PICK s \in Slots : s <= node[d] /\ Complete(s) /\ Covers(s, page[d])
    BY <2>1 DEF QuietInv, LookupInv
  <2>3. Complete(s)' /\ Covers(s, page[d])'
    BY <1>1, <1>8, <2>2 DEF Covers
  <2>4. IsDone(page[d])' \/ page[d] = Dev
    BY <1>1, <1>2, <2>1 DEF IsDone, QuietInv, LookupInv
  <2> QED
    BY <1>1, <2>1, <2>2, <2>3, <2>4 DEF QuietInv, LookupInv
<1>12. NoUnexpectedAbort'
  BY <1>1, <1>2 DEF QuietInv, NoUnexpectedAbort
<1> QED
  BY <1>0, <1>6, <1>7, <1>10, <1>11, <1>12 DEF QuietInv

LEMMA QuietStep == ASSUME Quiet, QuietInv, [Next]_vars PROVE QuietInv'
<1>0. Base' /\ ReachInv'
  BY BaseStep, ReachStep DEF QuietInv
<1>1. CASE UNCHANGED vars
  BY <1>0, <1>1 DEF vars, QuietInv, TakenInv, GoneInv, ReadyInv, LookupInv,
    NoUnexpectedAbort, IsDone, IsBusy, Complete, Filling, OfQueue, Covers
<1>2. ASSUME NEW c \in Cpus, Guest(c) \/ Lookup(c) \/ Trap(c) PROVE QuietInv'
  BY <1>0, <1>2, GuestQuiet, LookupQuiet, TrapQuiet, FlushQuiet DEF Trap, StoreAny
<1> QED
  BY <1>1, <1>2 DEF Next

-----------------------------------------------------------------------------
(* Theorems *)

\* The variables keep their types, however the guest uses its queues: the
\* registration never writes outside its slot of mmio_infos (mmio.c:17-20).
THEOREM TypeCorrect == Spec => []TypeOK
<1>1. Init => Base
  BY InitBase
<1>2. Base /\ [Next]_vars => Base'
  BY BaseStep
<1>3. Base => TypeOK
  BY DEF Base
<1> QED
  BY <1>1, <1>2, <1>3, PTL DEF Spec

\* Whatever the guests do on all CPUs, and however far walks run ahead: once
\* pagetrap() has returned on a CPU, that CPU reaches none of the pages that it
\* has freed, and no other CPU caches one that it has not cached before
\* (mm.c:51-52, vm.c:36).
THEOREM FreedOutOfReach == Spec => NoFreedPage
<1>1. Init => Base /\ ReachInv
  BY InitBase, InitReach
<1>2. Base /\ ReachInv /\ [Next]_vars => (Base /\ ReachInv)'
  BY BaseStep, ReachStep
<1>3. Base /\ ReachInv /\ [Next]_vars =>
        [\A c \in Cpus, p \in pool : p \in tlb'[c] /\ p \in Done => p \in tlb[c] \ ready[c]]_vars
  <2> SUFFICES ASSUME Base, ReachInv, [Next]_vars, ~ UNCHANGED vars,
                      NEW c \in Cpus, NEW p \in pool, p \in tlb'[c], p \in Done
               PROVE  p \in tlb[c] \ ready[c]
    OBVIOUS
  <2>1. p \notin pte
    BY DoneBusy DEF IsDone, ReachInv
  <2>2. PICK d \in Cpus : Guest(d) \/ Lookup(d) \/ Trap(d)
    BY DEF Next
  <2>3. p \in tlb[c]
    BY <2>1, <2>2, OthersStay, ReachFrame DEF Base
  <2> QED
    BY <2>3 DEF ReachInv
<1> QED
  BY <1>1, <1>2, <1>3, PTL DEF Spec, NoFreedPage

\* With guests that leave a queue alone while it is set up: a lookup without
\* the lock finds the region of the access, whatever is being put into the list
\* by other CPUs, in whatever order its fields arrive (mmio.c:49-57, 67-77;
\* trap.c:200).
THEOREM LookupSucceeds == ASSUME Quiet PROVE Spec => []NoUnexpectedAbort
<1>1. Init => QuietInv
  BY InitQuiet
<1>2. QuietInv /\ [Next]_vars => QuietInv'
  BY QuietStep
<1>3. QuietInv => NoUnexpectedAbort
  BY DEF QuietInv
<1> QED
  BY <1>1, <1>2, <1>3, PTL DEF Spec

\* With such guests, a lookup meets no node that has its region but not its
\* write handler yet, so a write is not served as a read (mmio.c:51-54, 74-77).
THEOREM ServedAsWrites == ASSUME Quiet PROVE Spec => WritesServedAsWrites
<1>1. Init => QuietInv
  BY InitQuiet
<1>2. QuietInv /\ [Next]_vars => QuietInv'
  BY QuietStep
<1>3. QuietInv /\ [Next]_vars =>
        [\A c \in Cpus : at[c] = "lookup" /\ at'[c] = "guest" /\ wnr[c]
           => info[node[c]].write]_vars
  <2> SUFFICES ASSUME QuietInv, [Next]_vars, NEW c \in Cpus, at[c] = "lookup", at'[c] = "guest"
               PROVE  info[node[c]].write
    OBVIOUS
  <2>1. ASSUME NEW d \in Cpus, Guest(d) \/ Lookup(d) \/ Trap(d) PROVE d = c
    BY <2>1, OthersStay DEF QuietInv, Base
  <2>2. Lookup(c)
    <3>1. ~ Guest(c)
      BY DEF Guest, Fill, Evict, Abort, SetQueue
    <3>2. ~ Trap(c)
      BY DEF Trap, Unmap, Clear, Register, StoreBase, StoreSize, StoreRead, StoreWrite, Store, Flush
    <3> QED
      BY <2>1, <3>1, <3>2 DEF Next, vars
  <2>3. Covers(node[c], page[c]) /\ node[c] \in Slots
    <3>1. node[c] \in Slots /\ node[c] # Nil
      BY PageTrapAssumption DEF QuietInv, LookupInv, Slots
    <3> QED
      BY <2>2, <3>1 DEF Lookup, LookupNext, LookupHit
  <2>4. Complete(node[c])
    BY <2>3, HitComplete
  <2> QED
    BY <2>3, <2>4 DEF QuietInv, Base, FillInv
<1> QED
  BY <1>1, <1>2, <1>3, PTL DEF Spec, WritesServedAsWrites
=============================================================================
