------------------------------ MODULE PageTrap ------------------------------
(***************************************************************************)
(* pagetrap() of src/vm.c at run time.  A driver gives the device a queue   *)
(* (QUEUE_PFN, src/virtio-mmio-dev.c); its pages are taken out of stage 2   *)
(* and freed (src/mm.c), and a handler is registered for them (src/mmio.c), *)
(* while the other CPUs run the guest, fill their TLBs, and look up         *)
(* handlers in the same list without a lock.                                *)
(*                                                                          *)
(* Addresses are page numbers.  A page of guest RAM is named by its guest   *)
(* address also where its host page is meant.  The TLBs are external: they  *)
(* may take in what stage 2 maps, and forget it, at any time.               *)
(*                                                                          *)
(* The fields of a new node are plain stores, seen by others in any order.  *)
(* That a node is linked before it is published rests on release() keeping  *)
(* the order of the stores before it (Spinlock, with InOrder = TRUE).       *)
(***************************************************************************)
EXTENDS Naturals, FiniteSets

CONSTANTS Cpus,
          Ram,        \* pages of guest RAM
          Dev,        \* a page trapped by create_vm(): VIRTIO0
          Queues,     \* first pages of the queues that drivers set up
          NumInfo,    \* the length of mmio_infos, 128
          Nil,        \* the end of the list
          TlbSize,    \* bound: the entries of a TLB
          Quiet       \* TRUE: each queue is set up once, and meanwhile no other
                      \* CPU's guest code accesses its pages

QueueLen == 2

ASSUME PageTrapAssumption ==
  /\ Dev \in Nat \ Ram /\ Ram \cup {Dev} \subseteq {p \in Nat : p >= QueueLen}
  /\ \A q \in Queues : {q, q + 1} \subseteq Ram
  /\ NumInfo \in Nat \ {0} /\ Nil \notin Nat
  /\ TlbSize \in Nat /\ Quiet \in BOOLEAN

VARIABLES pte,     \* the pages mapped in stage 2
          pool,    \* history: the pages given to kfree()
          tlb,     \* tlb[c]: what CPU c has cached
          pmap,    \* vm->pmap
          info,    \* mmio_infos
          at,      \* where CPU c is
          queue,   \* queue[c]: the queue that pagetrap() on c is for
          page,    \* page[c]: the page in pageunmap(), or the address of an abort
          node,    \* node[c]: "m" of the lookup, or "new" of the registration
          wnr,     \* wnr[c]: the access that aborted is a write
          todo,    \* todo[c]: the fields that c has not yet stored in "new"
          ready    \* history: ready[c], the pages whose pagetrap() has returned on c

vars == <<pte, pool, tlb, pmap, info, at, queue, page, node, wnr, todo, ready>>
unmapVars == <<pte, pool>>
listVars == <<pmap, info>>

Slots == 0 .. NumInfo - 1
QueuePages == UNION {q .. q + QueueLen - 1 : q \in Queues}
Aborts == Ram \cup {Dev}
Fields == {"base", "size", "read", "write"}

\* struct mmio_info
MmioInfo == [next : Slots \cup {Nil}, base : Aborts \cup {0}, size : 0 .. QueueLen,
             read : BOOLEAN, write : BOOLEAN]

TypeOK ==
  /\ pte \subseteq Ram /\ pool \subseteq Ram
  /\ tlb \in [Cpus -> SUBSET Ram]
  /\ pmap \in Slots \cup {Nil}
  /\ info \in [Slots -> MmioInfo]
  /\ at \in [Cpus -> {"guest", "unmap", "clear", "register", "fill", "flush", "lookup",
                      "unmapped", "nomem", "dabort"}]
  /\ queue \in [Cpus -> Queues \cup {0}]
  /\ page \in [Cpus -> Aborts \cup {0}]
  /\ node \in [Cpus -> Slots \cup {Nil}]
  /\ wnr \in [Cpus -> BOOLEAN]
  /\ todo \in [Cpus -> SUBSET Fields]
  /\ ready \in [Cpus -> SUBSET QueuePages]

Unused == [next |-> Nil, base |-> 0, size |-> 0, read |-> FALSE, write |-> FALSE]

\* create_vm() is done: RAM is mapped, VIRTIO0 is in the list.
Init ==
  /\ pte = Ram /\ pool = {}
  /\ tlb = [c \in Cpus |-> {}]
  /\ pmap = 0
  /\ info = [s \in Slots |-> IF s > 0 THEN Unused ELSE
               [next |-> Nil, base |-> Dev, size |-> 1, read |-> TRUE, write |-> TRUE]]
  /\ at = [c \in Cpus |-> "guest"]
  /\ queue = [c \in Cpus |-> 0]
  /\ page = [c \in Cpus |-> 0]
  /\ node = [c \in Cpus |-> Nil]
  /\ wnr = [c \in Cpus |-> FALSE]
  /\ todo = [c \in Cpus |-> {}]
  /\ ready = [c \in Cpus |-> {}]

Goto(c, a) == at' = [at EXCEPT ![c] = a]

-----------------------------------------------------------------------------
(* The guest *)

\* The pages of the queues that are set up, and those of one being set up.
Done == UNION {ready[c] : c \in Cpus}
OfQueue(c) == {queue[c], queue[c] + 1}
Trapping == {"unmap", "clear", "register", "fill", "flush", "unmapped", "nomem"}
Busy == UNION {OfQueue(c) : c \in {d \in Cpus : at[d] \in Trapping}}

\* A walk finds p in stage 2, for an access or ahead of one.
Fill(c, p) ==
  /\ p \in pte \ tlb[c] /\ Cardinality(tlb[c]) < TlbSize
  /\ tlb' = [tlb EXCEPT ![c] = @ \cup {p}]
  /\ UNCHANGED <<unmapVars, listVars, at, queue, page, node, wnr, todo, ready>>

\* The TLB forgets p.
Evict(c, p) ==
  /\ p \in tlb[c]
  /\ tlb' = [tlb EXCEPT ![c] = @ \ {p}]
  /\ UNCHANGED <<unmapVars, listVars, at, queue, page, node, wnr, todo, ready>>

\* An access finds p neither in the TLB nor in stage 2: vm_dabort_handler()
\* and mmio_emulate() start at the head of the list.
Abort(c, p, w) ==
  /\ at[c] = "guest"
  /\ p \notin pte \cup tlb[c]
  /\ Quiet => p \notin Busy
  /\ page' = [page EXCEPT ![c] = p]
  /\ wnr' = [wnr EXCEPT ![c] = w]
  /\ node' = [node EXCEPT ![c] = pmap]
  /\ Goto(c, "lookup")
  /\ UNCHANGED <<unmapVars, tlb, listVars, queue, todo, ready>>

\* The driver writes QUEUE_PFN.
SetQueue(c, q) ==
  /\ at[c] = "guest"
  /\ Quiet => {q, q + 1} \cap (Busy \cup Done) = {}
  /\ queue' = [queue EXCEPT ![c] = q]
  /\ page' = [page EXCEPT ![c] = q]
  /\ Goto(c, "unmap")
  /\ UNCHANGED <<unmapVars, tlb, listVars, node, wnr, todo, ready>>

-----------------------------------------------------------------------------
(* mmio_emulate(): one node per step *)

Covers(m, p) == info[m].base <= p /\ p < info[m].base + info[m].size

\* The node does not cover the address: on to the next; there is none: -1, and
\* vm_sync_handler() panics.
LookupNext(c) ==
  /\ at[c] = "lookup"
  /\ node[c] # Nil => ~ Covers(node[c], page[c])
  /\ IF node[c] = Nil
       THEN Goto(c, "dabort") /\ UNCHANGED node
       ELSE node' = [node EXCEPT ![c] = info[node[c]].next] /\ UNCHANGED at
  /\ UNCHANGED <<unmapVars, tlb, listVars, queue, page, wnr, todo, ready>>

\* It does: the write handler for a write, the read handler for anything else.
LookupHit(c) ==
  LET m == info[node[c]] IN
  /\ at[c] = "lookup"
  /\ node[c] # Nil /\ Covers(node[c], page[c])
  /\ Goto(c, IF (wnr[c] /\ m.write) \/ m.read THEN "guest" ELSE "dabort")
  /\ UNCHANGED <<unmapVars, tlb, listVars, queue, page, node, wnr, todo, ready>>

Lookup(c) == LookupNext(c) \/ LookupHit(c)

-----------------------------------------------------------------------------
(* pagetrap() *)

\* pageunmap(): the page goes to kfree() ...
Unmap(c) ==
  /\ at[c] = "unmap"
  /\ IF page[c] \in pte
       THEN pool' = pool \cup {page[c]} /\ Goto(c, "clear")
       ELSE UNCHANGED pool /\ Goto(c, "unmapped")
  /\ UNCHANGED <<pte, tlb, listVars, queue, page, node, wnr, todo, ready>>

\* ... and then its entry is cleared.
Clear(c) ==
  /\ at[c] = "clear"
  /\ pte' = pte \ {page[c]}
  /\ IF page[c] = queue[c] + QueueLen - 1
       THEN UNCHANGED page /\ Goto(c, "register")
       ELSE page' = [page EXCEPT ![c] = @ + 1] /\ Goto(c, "unmap")
  /\ UNCHANGED <<pool, tlb, listVars, queue, node, wnr, todo, ready>>

\* alloc_mmio_info() takes the first slot with no size.
FreeSlots == {s \in Slots : info[s].size = 0}
FirstFree(s) == \A r \in FreeSlots : s <= r

\* Mutant: the new node is the whole list.
LinkNil(s) == Nil

\* Mutant: the node is published before its link is set.
LinkSelf(s) == s

\* The link of a new node.
Link(s) == pmap

\* mmio_reg_handler(), under vm->lock and mi_lock: a node is claimed, linked
\* and published; its fields follow after the locks.
Register(c) ==
  /\ at[c] = "register"
  /\ \/ FreeSlots = {} /\ Goto(c, "nomem") /\ UNCHANGED <<listVars, node, todo>>
     \/ \E s \in FreeSlots :
          /\ FirstFree(s)
          /\ info' = [info EXCEPT ![s] = [@ EXCEPT !.size = 1, !.next = Link(s)]]
          /\ pmap' = s
          /\ node' = [node EXCEPT ![c] = s]
          /\ todo' = [todo EXCEPT ![c] = Fields]
          /\ Goto(c, "fill")
  /\ UNCHANGED <<unmapVars, tlb, queue, page, wnr, ready>>

\* One of the stores of mmio_reg_handler() after the locks.
Store(c, f) ==
  /\ at[c] = "fill" /\ f \in todo[c]
  /\ todo' = [todo EXCEPT ![c] = @ \ {f}]
  /\ IF todo[c] = {f} THEN Goto(c, "flush") ELSE UNCHANGED at
  /\ UNCHANGED <<unmapVars, tlb, pmap, queue, page, node, wnr, ready>>

StoreBase(c) ==
  /\ Store(c, "base")
  /\ info' = [info EXCEPT ![node[c]].base = queue[c]]

\* Mutant: the size in bytes, plus one.
StoreSizePlus(c) ==
  /\ Store(c, "size")
  /\ info' = [info EXCEPT ![node[c]].size = QueueLen + 1]

StoreSize(c) ==
  /\ Store(c, "size")
  /\ info' = [info EXCEPT ![node[c]].size = QueueLen]

StoreRead(c) ==
  /\ Store(c, "read")
  /\ info' = [info EXCEPT ![node[c]].read = TRUE]

\* Mutant: no write handler.
SkipWrite(c) == Store(c, "write") /\ UNCHANGED info

StoreWrite(c) ==
  /\ Store(c, "write")
  /\ info' = [info EXCEPT ![node[c]].write = TRUE]

\* Mutant: the TLB keeps what it has.
Kept(c) == tlb[c]

\* tlb_flush(): the stores above are done before "tlbi vmalls12e1" drops the
\* entries of this CPU.
Flushed(c) == {}

\* pagetrap() returns.
Flush(c) ==
  /\ at[c] = "flush" /\ Goto(c, "guest")
  /\ tlb' = [tlb EXCEPT ![c] = Flushed(c)]
  /\ ready' = [ready EXCEPT ![c] = @ \cup OfQueue(c)]
  /\ UNCHANGED <<unmapVars, listVars, queue, page, node, wnr, todo>>

Trap(c) ==
  \/ Unmap(c) \/ Clear(c) \/ Register(c)
  \/ StoreBase(c) \/ StoreSize(c) \/ StoreRead(c) \/ StoreWrite(c)
  \/ Flush(c)

Guest(c) ==
  \/ \E p \in Ram : Fill(c, p) \/ Evict(c, p)
  \/ \E p \in Aborts, w \in BOOLEAN : Abort(c, p, w)
  \/ \E q \in Queues : SetQueue(c, q)

Next == \E c \in Cpus : Guest(c) \/ Lookup(c) \/ Trap(c)

Spec == Init /\ [][Next]_vars

\* The handlers run with interrupts masked and do not stop.
FairSpec == Spec /\ \A c \in Cpus : WF_vars(Lookup(c)) /\ WF_vars(Trap(c))
-----------------------------------------------------------------------------
(* Properties *)

\* Of a page that pagetrap() has given away, the CPU that gave the queue
\* reaches nothing through its TLB, and another CPU at most what it had cached
\* before: once pagetrap() has returned, no CPU caches the page anew.  That is
\* the flush after the store of 0 (mm.c:52, vm.c:36), though the page is free
\* since the kfree() before that store (mm.c:51) and walks may run ahead at
\* any time.  The entry that another CPU does have stays, since tlb_flush() is
\* of one CPU (aarch64.h:52).
NoFreedPage ==
  [][\A c \in Cpus, p \in pool :
       p \in tlb'[c] /\ p \in Done => p \in tlb[c] \ ready[c]]_vars

\* trap.c:200, "unexcepted dabort": a lookup finds its region, with a handler,
\* whatever is registered meanwhile.
NoUnexpectedAbort == \A c \in Cpus : at[c] # "dabort"

\* A write is never served by a read handler (mmio.c:51-54 falls through to
\* it when the write handler is missing).
WritesServedAsWrites ==
  [][\A c \in Cpus : at[c] = "lookup" /\ at'[c] = "guest" /\ wnr[c]
       => info[node[c]].write]_vars

\* An access that traps comes back to the guest, and so does the write of QUEUE_PFN.
ComesBack == \A c \in Cpus : at[c] # "guest" ~> at[c] = "guest"
=============================================================================
