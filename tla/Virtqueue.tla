----------------------------- MODULE Virtqueue ------------------------------
(***************************************************************************)
(* The queue of the virtio-mmio device, src/virtio-mmio-dev.c.  The driver's *)
(* writes to a descriptor trap: the address becomes a host address, and a   *)
(* buffer that crosses a page gets a bounce page, filled from the guest.    *)
(* The device works on the host copy of the queue and raises its interrupt; *)
(* virtio_dev_intr() copies the bounce pages back and frees them.  The      *)
(* guest reads the used ring with no help of mvmm, so nothing but the driver *)
(* sees to it that virtio_dev_intr() comes first: Patient.  A driver that   *)
(* waits for its interrupt with one request outstanding is such a driver,   *)
(* one that empties the used ring at an interrupt is not.                   *)
(*                                                                          *)
(* The driver and the device are external.  A buffer is one place; what is  *)
(* in it is "out" or "in", by the driver or by the device for a request, or *)
(* "other".  One write of a field is one step: mvmm holds vtdev.lock, and   *)
(* neither the device nor the driver uses a descriptor that is not offered. *)
(***************************************************************************)
EXTENDS Naturals, Sequences, FiniteSets, Functions

CONSTANTS Num,       \* NUM, which is also the size that the driver gives its queue
          IdxMod,    \* 2^16: where the indexes of the rings wrap
          Bufs,      \* buffers of the driver
          Across,    \* those that cross a page
          Pages,     \* the pages that kalloc() can give
          Nil,
          Patient,   \* TRUE: the driver takes a used entry only after
                     \* virtio_dev_intr() has moved past it
          AddrFirst  \* TRUE: the driver writes the address of a descriptor
                     \* before the length; of the other fields any order

Descs == 0 .. Num - 1

ASSUME VirtqueueAssumption ==
  /\ Num \in Nat \ {0} /\ IdxMod \in Nat /\ IdxMod % Num = 0 /\ IdxMod > Num
  /\ Across \subseteq Bufs /\ IsFiniteSet(Across) /\ IsFiniteSet(Pages)
  /\ Cardinality(Across) <= Cardinality(Pages)
  /\ Bufs \cap Pages = {}
  /\ Nil \notin Descs \cup Bufs \cup Pages
  /\ Patient \in BOOLEAN /\ AddrFirst \in BOOLEAN

VARIABLES ring,     \* vtdev.ring
          vq,       \* virtqueue: the address in each descriptor that the device reads
          data,     \* data[l]: what is in buffer or page l
          pool,     \* what kalloc() can give
          plan,     \* the driver: the descriptors of the request it writes, ...
          pos,      \* ... the position of the next, and what is left of
          unset,    \* its fields
          chain,    \* chain[h]: the descriptors of the request at h, <<>> if none
          dir,      \* dir[n]: "in" if the device writes to n, else "out"
          buf,      \* buf[n]: the driver's buffer for n
          avail,    \* the heads that the device has not served
          used,     \* the used ring, used->ring, and
          usedIdx,  \* used->idx, which the device moves
          lastIdx,  \* vtdev.last_used_idx
          seenIdx,  \* the driver's own index
          irq,      \* VIRTIO_MMIO_INTERRUPT_STATUS
          active,   \* interrupt 48 has gone on to the guest, which has not ended it
          at,       \* virtio_dev_intr(): "out", "loop" of the used entries, or
          id        \* "desc", at descriptor id of a chain

vars == <<ring, vq, data, pool, plan, pos, unset, chain, dir, buf,
          avail, used, usedIdx, lastIdx, seenIdx, irq, active, at, id>>
driverVars == <<plan, pos, unset, chain, dir, buf>>
ringVars == <<ring, vq, pool>>
usedVars == <<used, usedIdx, lastIdx, seenIdx>>
requestVars == <<chain, avail, usedVars, irq, active, at, id>>

Places == Bufs \cup Pages
Fields == {"addr", "len", "flags", "next"}
Unused == [ipa |-> Nil, real |-> Nil, across |-> FALSE, hasNext |-> FALSE, next |-> Nil]

TypeOK ==
  /\ ring \in [Descs -> [ipa : Bufs \cup {Nil}, real : Places \cup {Nil},
                         across : BOOLEAN, hasNext : BOOLEAN, next : Descs \cup {Nil}]]
  /\ vq \in [Descs -> Places \cup {Nil}]
  /\ data \in [Places -> {"out", "in", "other"}]
  /\ pool \subseteq Places
  /\ plan \in Seq(Descs) /\ pos \in Nat
  /\ unset \subseteq Fields
  /\ chain \in [Descs -> Seq(Descs)]
  /\ dir \in [Descs -> {"in", "out"}]
  /\ buf \in [Descs -> Bufs \cup {Nil}]
  /\ avail \subseteq Descs
  /\ used \in [Descs -> Descs]
  /\ usedIdx \in 0 .. IdxMod - 1 /\ lastIdx \in 0 .. IdxMod - 1 /\ seenIdx \in 0 .. IdxMod - 1
  /\ irq \in BOOLEAN /\ active \in BOOLEAN
  /\ at \in {"out", "loop", "desc"} /\ id \in Descs

Init ==
  /\ ring = [n \in Descs |-> Unused]
  /\ vq = [n \in Descs |-> Nil]
  /\ data = [l \in Places |-> "other"]
  /\ pool = Pages
  /\ plan = <<>> /\ pos = 1 /\ unset = {}
  /\ chain = [n \in Descs |-> <<>>]
  /\ dir = [n \in Descs |-> "in"]
  /\ buf = [n \in Descs |-> Nil]
  /\ avail = {}
  /\ used = [k \in Descs |-> 0]
  /\ usedIdx = 0 /\ lastIdx = 0 /\ seenIdx = 0
  /\ irq = FALSE /\ active = FALSE
  /\ at = "out" /\ id = 0

\* The descriptors of the requests that the driver has not taken back.
Busy == UNION {Range(chain[h]) : h \in Descs}

----------------------------------------------------------------------------
(* The driver writes a request.                                            *)

\* What is to be written at position k of request s: no next after the last.
ToWrite(s, k) == Fields \ (IF k < Len(s) THEN {} ELSE {"next"})

\* The driver takes free descriptors, as many as the request has buffers.
Request ==
  /\ plan = <<>>
  /\ \E k \in 1 .. Num : plan' \in Injection(1 .. k, Descs \ Busy)
  /\ pos' = 1 /\ unset' = ToWrite(plan', 1)
  /\ UNCHANGED <<ringVars, data, requestVars, dir, buf>>

\* A write of field f of descriptor n traps; vtdev.lock is free.  After the
\* last field the driver goes on to the next descriptor.
Writes(f, n) ==
  LET rest == unset \ {f}
      over == rest = {} /\ pos < Len(plan) IN
  /\ plan # <<>> /\ f \in unset /\ n = plan[pos]
  /\ at = "out"
  /\ pos' = IF over THEN pos + 1 ELSE pos
  /\ unset' = IF over THEN ToWrite(plan, pos + 1) ELSE rest

\* addr: the guest's address is kept, the device gets the host's.
SetAddr(n) ==
  /\ Writes("addr", n)
  /\ \E b \in Bufs \ Range(buf), d \in {"in", "out"} :
       /\ buf' = [buf EXCEPT ![n] = b]
       /\ dir' = [dir EXCEPT ![n] = d]
       /\ data' = [data EXCEPT ![b] = IF d = "out" THEN "out" ELSE "other"]
       /\ ring' = [ring EXCEPT ![n].ipa = b, ![n].real = b]
       /\ vq' = [vq EXCEPT ![n] = b]
  /\ UNCHANGED <<pool, plan, requestVars>>

\* addr = 0, with which the driver marks a descriptor that it has freed.
ClearAddr(n) ==
  /\ plan = <<>> /\ at = "out"
  /\ n \notin Busy /\ ring[n].ipa # Nil
  /\ ring' = [ring EXCEPT ![n].ipa = Nil, ![n].real = Nil]
  /\ vq' = [vq EXCEPT ![n] = Nil]
  /\ UNCHANGED <<pool, data, driverVars, requestVars>>

\* Mutant: the bounce page is not filled.
NotCopiedIn(n, p) ==
  /\ ring' = [ring EXCEPT ![n].real = p, ![n].across = TRUE]
  /\ vq' = [vq EXCEPT ![n] = p]
  /\ UNCHANGED data

\* A bounce page p for n: filled from the guest, and given to the device.
Bounce(n, p) ==
  /\ data' = [data EXCEPT ![p] = data[ring[n].ipa]]
  /\ ring' = [ring EXCEPT ![n].real = p, ![n].across = TRUE]
  /\ vq' = [vq EXCEPT ![n] = p]

\* len: a buffer that crosses a page needs a bounce page.
SetLen(n) ==
  /\ Writes("len", n)
  /\ AddrFirst => "addr" \notin unset
  /\ IF ring[n].real \in Across
       THEN \E p \in pool : pool' = pool \ {p} /\ Bounce(n, p)
       ELSE UNCHANGED <<ringVars, data>>
  /\ UNCHANGED <<plan, dir, buf, requestVars>>

\* flags: NEXT is kept.
SetFlags(n) ==
  /\ Writes("flags", n)
  /\ ring' = [ring EXCEPT ![n].hasNext = pos < Len(plan)]
  /\ UNCHANGED <<vq, pool, data, plan, dir, buf, requestVars>>

SetNext(n) ==
  /\ Writes("next", n)
  /\ ring' = [ring EXCEPT ![n].next = plan[pos + 1]]
  /\ UNCHANGED <<vq, pool, data, plan, dir, buf, requestVars>>

\* The driver puts the head in the available ring, which is only passed on.
Offer ==
  /\ plan # <<>> /\ unset = {}
  /\ chain' = [chain EXCEPT ![Head(plan)] = plan]
  /\ avail' = avail \cup {Head(plan)}
  /\ plan' = <<>> /\ pos' = 1
  /\ UNCHANGED <<ringVars, data, unset, dir, buf, usedVars, irq, active, at, id>>

----------------------------------------------------------------------------
(* The device, and virtio_dev_intr().                                      *)

\* The entry of the used ring for an index, and the next index.
Entry(k) == used[k % Num]
NextIdx(k) == (k + 1) % IdxMod

\* The device serves the request at h, adds it to the used ring, and raises
\* its interrupt.
Serve(h) ==
  LET filled == {vq[n] : n \in {m \in Range(chain[h]) : dir[m] = "in"}} IN
  /\ h \in avail
  /\ avail' = avail \ {h}
  /\ data' = [l \in Places |-> IF l \in filled THEN "in" ELSE data[l]]
  /\ used' = [used EXCEPT ![usedIdx % Num] = h]
  /\ usedIdx' = NextIdx(usedIdx)
  /\ irq' = TRUE
  /\ UNCHANGED <<ringVars, driverVars, lastIdx, seenIdx, active, at, id>>

\* Lock, and acknowledge.  The GIC has no new interrupt 48 while one is active.
IntrStart ==
  /\ at = "out" /\ irq /\ ~ active
  /\ irq' = FALSE
  /\ at' = "loop"
  /\ UNCHANGED <<ringVars, data, driverVars, avail, usedVars, active, id>>

\* Compare last_used_idx with used->idx, which the device moves.  When they
\* are the same, the interrupt goes on to the guest.
IntrNext ==
  /\ at = "loop"
  /\ IF lastIdx = usedIdx
       THEN at' = "out" /\ active' = TRUE /\ UNCHANGED id
       ELSE at' = "desc" /\ id' = Entry(lastIdx) /\ UNCHANGED active
  /\ UNCHANGED <<ringVars, data, driverVars, avail, usedVars, irq>>

\* Mutant: kfree() is forgotten.
KeepPage(n) ==
  /\ data' = [data EXCEPT ![ring[n].ipa] = data[ring[n].real]]
  /\ ring' = [ring EXCEPT ![n].across = FALSE]
  /\ UNCHANGED pool

\* Mutant: the page is freed but not copied back.
NotCopiedOut(n) ==
  /\ data' = [data EXCEPT ![ring[n].real] = "other"]
  /\ pool' = pool \cup {ring[n].real}
  /\ ring' = [ring EXCEPT ![n].across = FALSE]

\* Copy the bounce page of n back, and free it: kfree() erases it.
CopyBack(n) ==
  LET d == ring[n] IN
  /\ data' = [data EXCEPT ![d.ipa] = data[d.real], ![d.real] = "other"]
  /\ pool' = pool \cup {d.real}
  /\ ring' = [ring EXCEPT ![n].across = FALSE]

\* Mutant: next is followed without a look at has_next.
IgnoreHasNext(n) ==
  id' = ring[n].next /\ UNCHANGED <<at, lastIdx>>

\* Mutant: if instead of while: one used entry for one interrupt.
OneEntry(n) ==
  IF ring[n].hasNext
    THEN id' = ring[n].next /\ UNCHANGED <<at, lastIdx>>
    ELSE at' = "out" /\ id' = 0 /\ lastIdx' = NextIdx(lastIdx)

\* To the next descriptor of the chain, or else to the next used entry.
Walk(n) ==
  IF ring[n].hasNext
    THEN id' = ring[n].next /\ UNCHANGED <<at, lastIdx>>
    ELSE at' = "loop" /\ id' = 0 /\ lastIdx' = NextIdx(lastIdx)

IntrDesc(n) ==
  /\ at = "desc" /\ id = n
  /\ IF ring[n].across THEN CopyBack(n) ELSE UNCHANGED <<data, pool, ring>>
  /\ Walk(n)
  /\ UNCHANGED <<vq, driverVars, avail, used, usedIdx, seenIdx, irq, active>>

\* The driver takes the next used entry and frees its descriptors and buffers.
\* The entry is not read again once virtio_dev_intr() has passed it too.
See ==
  /\ seenIdx # usedIdx
  /\ Patient => seenIdx # lastIdx
  /\ LET ns == Range(chain[Entry(seenIdx)]) IN
       /\ buf' = [n \in Descs |-> IF n \in ns THEN Nil ELSE buf[n]]
       /\ dir' = [n \in Descs |-> IF n \in ns THEN "in" ELSE dir[n]]
       /\ data' = [l \in Places |->
                     IF l \in {buf[n] : n \in ns} THEN "other" ELSE data[l]]
  /\ chain' = [chain EXCEPT ![Entry(seenIdx)] = <<>>]
  /\ used' = IF seenIdx # lastIdx THEN [used EXCEPT ![seenIdx % Num] = 0] ELSE used
  /\ seenIdx' = NextIdx(seenIdx)
  /\ UNCHANGED <<ringVars, plan, pos, unset, avail, usedIdx, lastIdx, irq, active, at, id>>

\* The guest ends interrupt 48.
Eoi ==
  /\ active /\ active' = FALSE
  /\ UNCHANGED <<ringVars, data, driverVars, avail, usedVars, irq, at, id>>

Intr == IntrStart \/ IntrNext \/ \E n \in Descs : IntrDesc(n)

Next ==
  \/ Request \/ Offer \/ See \/ Intr \/ Eoi
  \/ \E n \in Descs : SetAddr(n) \/ ClearAddr(n) \/ SetLen(n) \/ SetFlags(n) \/ SetNext(n)
  \/ \E h \in Descs : Serve(h)

\* The interrupt is taken while its status is set and it is not active, and the
\* handler runs on.  The guest ends the interrupts that it gets; nothing else is
\* asked of the driver, and nothing of the device.
Spec == Init /\ [][Next]_vars /\ WF_vars(Intr) /\ WF_vars(Eoi)

----------------------------------------------------------------------------
(* Properties.                                                             *)

Bounced == {n \in Descs : ring[n].across}

\* Every bounce page is either free or held by exactly one descriptor: the
\* handler frees each page that a descriptor took once, and frees nothing that
\* is not a page of kalloc().  A lost page is lost for good, and a buffer of the
\* guest in the free list would be handed out (virtio-mmio-dev.c:73-77, 189-194).
NoLeak ==
  /\ pool = Pages \ {ring[n].real : n \in Bounced}
  /\ \A n, m \in Bounced : ring[n].real = ring[m].real => n = m

\* When the device reads a buffer, it reads what the driver put there, in the
\* buffer itself or in the copy that was made as the length was written
\* (virtio-mmio-dev.c:72-84).
DeviceReadsGuestData ==
  [][\A h \in Descs : Serve(h) =>
       \A n \in Range(chain[h]) : dir[n] = "out" => data[vq[n]] = "out"]_vars

\* When virtio_dev_intr() moves past a used entry, after which the interrupt
\* goes on to the guest, each buffer of the request that the device was to fill
\* holds what the device wrote (virtio-mmio-dev.c:184-201).
HandsOver ==
  [][lastIdx' # lastIdx =>
       \A n \in Range(chain[Entry(lastIdx)]) : dir[n] = "in" => data'[buf[n]] = "in"]_vars

\* virtio_dev_intr() gets to every used entry, also to one that the device adds
\* after the interrupt was acknowledged (virtio-mmio-dev.c:182-202).
HandedBack ==
  \A k \in 0 .. IdxMod - 1 : lastIdx = k /\ usedIdx # k ~> lastIdx = NextIdx(k)
=============================================================================
