--------------------------- MODULE VirtqueueProofs ---------------------------
(***************************************************************************)
(* Proofs about Virtqueue, for queues, buffers and pages of any number and  *)
(* chains of any length, for a driver that writes the address of a          *)
(* descriptor before its length and takes a used entry after                *)
(* virtio_dev_intr() (Patient, AddrFirst).  What another driver would meet   *)
(* is in the README.                                                        *)
(*                                                                          *)
(* A descriptor holds a buffer from the write of its address until the      *)
(* driver takes the request back (Held), and only such a one has a bounce   *)
(* page (Holding).  The indexes of the rings wrap: they stand for three     *)
(* numbers that only grow, of which the used ring holds the last (Rings).   *)
(***************************************************************************)
EXTENDS Virtqueue, SequenceTheorems, FiniteSetTheorems, TLAPS

\* Where the data of n is: what the device reads and writes.
Loc(n) == IF ring[n].across THEN ring[n].real ELSE buf[n]

\* The driver has written field f of the descriptor at position k of its plan.
Done(k, f) == k < pos \/ (k = pos /\ f \notin unset)

Planned == {n \in Descs : \E k \in DOMAIN plan : plan[k] = n /\ Done(k, "addr")}
Offered == {n \in Descs : \E h \in avail : n \in Range(chain[h])}
Held == Busy \cup Planned

\* The chain s is as its descriptors say.
Wired(s) == \A k \in DOMAIN s :
  /\ ring[s[k]].hasNext <=> k < Len(s)
  /\ k < Len(s) => ring[s[k]].next = s[k + 1]

\* The driver writes one request at a time, of descriptors that are free.
Planning ==
  /\ \A j, k \in DOMAIN plan : plan[j] = plan[k] => j = k
  /\ \A k \in DOMAIN plan : plan[k] \notin Busy
  /\ plan # <<>> => /\ pos \in DOMAIN plan /\ unset \subseteq ToWrite(plan, pos)
                    /\ unset = {} => pos = Len(plan)
                    /\ "addr" \in unset => "len" \in unset
  /\ \A k \in DOMAIN plan :
       /\ ~ Done(k, "len") => ~ ring[plan[k]].across
       /\ Done(k, "flags") => (ring[plan[k]].hasNext <=> k < Len(plan))
       /\ k < Len(plan) /\ Done(k, "next") => ring[plan[k]].next = plan[k + 1]

\* The requests that it has not taken back have no descriptor in common.
Chaining ==
  /\ \A h \in avail : chain[h] # <<>>
  /\ \A h \in Descs : chain[h] # <<>> => chain[h][1] = h
  /\ \A g, h \in Descs, n \in Descs : n \in Range(chain[g]) /\ n \in Range(chain[h]) => g = h
  /\ \A h \in Descs : Wired(chain[h])

\* What a descriptor holds is its own.
Holding ==
  /\ \A n \in Held : buf[n] \in Bufs /\ ring[n].ipa = buf[n]
  /\ \A n \in Descs \ Held : ~ ring[n].across
  /\ \A n, m \in Descs : buf[n] # Nil /\ buf[n] = buf[m] => n = m
  /\ \A n \in Bounced : ring[n].real \in Pages
  /\ NoLeak

\* What the device has not served it can, and finds what the driver put there.
Ready ==
  \A n \in Planned \cup Offered :
    /\ vq[n] = Loc(n)
    /\ dir[n] = "out" => data[Loc(n)] = "out"

\* s requests have been taken back, l gone through and u served.
Indexes(s, l, u) ==
  /\ s <= l /\ l <= u /\ u <= s + Num
  /\ seenIdx = s % IdxMod /\ lastIdx = l % IdxMod /\ usedIdx = u % IdxMod

At(k) == used[k % Num]

Served(s, l, u) ==
  /\ \A k \in s .. u - 1 : chain[At(k)] # <<>> /\ At(k) \notin avail
  /\ \A j, k \in s .. u - 1 : At(j) = At(k) => j = k
  /\ \A k \in s .. u - 1 : \A n \in Range(chain[At(k)]) :
       dir[n] = "in" => data[Loc(n)] = "in"
  /\ \A k \in s .. l - 1 : \A n \in Range(chain[At(k)]) : ~ ring[n].across

\* virtio_dev_intr() goes along the chain of entry l.
Going(l, u) ==
  at = "desc" =>
    /\ l < u
    /\ \E k \in DOMAIN chain[At(l)] :
         /\ id = chain[At(l)][k]
         /\ \A j \in 1 .. k - 1 : ~ ring[chain[At(l)][j]].across

Rings == \E s, l, u \in Nat : Indexes(s, l, u) /\ Served(s, l, u) /\ Going(l, u)

IInv == TypeOK /\ Planning /\ Chaining /\ Holding /\ Ready /\ Rings


-----------------------------------------------------------------------------
(* The remainder, which the library has no facts about. *)

LEMMA Division ==
  ASSUME NEW m \in Nat \ {0}, NEW a \in Nat
  PROVE  \E q \in Nat, r \in 0 .. m - 1 : a = m * q + r /\ a % m = r
<1>1. a % m \in 0 .. m - 1
  OBVIOUS
<1>2. a = m * (a \div m) + (a % m)
  OBVIOUS
<1>3. a \div m \in Nat
  OBVIOUS
<1> QED
  BY <1>1, <1>2, <1>3

LEMMA Remainder ==
  ASSUME NEW m \in Nat \ {0}, NEW q \in Nat, NEW r \in 0 .. m - 1
  PROVE  (m * q + r) % m = r
OBVIOUS

LEMMA NextMod ==
  ASSUME NEW m \in Nat \ {0}, NEW a \in Nat
  PROVE (a + 1) % m = ((a % m) + 1) % m
<1>1. PICK q \in Nat, r \in 0 .. m - 1 : a = m * q + r /\ a % m = r
  BY Division
<1>2. CASE r + 1 < m
  <2>1. r + 1 \in 0 .. m - 1
    BY <1>2
  <2>2. (m * q + (r + 1)) % m = r + 1
    BY <2>1, Remainder
  <2>3. (m * 0 + (r + 1)) % m = r + 1
    BY <2>1, Remainder
  <2>4. m * q + (r + 1) = a + 1
    BY <1>1
  <2> QED
    BY <1>1, <2>2, <2>3, <2>4
<1>3. CASE r + 1 = m
  <2>1. (m * (q + 1) + 0) % m = 0
    BY Remainder
  <2>2. (m * 1 + 0) % m = 0
    BY Remainder
  <2>3. m * (q + 1) + 0 = a + 1 /\ m * 1 + 0 = r + 1
    BY <1>1, <1>3
  <2> QED
    BY <1>1, <2>1, <2>2, <2>3
<1> QED
  BY <1>2, <1>3

LEMMA SameMod ==
  ASSUME NEW m \in Nat \ {0}, NEW a \in Nat, NEW b \in Nat, a < b, b < a + m
  PROVE a % m # b % m
<1>1. PICK q \in Nat, r \in 0 .. m - 1 : a = m * q + r /\ a % m = r
  BY Division
<1>2. PICK p \in Nat, s \in 0 .. m - 1 : b = m * p + s /\ b % m = s
  BY Division
<1>3. SUFFICES ASSUME r = s PROVE FALSE
  BY <1>1, <1>2
<1>4. m * q < m * p /\ m * p < m * q + m
  BY <1>1, <1>2, <1>3
<1>5. ASSUME p <= q PROVE m * p <= m * q
  BY <1>5
<1>6. ASSUME q + 1 <= p PROVE m * (q + 1) <= m * p
  BY <1>6
<1>7. m * (q + 1) = m * q + m
  OBVIOUS
<1> QED
  BY <1>4, <1>5, <1>6, <1>7

LEMMA ModMod ==
  ASSUME NEW m \in Nat \ {0}, NEW n \in Nat \ {0}, n % m = 0, NEW a \in Nat
  PROVE (a % n) % m = a % m
<1>1. PICK k \in Nat, z \in 0 .. m - 1 : n = m * k + z /\ n % m = z
  BY Division
<1>2. PICK q \in Nat, r \in 0 .. n - 1 : a = n * q + r /\ a % n = r
  BY Division
<1>3. PICK p \in Nat, s \in 0 .. m - 1 : r = m * p + s /\ r % m = s
  <2>1. r \in Nat
    OBVIOUS
  <2> QED
    BY <2>1, Division
<1>4. a = m * (k * q + p) + s
  <2>1. n = m * k
    BY <1>1
  <2>2. a = (m * k) * q + (m * p + s)
    BY <1>2, <1>3, <2>1
  <2>3. (m * k) * q = m * (k * q) /\ m * (k * q) + m * p = m * (k * q + p)
    OBVIOUS
  <2>4. a = m * (k * q) + (m * p + s)
    BY <2>2, <2>3
  <2>5. m * (k * q) \in Nat /\ m * p \in Nat /\ s \in Nat
    OBVIOUS
  <2>6. a = (m * (k * q) + m * p) + s
    BY <2>4, <2>5
  <2> QED
    BY <2>3, <2>6
<1>5. k * q + p \in Nat
  OBVIOUS
<1>6. (m * (k * q + p) + s) % m = s
  BY <1>5, Remainder
<1> QED
  BY <1>2, <1>3, <1>4, <1>6
-----------------------------------------------------------------------------
(* The indexes of the rings *)

LEMMA Numbers ==
  /\ Num \in Nat \ {0} /\ IdxMod \in Nat \ {0} /\ IdxMod % Num = 0 /\ IdxMod > Num
  /\ 0 \in Descs /\ Descs \subseteq Nat
  /\ Bufs \cap Pages = {} /\ Nil \notin Descs /\ Nil \notin Bufs /\ Nil \notin Pages
BY VirtqueueAssumption DEF Descs

\* Slots of the used ring that are less than Num apart are different.
LEMMA Slots ==
  ASSUME NEW a \in Nat, NEW b \in Nat, a < b, b < a + Num
  PROVE  a % Num # b % Num
BY Numbers, SameMod

\* The number that an index stands for.
LEMMA SameIdx ==
  ASSUME NEW a \in Nat, NEW b \in Nat, a <= b, b <= a + Num
  PROVE  a % IdxMod = b % IdxMod <=> a = b
<1>1. IdxMod \in Nat \ {0} /\ b < a + IdxMod
  BY Numbers
<1>2. ASSUME a < b PROVE a % IdxMod # b % IdxMod
  BY <1>1, <1>2, SameMod
<1> QED
  BY <1>2

LEMMA EntryAt ==
  ASSUME NEW k \in Nat
  PROVE  /\ (k % IdxMod) % Num = k % Num
         /\ NextIdx(k % IdxMod) = (k + 1) % IdxMod
         /\ k % IdxMod \in 0 .. IdxMod - 1 /\ k % Num \in Descs
         /\ Entry(k % IdxMod) = At(k)
<1>1. (k % IdxMod) % Num = k % Num
  BY Numbers, ModMod
<1>2. (k + 1) % IdxMod = ((k % IdxMod) + 1) % IdxMod
  BY Numbers, NextMod
<1>3. k % IdxMod \in 0 .. IdxMod - 1 /\ k % Num \in Descs
  BY Numbers DEF Descs
<1> QED
  BY <1>1, <1>2, <1>3 DEF NextIdx, Entry, At

\* Num - 1 requests at most are served and not taken back while the device
\* has one to serve.
LEMMA Room ==
  ASSUME NEW s \in Nat, NEW u \in Nat, s <= u, NEW h \in Descs,
         \A k \in s .. u - 1 : At(k) \in Descs \ {h},
         \A j, k \in s .. u - 1 : At(j) = At(k) => j = k
  PROVE  u + 1 <= s + Num
<1> DEFINE f == [k \in s .. u - 1 |-> At(k)]
<1>1. f \in Injection(s .. u - 1, Descs \ {h})
  <2>1. f \in [s .. u - 1 -> Descs \ {h}]
    OBVIOUS
  <2>2. ASSUME NEW j \in s .. u - 1, NEW k \in s .. u - 1, f[j] = f[k] PROVE j = k
    BY <2>2
  <2> QED
    BY <2>1, <2>2 DEF Injection, IsInjective
<1>2. IsFiniteSet(Descs) /\ Cardinality(Descs) = Num
  <2>1. 0 \in Int /\ Num - 1 \in Int /\ Num > 0
    BY Numbers
  <2>2. IsFiniteSet(0 .. Num - 1)
        /\ Cardinality(0 .. Num - 1) = IF 0 > Num - 1 THEN 0 ELSE (Num - 1) - 0 + 1
    BY <2>1, FS_Interval
  <2>3. Num \in Nat \ {0}
    BY Numbers
  <2> QED
    BY <2>2, <2>3 DEF Descs
<1>3. IsFiniteSet(Descs \ {h}) /\ Cardinality(Descs \ {h}) = Num - 1
  BY <1>2, FS_RemoveElement
<1>4. Cardinality(s .. u - 1) <= Num - 1
  BY <1>1, <1>3, FS_Injection
<1>5. Cardinality(s .. u - 1) = u - s
  <2>1. s \in Int /\ u - 1 \in Int
    OBVIOUS
  <2>2. Cardinality(s .. u - 1) = IF s > u - 1 THEN 0 ELSE (u - 1) - s + 1
    BY <2>1, FS_Interval
  <2> QED
    BY <2>2
<1> QED
  BY <1>4, <1>5, Numbers

-----------------------------------------------------------------------------
(* What the parts of the invariant say together *)

LEMMA Heads ==
  ASSUME TypeOK, Chaining
  PROVE  /\ \A h \in Descs : chain[h] # <<>> => 1 \in DOMAIN chain[h] /\ h \in Range(chain[h])
         /\ \A h \in Descs : Range(chain[h]) \subseteq Busy
         /\ \A n \in Busy : \E h \in Descs : n \in Range(chain[h])
         /\ Busy \subseteq Descs /\ Offered \subseteq Busy
<1>1. ASSUME NEW h \in Descs
      PROVE  /\ Range(chain[h]) \subseteq Descs /\ Range(chain[h]) \subseteq Busy
             /\ chain[h] # <<>> => 1 \in DOMAIN chain[h] /\ h \in Range(chain[h])
  <2>1. chain[h] \in Seq(Descs)
    BY DEF TypeOK
  <2>2. ASSUME chain[h] # <<>> PROVE 1 \in DOMAIN chain[h]
    BY <2>1, <2>2, EmptySeq, LenProperties
  <2>3. Range(chain[h]) \subseteq Descs
    BY <2>1, ElementOfSeq, LenProperties DEF Range
  <2> QED
    BY <2>2, <2>3 DEF Chaining, Busy, Range
<1>2. \A n \in Busy : \E h \in Descs : n \in Range(chain[h])
  BY DEF Busy
<1>3. avail \subseteq Descs
  BY DEF TypeOK
<1> QED
  BY <1>1, <1>2, <1>3 DEF Offered

\* No two descriptors have a place in common.
LEMMA Own ==
  ASSUME TypeOK, Holding, Busy \subseteq Descs
  PROVE  /\ Held \subseteq Descs /\ Planned \subseteq Held /\ Bounced \subseteq Held
         /\ \A n \in Held : buf[n] \in Bufs /\ Loc(n) \in Places
         /\ \A n, m \in Held : Loc(n) = Loc(m) => n = m
         /\ \A n, m \in Held : buf[n] = Loc(m) => n = m
         /\ \A n \in Bounced : Loc(n) = ring[n].real /\ ring[n].real \in Pages
         /\ \A n \in Held \ Bounced : Loc(n) = buf[n]
<1>1. Held \subseteq Descs /\ Planned \subseteq Held /\ Bounced \subseteq Held
  BY DEF Held, Planned, Bounced, Holding
<1>2. \A n \in Bounced : Loc(n) = ring[n].real /\ ring[n].real \in Pages
  BY DEF Bounced, Holding, Loc
<1>3. \A n \in Held \ Bounced : Loc(n) = buf[n]
  BY <1>1 DEF Bounced, Loc
<1>4. \A n \in Held : buf[n] \in Bufs /\ buf[n] # Nil
  BY Numbers DEF Holding
<1>5. \A n \in Held : Loc(n) \in Places
  BY <1>2, <1>3, <1>4 DEF Places
<1>6. ASSUME NEW n \in Held, NEW m \in Held, buf[n] = Loc(m) PROVE n = m
  <2>1. m \notin Bounced
    BY <1>2, <1>4, <1>6, Numbers
  <2> QED
    BY <1>1, <1>3, <1>4, <1>6, <2>1 DEF Holding
<1>7. ASSUME NEW n \in Held, NEW m \in Held, Loc(n) = Loc(m) PROVE n = m
  <2>1. CASE n \notin Bounced
    BY <1>3, <1>6, <1>7, <2>1
  <2>2. CASE m \notin Bounced
    BY <1>3, <1>6, <1>7, <2>2
  <2>3. CASE n \in Bounced /\ m \in Bounced
    BY <1>2, <1>7, <2>3 DEF Holding, NoLeak
  <2> QED
    BY <2>1, <2>2, <2>3
<1> QED
  BY <1>1, <1>2, <1>3, <1>4, <1>5, <1>6, <1>7

\* The driver writes a request in descriptors that are in no other.
LEMMA Plan ==
  ASSUME TypeOK, Planning
  PROVE  /\ Len(plan) \in Nat /\ DOMAIN plan = 1 .. Len(plan)
         /\ \A k \in DOMAIN plan : plan[k] \in Descs
         /\ \A n \in Planned : n \notin Busy
         /\ plan = <<>> => Planned = {}
<1>1. Len(plan) \in Nat /\ DOMAIN plan = 1 .. Len(plan)
  BY LenProperties DEF TypeOK
<1>2. \A k \in DOMAIN plan : plan[k] \in Descs
  BY ElementOfSeq, <1>1 DEF TypeOK
<1>3. plan = <<>> => DOMAIN plan = {}
  BY <1>1
<1> QED
  BY <1>1, <1>2, <1>3 DEF Planned, Planning

\* What a write of field f of n changes in the driver's position.
LEMMA Written ==
  ASSUME TypeOK, Planning, NEW n \in Descs, NEW f \in Fields, Writes(f, n),
         plan' = plan, f = "len" => "addr" \notin unset
  PROVE  /\ pos \in DOMAIN plan /\ plan[pos] = n /\ ~ Done(pos, f)
         /\ n \notin Busy /\ plan # <<>>
         /\ f = "next" => pos < Len(plan)
         /\ \A k \in DOMAIN plan : plan[k] = n <=> k = pos
         /\ pos' \in DOMAIN plan /\ unset' \subseteq ToWrite(plan, pos')
         /\ unset' = {} => pos' = Len(plan)
         /\ "addr" \in unset' => "len" \in unset'
         /\ \A k \in DOMAIN plan, g \in Fields :
              (g = "next" => k < Len(plan)) =>
                (Done(k, g)' <=> Done(k, g) \/ (k = pos /\ g = f))
<1>1. /\ plan # <<>> /\ f \in unset /\ n = plan[pos] /\ pos \in DOMAIN plan
      /\ unset \subseteq ToWrite(plan, pos) /\ unset \subseteq Fields
  BY DEF Planning, Writes, TypeOK
<1>2. Len(plan) \in Nat /\ DOMAIN plan = 1 .. Len(plan)
  BY Plan
<1>3. f = "next" => pos < Len(plan)
  BY <1>1 DEF ToWrite
<1>4. \A k \in DOMAIN plan : plan[k] = n <=> k = pos
  BY <1>1 DEF Planning
<1>5. ~ Done(pos, f) /\ n \notin Busy
  BY <1>1, <1>2 DEF Done, Planning
<1>6. CASE unset \ {f} = {} /\ pos < Len(plan)
  <2>1. pos' = pos + 1 /\ unset' = ToWrite(plan, pos + 1)
    BY <1>6 DEF Writes
  <2>2. /\ pos + 1 \in DOMAIN plan
        /\ {"addr", "len", "flags"} \subseteq unset'
        /\ pos + 1 < Len(plan) => "next" \in unset'
    BY <1>2, <1>1, <1>6, <2>1 DEF ToWrite, Fields
  <2>3. ASSUME NEW k \in DOMAIN plan, NEW g \in Fields, g = "next" => k < Len(plan)
        PROVE  Done(k, g)' <=> Done(k, g) \/ (k = pos /\ g = f)
    <3>1. k = pos + 1 => g \in unset'
      BY <2>2, <2>3 DEF Fields
    <3>2. Done(k, g)' <=> k <= pos
      BY <1>2, <1>1, <2>1, <3>1 DEF Done
    <3>3. k = pos => (g \notin unset <=> g # f)
      BY <1>1, <1>6
    <3> QED
      BY <3>2, <3>3, <1>2, <1>1 DEF Done
  <2> QED
    BY <1>1, <1>3, <1>4, <1>5, <2>1, <2>2, <2>3
<1>7. CASE ~ (unset \ {f} = {} /\ pos < Len(plan))
  <2>1. pos' = pos /\ unset' = unset \ {f}
    BY <1>7 DEF Writes
  <2>2. unset' = {} => pos' = Len(plan)
    BY <1>1, <1>2, <1>7, <2>1
  <2>3. "addr" \in unset' => "len" \in unset'
    BY <1>1, <2>1 DEF Planning
  <2>4. \A k \in DOMAIN plan, g \in Fields :
          Done(k, g)' <=> Done(k, g) \/ (k = pos /\ g = f)
    BY <2>1 DEF Done
  <2> QED
    BY <1>1, <1>3, <1>4, <1>5, <2>1, <2>2, <2>3, <2>4
<1> QED
  BY <1>6, <1>7

-----------------------------------------------------------------------------
(* The driver *)

\* What the used ring stands for is as it was when no request in it is touched.
LEMMA RingsKept ==
  ASSUME TypeOK, Chaining, Rings, UNCHANGED <<chain, avail, usedVars, at, id>>,
         \A n \in Busy : /\ dir'[n] = dir[n] /\ (ring'[n].across <=> ring[n].across)
                         /\ data'[Loc(n)'] = data[Loc(n)]
  PROVE  Rings'
<1>1. PICK s \in Nat, l \in Nat, u \in Nat : Indexes(s, l, u) /\ Served(s, l, u) /\ Going(l, u)
  BY DEF Rings
<1>2. /\ chain' = chain /\ avail' = avail /\ used' = used /\ at' = at /\ id' = id
      /\ usedIdx' = usedIdx /\ lastIdx' = lastIdx /\ seenIdx' = seenIdx
  BY DEF usedVars
<1>3. \A k \in Nat : At(k)' = At(k) /\ At(k) \in Descs
  <2>1. \A k \in Nat : k % Num \in Descs
    BY EntryAt
  <2> QED
    BY <1>2, <2>1 DEF At, TypeOK
<1>4. \A k \in s .. u - 1 : k \in Nat
  OBVIOUS
<1>5. Indexes(s, l, u)'
  BY <1>1, <1>2 DEF Indexes
<1>6. \A k \in Nat : Range(chain[At(k)]) \subseteq Busy
  BY <1>3, Heads
<1>7. \A k \in s .. l - 1 : k \in Nat
  OBVIOUS
<1>8. Served(s, l, u)'
  <2>1. \A k \in s .. u - 1 : (chain[At(k)] # <<>> /\ At(k) \notin avail)'
    BY <1>1, <1>2, <1>3, <1>4 DEF Served
  <2>2. \A j, k \in s .. u - 1 : (At(j) = At(k))' => j = k
    BY <1>1, <1>3, <1>4 DEF Served
  <2>3. ASSUME NEW k \in s .. u - 1, NEW n \in Range(chain'[At(k)']), dir'[n] = "in"
        PROVE  data'[Loc(n)'] = "in"
    <3>1. n \in Range(chain[At(k)]) /\ n \in Busy
      BY <1>2, <1>3, <1>4, <1>6, <2>3
    <3> QED
      BY <3>1, <1>1, <2>3 DEF Served
  <2>4. ASSUME NEW k \in s .. l - 1, NEW n \in Range(chain'[At(k)'])
        PROVE  ~ ring'[n].across
    <3>1. n \in Range(chain[At(k)]) /\ n \in Busy
      BY <1>2, <1>3, <1>6, <1>7, <2>4
    <3> QED
      BY <3>1, <1>1 DEF Served
  <2> QED
    BY <2>1, <2>2, <2>3, <2>4 DEF Served
<1>9. Going(l, u)'
  <2> SUFFICES ASSUME at = "desc"
               PROVE  /\ l < u
                      /\ \E k \in DOMAIN chain[At(l)] :
                           /\ id = chain[At(l)][k]
                           /\ \A j \in 1 .. k - 1 : ~ ring'[chain[At(l)][j]].across
    BY <1>2, <1>3 DEF Going
  <2>1. l < u
    BY <1>1 DEF Going
  <2>2. PICK k \in DOMAIN chain[At(l)] :
               /\ id = chain[At(l)][k]
               /\ \A j \in 1 .. k - 1 : ~ ring[chain[At(l)][j]].across
    BY <1>1 DEF Going
  <2>3. \A j \in 1 .. k - 1 : chain[At(l)][j] \in Range(chain[At(l)])
    <3>1. DOMAIN chain[At(l)] = 1 .. Len(chain[At(l)]) /\ Len(chain[At(l)]) \in Nat
      BY <1>3, LenProperties DEF TypeOK
    <3> QED
      BY <3>1 DEF Range
  <2>4. \A j \in 1 .. k - 1 : ~ ring'[chain[At(l)][j]].across
    BY <1>6, <2>2, <2>3
  <2> QED
    BY <2>1, <2>2, <2>4
<1> QED
  BY <1>5, <1>8, <1>9 DEF Rings

\* The same for requests, whose descriptors are untouched.
LEMMA ChainingKept ==
  ASSUME TypeOK, Chaining, chain' = chain, avail' \subseteq avail,
         \A n \in Busy : /\ ring'[n].hasNext <=> ring[n].hasNext
                         /\ ring'[n].next = ring[n].next
  PROVE  Chaining' /\ Busy' = Busy
<1>1. Busy' = Busy
  BY DEF Busy
<1>2. \A h \in Descs : \A k \in DOMAIN chain[h] : chain[h][k] \in Busy
  BY Heads DEF Range
<1>3. \A h \in Descs : Wired(chain[h])'
  BY <1>2 DEF Chaining, Wired
<1> QED
  BY <1>1, <1>3 DEF Chaining

LEMMA RequestInductive ==
  ASSUME IInv, Request
  PROVE  IInv'
<1> USE DEF IInv
<1>1. PICK c \in 1 .. Num : plan' \in Injection(1 .. c, Descs \ Busy)
  BY DEF Request
<1>2. /\ plan = <<>> /\ pos' = 1 /\ unset' = ToWrite(plan', 1)
      /\ ring' = ring /\ vq' = vq /\ pool' = pool /\ data' = data /\ chain' = chain
      /\ avail' = avail /\ dir' = dir /\ buf' = buf /\ irq' = irq
      /\ active' = active /\ at' = at /\ id' = id
      /\ UNCHANGED usedVars
  BY DEF Request, ringVars, requestVars
<1>3. /\ plan' \in Seq(Descs) /\ plan' # <<>> /\ 1 \in DOMAIN plan'
      /\ \A k \in DOMAIN plan' : plan'[k] \in Descs \ Busy
      /\ \A j, k \in DOMAIN plan' : plan'[j] = plan'[k] => j = k
      /\ DOMAIN plan' = 1 .. Len(plan')
  <2>1. c \in Nat /\ 1 <= c
    BY Numbers
  <2>2. /\ plan' \in [1 .. c -> Descs \ Busy]
        /\ \A j, k \in 1 .. c : plan'[j] = plan'[k] => j = k
    BY <1>1 DEF Injection, IsInjective
  <2>3. plan' \in [1 .. c -> Descs]
    BY <2>2
  <2>4. plan' \in Seq(Descs) /\ Len(plan') = c
    BY <2>1, <2>3, SeqDef, LenProperties
  <2>5. DOMAIN plan' = 1 .. c /\ 1 \in 1 .. c
    BY <2>1, <2>2
  <2> QED
    BY <2>2, <2>4, <2>5
<1>4. /\ unset' \subseteq Fields /\ {"addr", "len", "flags"} \subseteq unset'
      /\ 1 < Len(plan') => "next" \in unset'
  BY <1>2 DEF ToWrite, Fields
<1>5. TypeOK'
  BY <1>2, <1>3, <1>4 DEF TypeOK, usedVars
<1>6. Chaining' /\ Busy' = Busy
  BY <1>2, ChainingKept
<1>7. Planned = {}
  BY <1>2, Plan
<1>8. ASSUME NEW k \in DOMAIN plan', NEW f \in Fields, Done(k, f)'
      PROVE  f = "next" /\ k = Len(plan')
  <2>1. k = 1 /\ f \notin unset'
    BY <1>2, <1>3, <1>8 DEF Done
  <2>2. f = "next" /\ ~ (1 < Len(plan'))
    BY <1>4, <2>1 DEF Fields
  <2>3. Len(plan') \in Nat
    BY <1>3, LenProperties
  <2> QED
    BY <1>3, <2>1, <2>2, <2>3
<1>9. Planned' = {}
  BY <1>8 DEF Planned, Fields
<1>10. Held' = Held
  BY <1>6, <1>7, <1>9 DEF Held
<1>11. Planning'
  <2>1. \A k \in DOMAIN plan' : plan'[k] \notin Busy' /\ ~ ring'[plan'[k]].across
    BY <1>2, <1>3, <1>6, <1>7 DEF Held, Holding
  <2>2. /\ 1 \in DOMAIN plan' /\ unset' \subseteq ToWrite(plan', 1)
        /\ unset' # {} /\ "len" \in unset'
    BY <1>2, <1>3, <1>4
  <2>3. \A k \in DOMAIN plan' :
          /\ ~ Done(k, "flags")'
          /\ k < Len(plan') => ~ Done(k, "next")'
    <3>1. "flags" \in Fields /\ "next" \in Fields
      BY DEF Fields
    <3>2. Len(plan') \in Nat
      BY <1>3, LenProperties
    <3> QED
      BY <1>3, <1>8, <3>1, <3>2
  <2> QED
    BY <1>2, <1>3, <2>1, <2>2, <2>3 DEF Planning
<1>12. Holding'
  BY <1>2, <1>10 DEF Holding, Bounced, NoLeak
<1>13. Ready'
  BY <1>2, <1>9 DEF Ready, Offered, Loc
<1>14. Rings'
  BY <1>2, RingsKept DEF Loc
<1> QED
  BY <1>5, <1>6, <1>11, <1>12, <1>13, <1>14

\* A write of one field: the plan is written up to the next field.
LEMMA PlanningKept ==
  ASSUME TypeOK, Planning, NEW n \in Descs, NEW f \in Fields, Writes(f, n),
         plan' = plan, f = "len" => "addr" \notin unset, Busy' = Busy,
         \A m \in Descs \ {n} : /\ ring'[m].across <=> ring[m].across
                                /\ ring'[m].hasNext <=> ring[m].hasNext
                                /\ ring'[m].next = ring[m].next,
         f = "len" \/ (ring'[n].across <=> ring[n].across),
         ring'[n].hasNext <=> IF f = "flags" THEN pos < Len(plan) ELSE ring[n].hasNext,
         ring'[n].next = IF f = "next" THEN plan[pos + 1] ELSE ring[n].next
  PROVE  Planning' /\ Planned' = IF f = "addr" THEN Planned \cup {n} ELSE Planned
<1>1. /\ pos \in DOMAIN plan /\ plan[pos] = n /\ ~ Done(pos, f)
      /\ n \notin Busy /\ plan # <<>>
      /\ f = "next" => pos < Len(plan)
      /\ \A k \in DOMAIN plan : plan[k] = n <=> k = pos
      /\ pos' \in DOMAIN plan /\ unset' \subseteq ToWrite(plan, pos')
      /\ unset' = {} => pos' = Len(plan)
      /\ "addr" \in unset' => "len" \in unset'
  BY Written
<1>2. \A k \in DOMAIN plan, g \in Fields :
        (g = "next" => k < Len(plan)) =>
          (Done(k, g)' <=> Done(k, g) \/ (k = pos /\ g = f))
  BY Written
<1>3. \A k \in DOMAIN plan : plan[k] \in Descs
  BY Plan
<1>4. \A k \in DOMAIN plan :
        /\ Done(k, "addr")' <=> Done(k, "addr") \/ (k = pos /\ f = "addr")
        /\ Done(k, "len")' <=> Done(k, "len") \/ (k = pos /\ f = "len")
        /\ Done(k, "flags")' <=> Done(k, "flags") \/ (k = pos /\ f = "flags")
        /\ k < Len(plan) => (Done(k, "next")' <=> Done(k, "next") \/ (k = pos /\ f = "next"))
  BY <1>2 DEF Fields
<1>5. Planned' = IF f = "addr" THEN Planned \cup {n} ELSE Planned
  <2>1. ASSUME NEW m \in Descs
        PROVE  (\E k \in DOMAIN plan : plan[k] = m /\ Done(k, "addr")') <=>
                 (\E k \in DOMAIN plan : plan[k] = m /\ Done(k, "addr")) \/ (m = n /\ f = "addr")
    BY <1>1, <1>4
  <2>2. Planned' = {m \in Descs : \E k \in DOMAIN plan : plan[k] = m /\ Done(k, "addr")'}
    BY DEF Planned
  <2> QED
    BY <2>1, <2>2 DEF Planned
<1>6. ASSUME NEW k \in DOMAIN plan
      PROVE  /\ ~ Done(k, "len")' => ~ ring'[plan[k]].across
             /\ Done(k, "flags")' => (ring'[plan[k]].hasNext <=> k < Len(plan))
             /\ k < Len(plan) /\ Done(k, "next")' => ring'[plan[k]].next = plan[k + 1]
  <2>1. /\ ~ Done(k, "len") => ~ ring[plan[k]].across
        /\ Done(k, "flags") => (ring[plan[k]].hasNext <=> k < Len(plan))
        /\ k < Len(plan) /\ Done(k, "next") => ring[plan[k]].next = plan[k + 1]
    BY DEF Planning
  <2>2. CASE k = pos
    <3>1. plan[k] = n
      BY <1>1, <2>2
    <3>2. ~ Done(k, "len")' => ~ ring'[n].across
      BY <1>4, <2>1, <2>2, <3>1
    <3>3. Done(k, "flags")' => (ring'[n].hasNext <=> k < Len(plan))
      BY <1>4, <2>1, <2>2, <3>1
    <3>4. k < Len(plan) /\ Done(k, "next")' => ring'[n].next = plan[k + 1]
      BY <1>4, <2>1, <2>2, <3>1
    <3> QED
      BY <3>1, <3>2, <3>3, <3>4
  <2>3. CASE k # pos
    <3>1. plan[k] \in Descs \ {n}
      BY <1>1, <1>3, <2>3
    <3> QED
      BY <1>4, <2>1, <2>3, <3>1
  <2> QED
    BY <2>2, <2>3
<1>7. /\ \A j, k \in DOMAIN plan : plan[j] = plan[k] => j = k
      /\ \A k \in DOMAIN plan : plan[k] \notin Busy
  BY DEF Planning
<1>8. \A k \in DOMAIN plan :
       (/\ ~ Done(k, "len") => ~ ring[plan[k]].across
        /\ Done(k, "flags") => (ring[plan[k]].hasNext <=> k < Len(plan))
        /\ k < Len(plan) /\ Done(k, "next") => ring[plan[k]].next = plan[k + 1])'
  BY <1>6
<1> QED
  BY <1>1, <1>5, <1>7, <1>8 DEF Planning

\* Where the driver is stays in its type.
LEMMA WritesType ==
  ASSUME TypeOK, NEW n \in Descs, NEW f \in Fields, Writes(f, n)
  PROVE  pos' \in Nat /\ unset' \subseteq Fields /\ at = "out"
BY DEF TypeOK, Writes, ToWrite

\* A descriptor of which a field is written is still one.
LEMMA FieldType ==
  ASSUME NEW D, NEW A, NEW B, NEW C, NEW n \in D,
         NEW r \in [D -> [ipa : A, real : B, across : BOOLEAN, hasNext : BOOLEAN, next : C]]
  PROVE  /\ \A a \in A, b \in B : [r EXCEPT ![n].ipa = a, ![n].real = b] \in
              [D -> [ipa : A, real : B, across : BOOLEAN, hasNext : BOOLEAN, next : C]]
         /\ \A b \in B : [r EXCEPT ![n].real = b, ![n].across = TRUE] \in
              [D -> [ipa : A, real : B, across : BOOLEAN, hasNext : BOOLEAN, next : C]]
         /\ [r EXCEPT ![n].across = FALSE] \in
              [D -> [ipa : A, real : B, across : BOOLEAN, hasNext : BOOLEAN, next : C]]
         /\ \A x \in BOOLEAN : [r EXCEPT ![n].hasNext = x] \in
              [D -> [ipa : A, real : B, across : BOOLEAN, hasNext : BOOLEAN, next : C]]
         /\ \A c \in C : [r EXCEPT ![n].next = c] \in
              [D -> [ipa : A, real : B, across : BOOLEAN, hasNext : BOOLEAN, next : C]]
OBVIOUS

LEMMA SetAddrInductive ==
  ASSUME IInv, NEW n \in Descs, SetAddr(n)
  PROVE  IInv'
<1> USE DEF IInv
<1>1. PICK b \in Bufs \ Range(buf), d \in {"in", "out"} :
       /\ buf' = [buf EXCEPT ![n] = b]
       /\ dir' = [dir EXCEPT ![n] = d]
       /\ data' = [data EXCEPT ![b] = IF d = "out" THEN "out" ELSE "other"]
       /\ ring' = [ring EXCEPT ![n].ipa = b, ![n].real = b]
       /\ vq' = [vq EXCEPT ![n] = b]
  BY DEF SetAddr
<1>2. /\ pool' = pool /\ plan' = plan /\ chain' = chain /\ avail' = avail
      /\ irq' = irq /\ active' = active /\ at' = at /\ id' = id /\ UNCHANGED usedVars
  BY DEF SetAddr, requestVars
<1>3. Writes("addr", n) /\ "addr" \in Fields /\ b \in Places
  BY DEF SetAddr, Fields, Places
<1>4. /\ ring'[n].ipa = b /\ ring'[n].real = b
      /\ \A m \in Descs : /\ ring'[m].across = ring[m].across
                          /\ ring'[m].hasNext = ring[m].hasNext
                          /\ ring'[m].next = ring[m].next
      /\ \A m \in Descs \ {n} : ring'[m] = ring[m]
  BY <1>1 DEF TypeOK
<1>5. /\ buf'[n] = b /\ vq'[n] = b /\ dir'[n] = d
      /\ data'[b] = IF d = "out" THEN "out" ELSE "other"
      /\ \A m \in Descs \ {n} : buf'[m] = buf[m] /\ vq'[m] = vq[m] /\ dir'[m] = dir[m]
      /\ \A p \in Places \ {b} : data'[p] = data[p]
  BY <1>1, <1>3 DEF TypeOK
<1>6. TypeOK'
  <2>1. ring' \in [Descs -> [ipa : Bufs \cup {Nil}, real : Places \cup {Nil},
                         across : BOOLEAN, hasNext : BOOLEAN, next : Descs \cup {Nil}]]
    <3>1. ring \in [Descs -> [ipa : Bufs \cup {Nil}, real : Places \cup {Nil},
                         across : BOOLEAN, hasNext : BOOLEAN, next : Descs \cup {Nil}]]
      BY DEF TypeOK
    <3>2. b \in Bufs \cup {Nil} /\ b \in Places \cup {Nil}
      BY <1>3
    <3>3. [ring EXCEPT ![n].ipa = b, ![n].real = b] \in
             [Descs -> [ipa : Bufs \cup {Nil}, real : Places \cup {Nil},
                         across : BOOLEAN, hasNext : BOOLEAN, next : Descs \cup {Nil}]]
      BY <3>1, <3>2, FieldType
    <3> QED
      BY <1>1, <3>3
  <2>2. pos' \in Nat /\ unset' \subseteq Fields
    BY <1>3, WritesType
  <2>3. /\ vq' \in [Descs -> Places \cup {Nil}]
        /\ data' \in [Places -> {"out", "in", "other"}]
        /\ dir' \in [Descs -> {"in", "out"}]
        /\ buf' \in [Descs -> Bufs \cup {Nil}]
    BY <1>1, <1>3 DEF TypeOK
  <2> QED
    BY <1>2, <2>1, <2>2, <2>3 DEF TypeOK, usedVars
<1>7. Busy \subseteq Descs /\ n \notin Busy /\ n \notin Planned
  <2>1. pos \in DOMAIN plan /\ ~ Done(pos, "addr") /\ n \notin Busy
        /\ \A k \in DOMAIN plan : plan[k] = n <=> k = pos
    BY <1>2, <1>3, Written
  <2> QED
    BY <2>1, Heads DEF Planned
<1>8. Chaining' /\ Busy' = Busy
  BY <1>2, <1>4, <1>7, ChainingKept
<1>9. Planning' /\ Planned' = Planned \cup {n}
  BY <1>2, <1>3, <1>4, <1>8, PlanningKept
<1>10. Held' = Held \cup {n} /\ n \notin Held /\ Held \subseteq Descs
  BY <1>7, <1>8, <1>9, Own DEF Held
<1>11. ~ ring[n].across /\ Bounced' = Bounced
  BY <1>4, <1>10 DEF Holding, Bounced
<1>12. Range(buf) = {buf[m] : m \in Descs}
  BY DEF Range, TypeOK
<1>13. \A m \in Held : /\ Loc(m)' = Loc(m) /\ Loc(m) # b /\ Loc(m) \in Places
                       /\ vq'[m] = vq[m] /\ dir'[m] = dir[m] /\ data'[Loc(m)'] = data[Loc(m)]
                       /\ ring'[m] = ring[m] /\ buf'[m] = buf[m]
  <2> SUFFICES ASSUME NEW m \in Held
               PROVE  /\ Loc(m)' = Loc(m) /\ Loc(m) # b /\ Loc(m) \in Places
                      /\ vq'[m] = vq[m] /\ dir'[m] = dir[m] /\ data'[Loc(m)'] = data[Loc(m)]
                      /\ ring'[m] = ring[m] /\ buf'[m] = buf[m]
    OBVIOUS
  <2>1. m \in Descs \ {n}
    BY <1>10
  <2>2. Loc(m)' = Loc(m)
    BY <1>4, <1>5, <2>1 DEF Loc
  <2>3. buf[m] # b
    BY <1>12, <2>1
  <2>4. Loc(m) # b /\ Loc(m) \in Places
    BY <1>7, <2>3, Own, Numbers
  <2> QED
    BY <1>4, <1>5, <2>1, <2>2, <2>4
<1>14. Holding'
  <2>1. \A m \in Held' : buf'[m] \in Bufs /\ ring'[m].ipa = buf'[m]
    BY <1>4, <1>5, <1>10, <1>13 DEF Holding
  <2>2. \A m \in Descs \ Held' : ~ ring'[m].across
    BY <1>4, <1>10 DEF Holding
  <2>3. ASSUME NEW g \in Descs, NEW m \in Descs, buf'[g] # Nil, buf'[g] = buf'[m]
        PROVE  g = m
    BY <1>5, <1>12, <2>3 DEF Holding
  <2>4. \A m \in Bounced : ring'[m].real = ring[m].real
    BY <1>4, <1>11 DEF Bounced
  <2>5. \A m \in Bounced' : ring'[m].real \in Pages
    BY <1>11, <2>4 DEF Holding
  <2>6. {ring'[m].real : m \in Bounced'} = {ring[m].real : m \in Bounced}
    BY <1>11, <2>4
  <2>7. NoLeak'
    BY <1>2, <1>11, <2>4, <2>6 DEF Holding, NoLeak
  <2> QED
    BY <2>1, <2>2, <2>3, <2>5, <2>7 DEF Holding
<1>15. Ready'
  <2>1. Offered' = Offered /\ Offered \subseteq Held
    BY <1>2, Heads DEF Offered, Held
  <2>2. ASSUME NEW m \in (Planned \cup Offered) PROVE (vq[m] = Loc(m) /\ (dir[m] = "out" => data[Loc(m)] = "out"))'
    <3>1. m \in Held
      BY <2>1, <2>2 DEF Held
    <3> QED
      BY <1>13, <3>1 DEF Ready
  <2>3. (vq[n] = Loc(n) /\ (dir[n] = "out" => data[Loc(n)] = "out"))'
    BY <1>4, <1>5, <1>11 DEF Loc
  <2> QED
    BY <1>9, <2>1, <2>2, <2>3 DEF Ready
<1>16. Rings'
  <2>1. \A m \in Busy : m \in Held
    BY DEF Held
  <2> QED
    BY <1>2, <1>13, <2>1, RingsKept
<1> QED
  BY <1>6, <1>8, <1>9, <1>14, <1>15, <1>16

LEMMA HoldingKept ==
  ASSUME Holding, Held' = Held, buf' = buf, pool' = pool,
         \A m \in Descs : /\ ring'[m].across <=> ring[m].across
                          /\ m \in Bounced => ring'[m].real = ring[m].real
                          /\ m \in Held => ring'[m].ipa = ring[m].ipa,
         Held \subseteq Descs
  PROVE  Holding' /\ \A m \in Held : Loc(m)' = Loc(m)
<1>1. Bounced' = Bounced /\ Bounced \subseteq Descs
  BY DEF Bounced
<1>2. {ring'[m].real : m \in Bounced'} = {ring[m].real : m \in Bounced}
  BY <1>1
<1>3. NoLeak'
  BY <1>1, <1>2 DEF Holding, NoLeak
<1>4. \A m \in Held : Loc(m)' = Loc(m)
  BY DEF Loc, Bounced
<1> QED
  BY <1>1, <1>3, <1>4 DEF Holding

LEMMA ReadyKept ==
  ASSUME Ready, Planned' \cup Offered' \subseteq Planned \cup Offered,
         \A m \in Planned' \cup Offered' :
            /\ Loc(m)' = Loc(m) /\ vq'[m] = vq[m] /\ dir'[m] = dir[m]
            /\ dir[m] = "out" => data'[Loc(m)] = data[Loc(m)]
  PROVE  Ready'
BY DEF Ready

LEMMA ClearAddrInductive ==
  ASSUME IInv, NEW n \in Descs, ClearAddr(n)
  PROVE  IInv'
<1> USE DEF IInv
<1>1. /\ plan = <<>> /\ n \notin Busy
      /\ ring' = [ring EXCEPT ![n].ipa = Nil, ![n].real = Nil]
      /\ vq' = [vq EXCEPT ![n] = Nil]
  BY DEF ClearAddr
<1>2. /\ pool' = pool /\ data' = data /\ plan' = plan /\ pos' = pos /\ unset' = unset
      /\ chain' = chain /\ dir' = dir /\ buf' = buf /\ avail' = avail
      /\ irq' = irq /\ active' = active /\ at' = at /\ id' = id /\ UNCHANGED usedVars
  BY DEF ClearAddr, driverVars, requestVars
<1>3. /\ \A m \in Descs : /\ ring'[m].across = ring[m].across
                          /\ ring'[m].hasNext = ring[m].hasNext
                          /\ ring'[m].next = ring[m].next
      /\ \A m \in Descs \ {n} : ring'[m] = ring[m] /\ vq'[m] = vq[m]
  BY <1>1 DEF TypeOK
<1>4. TypeOK'
  <2>1. ring \in [Descs -> [ipa : Bufs \cup {Nil}, real : Places \cup {Nil},
                         across : BOOLEAN, hasNext : BOOLEAN, next : Descs \cup {Nil}]]
    BY DEF TypeOK
  <2>2. Nil \in Bufs \cup {Nil} /\ Nil \in Places \cup {Nil}
    OBVIOUS
  <2>3. [ring EXCEPT ![n].ipa = Nil, ![n].real = Nil] \in
           [Descs -> [ipa : Bufs \cup {Nil}, real : Places \cup {Nil},
                         across : BOOLEAN, hasNext : BOOLEAN, next : Descs \cup {Nil}]]
    BY <2>1, <2>2, FieldType
  <2>4. vq' \in [Descs -> Places \cup {Nil}]
    BY <1>1 DEF TypeOK
  <2> QED
    BY <1>1, <1>2, <2>3, <2>4 DEF TypeOK, usedVars
<1>5. Busy \subseteq Descs /\ Planned = {} /\ n \notin Held
  BY <1>1, Heads, Plan DEF Held
<1>6. Chaining' /\ Busy' = Busy
  BY <1>2, <1>3, <1>5, ChainingKept
<1>7. Planned' = Planned /\ Held' = Held /\ Held \subseteq Descs
  BY <1>2, <1>5, <1>6, Own DEF Planned, Done, Held
<1>8. Planning'
  <2>1. DOMAIN plan = {}
    BY <1>1
  <2> QED
    BY <1>1, <1>2, <2>1 DEF Planning
<1>9. \A m \in Held : m \in Descs \ {n}
  BY <1>5, <1>7
<1>10. ~ ring[n].across
  BY <1>5 DEF Holding
<1>11. Holding' /\ \A m \in Held : Loc(m)' = Loc(m)
  <2>1. \A m \in Descs : m \in Bounced => m \in Descs \ {n}
    BY <1>10 DEF Bounced
  <2>2. \A m \in Descs : /\ ring'[m].across <=> ring[m].across
                         /\ m \in Bounced => ring'[m].real = ring[m].real
                         /\ m \in Held => ring'[m].ipa = ring[m].ipa
    BY <1>3, <1>9, <2>1
  <2> QED
    BY <1>2, <1>7, <2>2, HoldingKept
<1>12. Ready'
  <2>1. Offered' = Offered /\ Offered \subseteq Held
    BY <1>2, Heads DEF Offered, Held
  <2>2. \A m \in Planned' \cup Offered' : m \in Held
    BY <1>7, <2>1 DEF Held
  <2> QED
    BY <1>2, <1>3, <1>7, <1>9, <1>11, <2>1, <2>2, ReadyKept
<1>13. Rings'
  <2>1. \A m \in Busy : m \in Held /\ m \in Descs
    BY <1>5 DEF Held
  <2> QED
    BY <1>2, <1>3, <1>11, <2>1, RingsKept
<1> QED
  BY <1>4, <1>6, <1>8, <1>11, <1>12, <1>13

\* SetFlags and SetNext, which the device and the handler learn of by a chain.
LEMMA LinkInductive ==
  ASSUME IInv, NEW n \in Descs, SetFlags(n) \/ SetNext(n)
  PROVE  IInv'
<1> USE DEF IInv
<1>1. PICK f \in {"flags", "next"} :
        /\ Writes(f, n)
        /\ ring' = IF f = "flags" THEN [ring EXCEPT ![n].hasNext = pos < Len(plan)]
                                  ELSE [ring EXCEPT ![n].next = plan[pos + 1]]
  BY DEF SetFlags, SetNext
<1>2. /\ vq' = vq /\ pool' = pool /\ data' = data /\ plan' = plan
      /\ chain' = chain /\ dir' = dir /\ buf' = buf /\ avail' = avail
      /\ irq' = irq /\ active' = active /\ at' = at /\ id' = id /\ UNCHANGED usedVars
  BY DEF SetFlags, SetNext, requestVars
<1>3. f \in Fields /\ f # "addr" /\ f # "len"
  BY <1>1 DEF Fields
<1>4. /\ pos \in DOMAIN plan /\ n \notin Busy /\ plan # <<>>
      /\ f = "next" => pos < Len(plan)
  BY <1>1, <1>2, <1>3, Written
<1>5. f = "next" => plan[pos + 1] \in Descs
  <2>1. pos \in Nat
    BY DEF TypeOK
  <2> QED
    BY <1>4, <2>1, Plan
<1>6. (pos < Len(plan)) \in BOOLEAN
  OBVIOUS
<1>7. TypeOK'
  <2>1. ring \in [Descs -> [ipa : Bufs \cup {Nil}, real : Places \cup {Nil},
                         across : BOOLEAN, hasNext : BOOLEAN, next : Descs \cup {Nil}]]
    BY DEF TypeOK
  <2>2. f = "flags" => [ring EXCEPT ![n].hasNext = pos < Len(plan)] \in
           [Descs -> [ipa : Bufs \cup {Nil}, real : Places \cup {Nil},
                         across : BOOLEAN, hasNext : BOOLEAN, next : Descs \cup {Nil}]]
    BY <1>6, <2>1, FieldType
  <2>3. f = "next" => [ring EXCEPT ![n].next = plan[pos + 1]] \in
           [Descs -> [ipa : Bufs \cup {Nil}, real : Places \cup {Nil},
                         across : BOOLEAN, hasNext : BOOLEAN, next : Descs \cup {Nil}]]
    <3>1. \A c \in Descs \cup {Nil} : [ring EXCEPT ![n].next = c] \in
           [Descs -> [ipa : Bufs \cup {Nil}, real : Places \cup {Nil},
                         across : BOOLEAN, hasNext : BOOLEAN, next : Descs \cup {Nil}]]
      BY <2>1, FieldType
    <3> QED
      BY <1>5, <3>1
  <2>4. ring' \in [Descs -> [ipa : Bufs \cup {Nil}, real : Places \cup {Nil},
                         across : BOOLEAN, hasNext : BOOLEAN, next : Descs \cup {Nil}]]
    BY <1>1, <2>2, <2>3
  <2>5. pos' \in Nat /\ unset' \subseteq Fields
    BY <1>1, <1>3, WritesType
  <2> QED
    BY <1>2, <2>4, <2>5 DEF TypeOK, usedVars
<1>8. /\ \A m \in Descs : /\ ring'[m].across = ring[m].across
                          /\ ring'[m].real = ring[m].real
                          /\ ring'[m].ipa = ring[m].ipa
      /\ \A m \in Descs \ {n} : ring'[m] = ring[m]
      /\ ring'[n].hasNext = IF f = "flags" THEN pos < Len(plan) ELSE ring[n].hasNext
      /\ ring'[n].next = IF f = "next" THEN plan[pos + 1] ELSE ring[n].next
  <2>1. CASE f = "flags"
    <3>1. ring' = [ring EXCEPT ![n].hasNext = pos < Len(plan)]
      BY <1>1, <2>1
    <3> QED
      BY <2>1, <3>1 DEF TypeOK
  <2>2. CASE f = "next"
    <3>1. ring' = [ring EXCEPT ![n].next = plan[pos + 1]]
      BY <1>1, <2>2
    <3> QED
      BY <2>2, <3>1 DEF TypeOK
  <2> QED
    BY <1>1, <2>1, <2>2
<1>9. Busy \subseteq Descs
  BY Heads
<1>10. Chaining' /\ Busy' = Busy
  <2>1. \A m \in Busy : m \in Descs \ {n}
    BY <1>4, <1>9
  <2> QED
    BY <1>2, <1>8, <2>1, ChainingKept
<1>11. Planning' /\ Planned' = Planned
  BY <1>1, <1>2, <1>3, <1>8, <1>10, PlanningKept
<1>12. Held' = Held /\ Held \subseteq Descs
  BY <1>9, <1>10, <1>11, Own DEF Held
<1>13. Holding' /\ \A m \in Held : Loc(m)' = Loc(m)
  BY <1>2, <1>8, <1>12, HoldingKept
<1>14. Ready'
  <2>1. Offered' = Offered /\ Offered \subseteq Held
    BY <1>2, Heads DEF Offered, Held
  <2>2. \A m \in Planned' \cup Offered' : m \in Held
    BY <1>11, <2>1 DEF Held
  <2> QED
    BY <1>2, <1>11, <1>13, <2>1, <2>2, ReadyKept
<1>15. Rings'
  <2>1. \A m \in Busy : m \in Held /\ m \in Descs
    BY <1>9 DEF Held
  <2> QED
    BY <1>2, <1>8, <1>13, <2>1, RingsKept
<1> QED
  BY <1>7, <1>10, <1>11, <1>13, <1>14, <1>15

LEMMA SetLenInductive ==
  ASSUME IInv, AddrFirst, NEW n \in Descs, SetLen(n)
  PROVE  IInv'
<1> USE DEF IInv
<1>1. /\ Writes("len", n) /\ "addr" \notin unset /\ "len" \in Fields /\ "addr" \in Fields
      /\ plan' = plan /\ dir' = dir /\ buf' = buf
      /\ chain' = chain /\ avail' = avail /\ irq' = irq
      /\ active' = active /\ at' = at /\ id' = id
      /\ UNCHANGED usedVars
  BY DEF SetLen, requestVars, Fields
<1>2. /\ pos \in DOMAIN plan /\ plan[pos] = n /\ ~ Done(pos, "len") /\ n \notin Busy
      /\ \A k \in DOMAIN plan : plan[k] = n <=> k = pos
  BY <1>1, Written
<1>3. pos' \in Nat /\ unset' \subseteq Fields
  BY <1>1, WritesType
<1>4. Busy \subseteq Descs /\ Held \subseteq Descs
  BY Heads, Own
<1>5. n \in Planned /\ n \in Held /\ ~ ring[n].across
  <2>1. Done(pos, "addr")
    BY <1>1, <1>2 DEF Done
  <2> QED
    BY <1>2, <2>1 DEF Planned, Held, Planning
<1>6. n \notin Bounced /\ Loc(n) = buf[n] /\ ring[n].ipa = buf[n] /\ buf[n] \in Bufs
  BY <1>5 DEF Bounced, Loc, Holding
<1>7. Offered' = Offered /\ Offered \subseteq Held
  BY <1>1, Heads DEF Offered, Held
<1>8. \A m \in Busy : m \in Held /\ m \in Descs \ {n}
  BY <1>2, <1>4 DEF Held
<1>9. CASE UNCHANGED <<ringVars, data>>
  <2>1. ring' = ring /\ vq' = vq /\ pool' = pool /\ data' = data
    BY <1>9 DEF ringVars
  <2>2. TypeOK'
    BY <1>1, <1>3, <2>1 DEF TypeOK, usedVars
  <2>3. Chaining' /\ Busy' = Busy
    BY <1>1, <2>1, ChainingKept
  <2>4. Planning' /\ Planned' = Planned
    BY <1>1, <2>1, <2>3, PlanningKept
  <2>5. Held' = Held
    BY <2>3, <2>4 DEF Held
  <2>6. Holding' /\ \A m \in Held : Loc(m)' = Loc(m)
    BY <1>1, <1>4, <2>1, <2>5, HoldingKept
  <2>7. \A m \in Planned' \cup Offered' : m \in Held
    BY <1>7, <2>4 DEF Held
  <2>8. Ready'
    BY <1>1, <1>7, <2>1, <2>4, <2>6, <2>7, ReadyKept
  <2>9. Rings'
    BY <1>1, <1>8, <2>1, <2>6, RingsKept
  <2> QED
    BY <2>2, <2>3, <2>4, <2>6, <2>8, <2>9
<1>10. CASE \E p \in pool : pool' = pool \ {p} /\ Bounce(n, p)
  <2>1. PICK p \in pool :
          /\ pool' = pool \ {p}
          /\ data' = [data EXCEPT ![p] = data[ring[n].ipa]]
          /\ ring' = [ring EXCEPT ![n].real = p, ![n].across = TRUE]
          /\ vq' = [vq EXCEPT ![n] = p]
    BY <1>10 DEF Bounce
  <2>2. p \in Pages /\ p \in Places /\ p \notin Bufs /\ \A m \in Bounced : ring[m].real # p
    BY <2>1, Numbers DEF Holding, NoLeak, Places
  <2>3. /\ ring'[n].across /\ ring'[n].real = p /\ ring'[n].ipa = ring[n].ipa
        /\ \A m \in Descs : ring'[m].hasNext = ring[m].hasNext /\ ring'[m].next = ring[m].next
        /\ \A m \in Descs \ {n} : ring'[m] = ring[m]
    BY <2>1 DEF TypeOK
  <2>4. /\ vq'[n] = p /\ data'[p] = data[buf[n]]
        /\ \A m \in Descs \ {n} : vq'[m] = vq[m]
        /\ \A l \in Places \ {p} : data'[l] = data[l]
    BY <2>1, <2>2, <1>6 DEF TypeOK
  <2>5. TypeOK'
    <3>1. ring \in [Descs -> [ipa : Bufs \cup {Nil}, real : Places \cup {Nil},
                         across : BOOLEAN, hasNext : BOOLEAN, next : Descs \cup {Nil}]]
      BY DEF TypeOK
    <3>2. p \in Places \cup {Nil}
      BY <2>2
    <3>3. [ring EXCEPT ![n].real = p, ![n].across = TRUE] \in
             [Descs -> [ipa : Bufs \cup {Nil}, real : Places \cup {Nil},
                         across : BOOLEAN, hasNext : BOOLEAN, next : Descs \cup {Nil}]]
      BY <3>1, <3>2, FieldType
    <3>4. vq' \in [Descs -> Places \cup {Nil}]
      BY <2>1, <2>2 DEF TypeOK
    <3>5. data' \in [Places -> {"out", "in", "other"}]
      <4>1. data[ring[n].ipa] \in {"out", "in", "other"}
        BY <1>6 DEF TypeOK, Places
      <4> QED
        BY <2>1, <4>1 DEF TypeOK
    <3>6. pool' \subseteq Places
      BY <2>1 DEF TypeOK
    <3> QED
      BY <1>1, <1>3, <2>1, <3>3, <3>4, <3>5, <3>6 DEF TypeOK, usedVars
  <2>6. Chaining' /\ Busy' = Busy
    BY <1>1, <1>8, <2>3, ChainingKept
  <2>7. Planning' /\ Planned' = Planned
    BY <1>1, <2>3, <2>6, PlanningKept
  <2>8. Held' = Held
    BY <2>6, <2>7 DEF Held
  <2>9. Bounced' = Bounced \cup {n}
    BY <2>3 DEF Bounced
  <2>10. \A m \in Bounced : m \in Descs \ {n} /\ ring'[m].real = ring[m].real
    BY <1>6, <2>3 DEF Bounced
  <2>11. NoLeak'
    <3>1. {ring'[m].real : m \in Bounced'} = {ring[m].real : m \in Bounced} \cup {p}
      BY <2>3, <2>9, <2>10
    <3>2. pool' = Pages \ {ring'[m].real : m \in Bounced'}
      BY <2>1, <3>1 DEF Holding, NoLeak
    <3>3. ASSUME NEW g \in Bounced', NEW m \in Bounced', ring'[g].real = ring'[m].real
          PROVE  g = m
      BY <2>2, <2>3, <2>9, <2>10, <3>3 DEF Holding, NoLeak
    <3> QED
      BY <3>2, <3>3 DEF NoLeak
  <2>12. Holding'
    <3>1. \A m \in Held' : buf'[m] \in Bufs /\ ring'[m].ipa = buf'[m]
      <4>1. \A m \in Held : ring'[m].ipa = ring[m].ipa
        BY <1>4, <2>3
      <4> QED
        BY <1>1, <2>8, <4>1 DEF Holding
    <3>2. \A m \in Descs \ Held' : ~ ring'[m].across
      <4>1. \A m \in Descs \ Held : m \in Descs \ {n}
        BY <1>5
      <4> QED
        BY <2>3, <2>8, <4>1 DEF Holding
    <3>3. \A m \in Bounced' : ring'[m].real \in Pages
      BY <2>2, <2>3, <2>9, <2>10 DEF Holding
    <3> QED
      BY <1>1, <2>11, <3>1, <3>2, <3>3 DEF Holding
  <2>13. \A m \in Held : Loc(m) # p /\ Loc(m) \in Places
    BY <1>4, <2>2, Own
  <2>14. \A m \in Held \ {n} :
           Loc(m)' = Loc(m) /\ data'[Loc(m)'] = data[Loc(m)] /\ vq'[m] = vq[m]
    <3>1. \A m \in Held \ {n} : Loc(m)' = Loc(m)
      BY <1>1, <1>4, <2>3 DEF Loc
    <3> QED
      BY <1>4, <2>4, <2>13, <3>1
  <2>15. Loc(n)' = p
    BY <2>3 DEF Loc
  <2>16. Ready'
    <3> SUFFICES ASSUME NEW m \in Planned \cup Offered
                 PROVE  (vq[m] = Loc(m) /\ (dir[m] = "out" => data[Loc(m)] = "out"))'
      BY <1>7, <2>7 DEF Ready
    <3>1. m \in Held
      BY <1>7 DEF Held
    <3>2. vq[m] = Loc(m) /\ (dir[m] = "out" => data[Loc(m)] = "out")
      BY DEF Ready
    <3>3. CASE m = n
      BY <1>1, <1>6, <2>4, <2>15, <3>2, <3>3
    <3>4. CASE m # n
      BY <1>1, <2>14, <3>1, <3>2, <3>4
    <3> QED
      BY <3>3, <3>4
  <2>17. Rings'
    BY <1>1, <1>8, <2>3, <2>14, RingsKept
  <2> QED
    BY <2>5, <2>6, <2>7, <2>12, <2>16, <2>17
<1> QED
  BY <1>9, <1>10 DEF SetLen

LEMMA OfferInductive ==
  ASSUME IInv, Offer
  PROVE  IInv'
<1> USE DEF IInv
<1> DEFINE h == Head(plan)
<1>1. /\ plan # <<>> /\ unset = {}
      /\ chain' = [chain EXCEPT ![h] = plan]
      /\ avail' = avail \cup {h} /\ plan' = <<>> /\ pos' = 1
      /\ ring' = ring /\ vq' = vq /\ pool' = pool /\ data' = data /\ unset' = unset
      /\ dir' = dir /\ buf' = buf /\ irq' = irq
      /\ active' = active /\ at' = at /\ id' = id
      /\ used' = used /\ usedIdx' = usedIdx /\ lastIdx' = lastIdx /\ seenIdx' = seenIdx
  BY DEF Offer, ringVars, usedVars
<1>2. /\ Len(plan) \in Nat /\ DOMAIN plan = 1 .. Len(plan) /\ 1 \in DOMAIN plan
      /\ \A k \in DOMAIN plan : plan[k] \in Descs
      /\ pos = Len(plan)
  <2>1. pos \in DOMAIN plan /\ pos = Len(plan)
    BY <1>1 DEF Planning
  <2> QED
    BY <2>1, Plan
<1>3. h = plan[1] /\ h \in Descs /\ h \notin Busy /\ h \in Range(plan)
  <2>1. h = plan[1]
    BY <1>1
  <2>2. plan[1] \in Range(plan)
    BY <1>2 DEF Range
  <2>3. plan[1] \notin Busy
    BY <1>2 DEF Planning
  <2> QED
    BY <1>2, <2>1, <2>2, <2>3
<1>4. chain[h] = <<>> /\ h \notin avail
  BY <1>3, Heads DEF Chaining
<1>5. /\ chain'[h] = plan
      /\ \A g \in Descs \ {h} : chain'[g] = chain[g]
  BY <1>1, <1>3 DEF TypeOK
<1>6. \A k \in DOMAIN plan, f \in Fields : Done(k, f)
  BY <1>1, <1>2 DEF Done
<1>7. Planned = Range(plan) /\ Planned' = {}
  <2>1. Planned = Range(plan)
    BY <1>2, <1>6 DEF Planned, Range, Fields
  <2>2. DOMAIN plan' = {}
    BY <1>1
  <2> QED
    BY <2>1, <2>2 DEF Planned
<1>8. Busy' = Busy \cup Range(plan)
  <2>1. ASSUME NEW n PROVE n \in Busy' <=> n \in Busy \/ n \in Range(plan)
    <3>1. Range(chain[h]) = {}
      BY <1>4 DEF Range
    <3>2. n \in Busy' <=> \E g \in Descs : n \in Range(chain'[g])
      BY DEF Busy
    <3>3. n \in Busy <=> \E g \in Descs : n \in Range(chain[g])
      BY DEF Busy
    <3> QED
      BY <1>3, <1>5, <3>1, <3>2, <3>3
  <2> QED
    BY <2>1
<1>9. Held' = Held
  BY <1>7, <1>8 DEF Held
<1>10. Offered' = Offered \cup Range(plan)
  <2>1. \A g \in avail : g \in Descs \ {h}
    BY <1>4 DEF TypeOK
  <2>2. \A n \in Descs : (\E g \in avail' : n \in Range(chain'[g])) <=>
                         (\E g \in avail : n \in Range(chain[g])) \/ n \in Range(plan)
    BY <1>1, <1>5, <2>1
  <2>3. Range(plan) \subseteq Descs
    BY <1>2 DEF Range
  <2>4. Offered' = {n \in Descs : \E g \in avail' : n \in Range(chain'[g])}
    BY DEF Offered
  <2> QED
    BY <2>2, <2>3, <2>4 DEF Offered
<1>11. TypeOK'
  <2>1. chain' \in [Descs -> Seq(Descs)] /\ plan' \in Seq(Descs)
    BY <1>1 DEF TypeOK
  <2> QED
    BY <1>1, <1>3, <2>1 DEF TypeOK
<1>12. Planning'
  <2>1. DOMAIN plan' = {}
    BY <1>1
  <2> QED
    BY <1>1, <2>1 DEF Planning
<1>13. Chaining'
  <2>1. \A g \in avail' : chain'[g] # <<>>
    BY <1>1, <1>4, <1>5 DEF Chaining, TypeOK
  <2>2. \A g \in Descs : chain'[g] # <<>> => chain'[g][1] = g
    BY <1>3, <1>5 DEF Chaining
  <2>3. ASSUME NEW g \in Descs, NEW j \in Descs, NEW n \in Range(chain'[g]), n \in Range(chain'[j])
        PROVE  g = j
    <3>1. \A n1 \in Range(plan) : n1 \notin Busy
      BY DEF Planning, Range
    <3>2. \A i \in Descs \ {h} : Range(chain'[i]) \subseteq Busy
      BY <1>5, Heads
    <3>3. g # h /\ j # h => n \in Descs
      BY <2>3, <3>2, Heads
    <3> QED
      BY <1>5, <2>3, <3>1, <3>2, <3>3 DEF Chaining
  <2>4. Wired(plan)
    BY <1>6, <1>2 DEF Wired, Planning, Fields
  <2>5. \A g \in Descs : Wired(chain'[g])
    BY <1>5, <2>4 DEF Chaining
  <2>6. \A g \in Descs : Wired(chain[g])'
    BY <1>1, <2>5 DEF Wired
  <2> QED
    BY <2>1, <2>2, <2>3, <2>6 DEF Chaining
<1>14. Holding'
  BY <1>1, <1>9 DEF Holding, Bounced, NoLeak
<1>15. Ready'
  <2>1. Planned' \cup Offered' = Planned \cup Offered
    BY <1>7, <1>10
  <2>2. \A m \in Planned \cup Offered : Loc(m)' = Loc(m)
    BY <1>1 DEF Loc
  <2> QED
    BY <1>1, <2>1, <2>2, ReadyKept
<1>16. Rings'
  <2>1. PICK s \in Nat, l \in Nat, u \in Nat : Indexes(s, l, u) /\ Served(s, l, u) /\ Going(l, u)
    BY DEF Rings
  <2>2. \A k \in Nat : At(k)' = At(k)
    BY <1>1 DEF At
  <2>3. \A k \in s .. u - 1 : k \in Nat /\ At(k) # h /\ At(k) \in Descs
    <3>1. \A k \in s .. u - 1 : k \in Nat /\ chain[At(k)] # <<>>
      BY <2>1 DEF Served
    <3>2. \A k \in s .. u - 1 : k % Num \in Descs
      BY <3>1, EntryAt
    <3> QED
      BY <1>4, <3>1, <3>2 DEF At, TypeOK
  <2>4. \A k \in s .. u - 1 : chain'[At(k)'] = chain[At(k)]
    BY <1>5, <2>2, <2>3
  <2>5. \A n : Loc(n)' = Loc(n)
    BY <1>1 DEF Loc
  <2>6. s <= l /\ l <= u
    BY <2>1 DEF Indexes
  <2>7. Indexes(s, l, u)'
    BY <1>1, <2>1 DEF Indexes
  <2>8. Served(s, l, u)'
    <3>1. \A k \in s .. u - 1 : (chain[At(k)] # <<>> /\ At(k) \notin avail)'
      BY <1>1, <2>1, <2>2, <2>3, <2>4 DEF Served
    <3>2. \A j, k \in s .. u - 1 : (At(j) = At(k))' => j = k
      BY <2>1, <2>2, <2>3 DEF Served
    <3>3. \A k \in s .. u - 1 : \A n \in Range(chain'[At(k)']) :
            dir'[n] = "in" => data'[Loc(n)'] = "in"
      BY <1>1, <2>1, <2>4, <2>5 DEF Served
    <3>4. \A k \in s .. l - 1 : k \in s .. u - 1
      BY <2>6
    <3>5. \A k \in s .. l - 1 : \A n \in Range(chain'[At(k)']) : ~ ring'[n].across
      BY <1>1, <2>1, <2>4, <3>4 DEF Served
    <3> QED
      BY <3>1, <3>2, <3>3, <3>5 DEF Served
  <2>9. Going(l, u)'
    <3>1. at = "desc" => l \in s .. u - 1
      BY <2>1, <2>6 DEF Going
    <3>2. at = "desc" => chain'[At(l)'] = chain[At(l)]
      BY <2>4, <3>1
    <3> QED
      BY <1>1, <2>1, <3>2 DEF Going
  <2> QED
    BY <2>7, <2>8, <2>9 DEF Rings
<1> QED
  BY <1>11, <1>12, <1>13, <1>14, <1>15, <1>16

-----------------------------------------------------------------------------
(* The device, virtio_dev_intr() and the driver that takes a request back *)

\* The entries of the used ring are heads, of chains in Busy.
LEMMA Entries ==
  ASSUME TypeOK, Chaining, NEW s \in Nat, NEW l \in Nat, NEW u \in Nat,
         Indexes(s, l, u), Served(s, l, u)
  PROVE  \A k \in s .. u - 1 : /\ k \in Nat /\ At(k) \in Descs /\ k % Num \in Descs
                               /\ Range(chain[At(k)]) \subseteq Busy
                               /\ At(k) \in Range(chain[At(k)])
<1>1. \A k \in s .. u - 1 : k \in Nat
  OBVIOUS
<1>2. \A k \in s .. u - 1 : k % Num \in Descs
  BY <1>1, EntryAt
<1>3. \A k \in s .. u - 1 : At(k) \in Descs
  BY <1>2 DEF At, TypeOK
<1> QED
  BY <1>1, <1>2, <1>3, Heads DEF Served

LEMMA ServeInductive ==
  ASSUME IInv, NEW h \in Descs, Serve(h)
  PROVE  IInv'
<1> USE DEF IInv
<1> DEFINE filled == {vq[n] : n \in {m \in Range(chain[h]) : dir[m] = "in"}}
<1>1. /\ h \in avail /\ avail' = avail \ {h}
      /\ data' = [p \in Places |-> IF p \in filled THEN "in" ELSE data[p]]
      /\ used' = [used EXCEPT ![usedIdx % Num] = h]
      /\ usedIdx' = NextIdx(usedIdx) /\ irq' = TRUE /\ active' = active
      /\ ring' = ring /\ vq' = vq /\ pool' = pool /\ plan' = plan /\ pos' = pos
      /\ unset' = unset /\ chain' = chain /\ dir' = dir /\ buf' = buf
      /\ lastIdx' = lastIdx /\ seenIdx' = seenIdx /\ at' = at /\ id' = id
  BY DEF Serve, ringVars, driverVars
<1>2. PICK s \in Nat, l \in Nat, u \in Nat : Indexes(s, l, u) /\ Served(s, l, u) /\ Going(l, u)
  BY DEF Rings
<1>3. /\ s <= l /\ l <= u /\ u <= s + Num /\ usedIdx = u % IdxMod /\ Num \in Nat \ {0}
  BY <1>2, Numbers DEF Indexes
<1>4. \A k \in s .. u - 1 : /\ k \in Nat /\ At(k) \in Descs /\ k % Num \in Descs
                            /\ Range(chain[At(k)]) \subseteq Busy
                            /\ At(k) \in Range(chain[At(k)])
  BY <1>2, Entries
<1>5. \A k \in s .. u - 1 : At(k) \in Descs \ {h}
  BY <1>1, <1>2, <1>4 DEF Served
<1>6. u + 1 <= s + Num
  <2>1. \A j, k \in s .. u - 1 : At(j) = At(k) => j = k
    BY <1>2 DEF Served
  <2>2. s <= u
    BY <1>3
  <2> QED
    BY <1>5, <2>1, <2>2, Room
<1>7. /\ usedIdx % Num = u % Num /\ usedIdx' = (u + 1) % IdxMod /\ u % Num \in Descs
      /\ (u + 1) % IdxMod \in 0 .. IdxMod - 1
  <2>1. u + 1 \in Nat
    OBVIOUS
  <2> QED
    BY <1>1, <1>3, <2>1, EntryAt
<1>8. At(u)' = h /\ \A k \in s .. u - 1 : At(k)' = At(k)
  <2>1. \A k \in s .. u - 1 : k % Num # u % Num
    <3>1. \A k \in s .. u - 1 : k < u /\ u < k + Num
      BY <1>3, <1>6
    <3> QED
      BY <1>4, <3>1, Slots
  <2> QED
    BY <1>1, <1>4, <1>7, <2>1 DEF At, TypeOK
<1>9. /\ Busy' = Busy /\ Planned' = Planned /\ Held' = Held
      /\ \A n : Loc(n)' = Loc(n)
  BY <1>1 DEF Busy, Planned, Held, Done, Loc
<1>10. Busy \subseteq Descs /\ Offered \subseteq Busy /\ Range(chain[h]) \subseteq Offered
  BY <1>1, Heads DEF Offered
<1>11. TypeOK'
  <2>1. data' \in [Places -> {"out", "in", "other"}]
    BY <1>1 DEF TypeOK
  <2>2. used' \in [Descs -> Descs]
    BY <1>1 DEF TypeOK
  <2> QED
    BY <1>1, <1>7, <2>1, <2>2 DEF TypeOK
<1>12. Chaining'
  BY <1>1, ChainingKept
<1>13. Planning'
  BY <1>1, <1>9 DEF Planning, Done, ToWrite
<1>14. Holding'
  BY <1>1, <1>9 DEF Holding, Bounced, NoLeak
<1>15. \A n \in Range(chain[h]) : vq[n] = Loc(n) /\ n \in Held
  BY <1>10 DEF Ready, Held
<1>16. \A n \in Held : Loc(n) \in Places
  BY <1>10, Own
<1>17. Ready'
  <2>1. ASSUME NEW n \in Planned' \cup Offered'
        PROVE  n \in Planned \cup Offered /\ n \in Held /\ n \notin Range(chain[h])
    <3>1. CASE n \in Planned'
      <4>1. n \in Planned /\ n \notin Busy
        BY <1>9, <3>1, Plan
      <4> QED
        BY <1>10, <4>1 DEF Held
    <3>2. CASE n \in Offered'
      <4>1. PICK g \in avail \ {h} : n \in Range(chain[g]) /\ n \in Descs
        BY <1>1, <3>2 DEF Offered
      <4>2. g \in Descs
        BY DEF TypeOK
      <4>3. n \in Offered
        BY <4>1 DEF Offered
      <4> QED
        BY <1>10, <4>1, <4>2, <4>3 DEF Chaining, Held
    <3> QED
      BY <2>1, <3>1, <3>2
  <2>2. ASSUME NEW n \in Planned' \cup Offered', dir[n] = "out" PROVE data'[Loc(n)] = data[Loc(n)]
    <3>1. Loc(n) \notin filled
      <4>1. ASSUME NEW m \in Range(chain[h]), dir[m] = "in", vq[m] = Loc(n) PROVE FALSE
        BY <1>10, <1>15, <2>1, <2>2, <4>1, Own
      <4> QED
        BY <4>1
    <3> QED
      BY <1>1, <1>16, <2>1, <3>1
  <2>3. \A n \in Planned' \cup Offered' :
            /\ Loc(n)' = Loc(n) /\ vq'[n] = vq[n] /\ dir'[n] = dir[n]
            /\ dir[n] = "out" => data'[Loc(n)] = data[Loc(n)]
    BY <1>1, <1>9, <2>2
  <2>4. Planned' \cup Offered' \subseteq Planned \cup Offered
    BY <2>1
  <2> QED
    BY <2>3, <2>4, ReadyKept
<1>18. Indexes(s, l, u + 1)'
  BY <1>1, <1>2, <1>6, <1>7 DEF Indexes
<1>19. Served(s, l, u + 1)'
  <2>1. \A k \in s .. (u + 1) - 1 : k \in s .. u - 1 \/ k = u
    BY <1>3
  <2>2. \A k \in s .. (u + 1) - 1 : (chain[At(k)] # <<>> /\ At(k) \notin avail)'
    <3>1. \A k \in s .. u - 1 : (chain[At(k)] # <<>> /\ At(k) \notin avail)'
      BY <1>1, <1>2, <1>8 DEF Served
    <3>2. (chain[At(u)] # <<>> /\ At(u) \notin avail)'
      BY <1>1, <1>8 DEF Chaining
    <3> QED
      BY <2>1, <3>1, <3>2
  <2>3. ASSUME NEW j \in s .. (u + 1) - 1, NEW k \in s .. (u + 1) - 1, (At(j) = At(k))'
        PROVE  j = k
    BY <1>2, <1>5, <1>8, <2>1, <2>3 DEF Served
  <2>4. ASSUME NEW k \in s .. (u + 1) - 1, NEW n \in Range(chain'[At(k)']), dir'[n] = "in"
        PROVE  data'[Loc(n)'] = "in"
    <3>1. CASE k \in s .. u - 1
      <4>1. n \in Range(chain[At(k)]) /\ n \in Held /\ data[Loc(n)] = "in"
        BY <1>1, <1>2, <1>4, <1>8, <2>4, <3>1 DEF Served, Held
      <4> QED
        BY <1>1, <1>9, <1>16, <4>1
    <3>2. CASE k = u
      <4>1. n \in Range(chain[h]) /\ dir[n] = "in"
        BY <1>1, <1>8, <2>4, <3>2
      <4>2. Loc(n) \in filled /\ Loc(n) \in Places
        BY <1>15, <1>16, <4>1
      <4> QED
        BY <1>1, <1>9, <4>2
    <3> QED
      BY <2>1, <3>1, <3>2
  <2>5. ASSUME NEW k \in s .. l - 1, NEW n \in Range(chain'[At(k)']) PROVE ~ ring'[n].across
    <3>1. k \in s .. u - 1
      BY <1>3
    <3> QED
      BY <1>1, <1>2, <1>8, <2>5, <3>1 DEF Served
  <2> QED
    BY <2>2, <2>3, <2>4, <2>5 DEF Served
<1>20. Going(l, u + 1)'
  <2> SUFFICES ASSUME at = "desc"
               PROVE  Going(l, u + 1)'
    BY <1>1 DEF Going
  <2>1. l \in s .. u - 1 /\ l < u + 1
    BY <1>2, <1>3 DEF Going
  <2>2. chain'[At(l)'] = chain[At(l)]
    BY <1>1, <1>8, <2>1
  <2> QED
    BY <1>1, <1>2, <2>1, <2>2 DEF Going
<1>21. Rings'
  <2>1. u + 1 \in Nat
    OBVIOUS
  <2> QED
    BY <1>18, <1>19, <1>20, <2>1 DEF Rings
<1> QED
  BY <1>11, <1>12, <1>13, <1>14, <1>17, <1>21

LEMMA IntrStartInductive ==
  ASSUME IInv, IntrStart
  PROVE  IInv'
<1> USE DEF IInv
<1>1. /\ at' = "loop" /\ irq' = FALSE /\ active' = active
      /\ ring' = ring /\ vq' = vq /\ pool' = pool /\ data' = data /\ plan' = plan
      /\ pos' = pos /\ unset' = unset /\ chain' = chain /\ dir' = dir /\ buf' = buf
      /\ avail' = avail /\ used' = used /\ usedIdx' = usedIdx /\ lastIdx' = lastIdx
      /\ seenIdx' = seenIdx /\ id' = id
  BY DEF IntrStart, ringVars, driverVars, usedVars
<1>2. TypeOK'
  BY <1>1 DEF TypeOK
<1>3. Busy' = Busy /\ Planned' = Planned /\ Held' = Held /\ Offered' = Offered /\ Bounced' = Bounced
  BY <1>1 DEF Busy, Planned, Held, Done, Offered, Bounced
<1>4. Planning' /\ Chaining' /\ Holding' /\ Ready'
  <2>1. Planning'
    BY <1>1, <1>3 DEF Planning, Done, ToWrite
  <2>2. Chaining'
    BY <1>1 DEF Chaining, Wired
  <2>3. Holding'
    BY <1>1, <1>3 DEF Holding, NoLeak
  <2>4. Ready'
    BY <1>1, <1>3 DEF Ready, Loc
  <2> QED
    BY <2>1, <2>2, <2>3, <2>4
<1>5. Rings'
  <2>1. PICK s \in Nat, l \in Nat, u \in Nat : Indexes(s, l, u) /\ Served(s, l, u) /\ Going(l, u)
    BY DEF Rings
  <2>2. Indexes(s, l, u)' /\ Served(s, l, u)' /\ Going(l, u)'
    BY <1>1, <2>1 DEF Indexes, Served, Going, At, Loc
  <2> QED
    BY <2>2 DEF Rings
<1> QED
  BY <1>2, <1>4, <1>5

LEMMA IntrNextInductive ==
  ASSUME IInv, IntrNext
  PROVE  IInv'
<1> USE DEF IInv
<1>1. /\ IF lastIdx = usedIdx THEN at' = "out" /\ id' = id ELSE at' = "desc" /\ id' = Entry(lastIdx)
      /\ ring' = ring /\ vq' = vq /\ pool' = pool /\ data' = data /\ plan' = plan
      /\ pos' = pos /\ unset' = unset /\ chain' = chain /\ dir' = dir /\ buf' = buf
      /\ avail' = avail /\ used' = used /\ usedIdx' = usedIdx /\ lastIdx' = lastIdx
      /\ seenIdx' = seenIdx /\ irq' = irq /\ active' \in BOOLEAN
  BY DEF IntrNext, ringVars, driverVars, usedVars, TypeOK
<1>2. PICK s \in Nat, l \in Nat, u \in Nat : Indexes(s, l, u) /\ Served(s, l, u) /\ Going(l, u)
  BY DEF Rings
<1>3. /\ s <= l /\ l <= u /\ u <= s + Num /\ Num \in Nat
      /\ lastIdx = l % IdxMod /\ usedIdx = u % IdxMod
  BY <1>2, Numbers DEF Indexes
<1>4. Entry(lastIdx) = At(l) /\ At(l) \in Descs
  <2>1. Entry(lastIdx) = At(l) /\ l % Num \in Descs
    BY <1>3, EntryAt
  <2> QED
    BY <2>1 DEF At, TypeOK
<1>5. lastIdx = usedIdx <=> l = u
  <2>1. u <= l + Num
    BY <1>3
  <2> QED
    BY <1>3, <2>1, SameIdx
<1>6. TypeOK'
  BY <1>1, <1>4 DEF TypeOK
<1>7. Busy' = Busy /\ Planned' = Planned /\ Held' = Held /\ Offered' = Offered /\ Bounced' = Bounced
  BY <1>1 DEF Busy, Planned, Held, Done, Offered, Bounced
<1>8. Planning' /\ Chaining' /\ Holding' /\ Ready'
  <2>1. Planning'
    BY <1>1, <1>7 DEF Planning, Done, ToWrite
  <2>2. Chaining'
    BY <1>1 DEF Chaining, Wired
  <2>3. Holding'
    BY <1>1, <1>7 DEF Holding, NoLeak
  <2>4. Ready'
    BY <1>1, <1>7 DEF Ready, Loc
  <2> QED
    BY <2>1, <2>2, <2>3, <2>4
<1>9. Indexes(s, l, u)' /\ Served(s, l, u)'
  BY <1>1, <1>2 DEF Indexes, Served, At, Loc
<1>10. Going(l, u)'
  <2> SUFFICES ASSUME at' = "desc"
               PROVE  /\ l < u
                      /\ \E k \in DOMAIN chain[At(l)] :
                           /\ id' = chain[At(l)][k]
                           /\ \A j \in 1 .. k - 1 : ~ ring[chain[At(l)][j]].across
    BY <1>1 DEF Going, At
  <2>1. l < u /\ id' = At(l)
    BY <1>1, <1>3, <1>4, <1>5
  <2>2. l \in s .. u - 1
    BY <1>3, <2>1
  <2>3. chain[At(l)] # <<>> /\ chain[At(l)][1] = At(l) /\ 1 \in DOMAIN chain[At(l)]
    <3>1. chain[At(l)] # <<>>
      BY <1>2, <2>2 DEF Served
    <3> QED
      BY <1>4, <3>1, Heads DEF Chaining
  <2>4. \A j \in 1 .. 1 - 1 : ~ ring[chain[At(l)][j]].across
    OBVIOUS
  <2> QED
    BY <2>1, <2>3, <2>4
<1>11. Rings'
  BY <1>9, <1>10 DEF Rings
<1> QED
  BY <1>6, <1>8, <1>11

\* The descriptor of the chain at which virtio_dev_intr() is.
LEMMA Here ==
  ASSUME IInv, NEW n \in Descs, at = "desc", id = n,
         NEW s \in Nat, NEW l \in Nat, NEW u \in Nat,
         Indexes(s, l, u), Served(s, l, u), Going(l, u)
  PROVE  /\ l \in s .. u - 1 /\ At(l) \in Descs /\ n \in Busy
         /\ n \notin Planned /\ n \notin Offered
         /\ n \in Range(chain[At(l)])
         /\ Len(chain[At(l)]) \in Nat /\ DOMAIN chain[At(l)] = 1 .. Len(chain[At(l)])
         /\ \E k \in DOMAIN chain[At(l)] :
              /\ n = chain[At(l)][k]
              /\ \A j \in 1 .. k - 1 : ~ ring[chain[At(l)][j]].across
              /\ ring[n].hasNext <=> k < Len(chain[At(l)])
              /\ k < Len(chain[At(l)]) => ring[n].next = chain[At(l)][k + 1]
<1> USE DEF IInv
<1>1. l \in s .. u - 1
  BY DEF Going, Indexes
<1>2. At(l) \in Descs /\ Range(chain[At(l)]) \subseteq Busy
  BY <1>1, Entries
<1>3. PICK k \in DOMAIN chain[At(l)] :
              /\ n = chain[At(l)][k]
              /\ \A j \in 1 .. k - 1 : ~ ring[chain[At(l)][j]].across
  BY DEF Going
<1>4. Len(chain[At(l)]) \in Nat /\ DOMAIN chain[At(l)] = 1 .. Len(chain[At(l)])
  BY <1>2, LenProperties DEF TypeOK
<1>5. n \in Range(chain[At(l)]) /\ n \in Busy
  BY <1>2, <1>3 DEF Range
<1>6. n \notin Planned
  BY <1>5, Plan
<1>7. n \notin Offered
  <2> SUFFICES ASSUME NEW g \in avail, n \in Range(chain[g]) PROVE FALSE
    BY DEF Offered
  <2>1. g \in Descs /\ At(l) \notin avail
    BY <1>1 DEF TypeOK, Served
  <2> QED
    BY <1>2, <1>5, <2>1 DEF Chaining
<1>8. /\ ring[n].hasNext <=> k < Len(chain[At(l)])
      /\ k < Len(chain[At(l)]) => ring[n].next = chain[At(l)][k + 1]
  BY <1>2, <1>3 DEF Chaining, Wired
<1> QED
  BY <1>1, <1>2, <1>3, <1>4, <1>5, <1>6, <1>7, <1>8

\* What is copied back is where the data of n is from then on.
LEMMA CopiedBack ==
  ASSUME TypeOK, Holding, Busy \subseteq Descs, buf' = buf, NEW n \in Busy,
         IF ring[n].across THEN CopyBack(n) ELSE UNCHANGED <<data, pool, ring>>
  PROVE  /\ ring' \in [Descs -> [ipa : Bufs \cup {Nil}, real : Places \cup {Nil},
                         across : BOOLEAN, hasNext : BOOLEAN, next : Descs \cup {Nil}]]
         /\ data' \in [Places -> {"out", "in", "other"}] /\ pool' \subseteq Places
         /\ ~ ring'[n].across
         /\ \A m \in Descs \ {n} : ring'[m] = ring[m] /\ Loc(m)' = Loc(m)
         /\ \A m \in Descs : /\ ring'[m].hasNext = ring[m].hasNext
                             /\ ring'[m].next = ring[m].next
                             /\ ring'[m].ipa = ring[m].ipa
                             /\ ring'[m].real = ring[m].real
         /\ \A m \in Held : data'[Loc(m)'] = data[Loc(m)]
         /\ Bounced' = Bounced \ {n} /\ NoLeak'
<1>1. n \in Descs /\ n \in Held
  BY DEF Held
<1>2. CASE ring[n].across
  <2>1. /\ data' = [data EXCEPT ![ring[n].ipa] = data[ring[n].real], ![ring[n].real] = "other"]
        /\ pool' = pool \cup {ring[n].real}
        /\ ring' = [ring EXCEPT ![n].across = FALSE]
    BY <1>2 DEF CopyBack
  <2>2. n \in Bounced
    BY <1>1, <1>2 DEF Bounced
  <2>3. /\ ring[n].ipa = buf[n] /\ buf[n] \in Bufs /\ buf[n] \in Places
        /\ ring[n].real \in Pages /\ ring[n].real \in Places /\ Loc(n) = ring[n].real
    BY <1>1, <2>2, Own DEF Holding, Places
  <2>4. data[ring[n].real] \in {"out", "in", "other"}
    BY <2>3 DEF TypeOK
  <2>5. data' \in [Places -> {"out", "in", "other"}] /\ pool' \subseteq Places
    BY <2>1, <2>3, <2>4 DEF TypeOK
  <2>6. ring' \in [Descs -> [ipa : Bufs \cup {Nil}, real : Places \cup {Nil},
                         across : BOOLEAN, hasNext : BOOLEAN, next : Descs \cup {Nil}]]
    <3>1. ring \in [Descs -> [ipa : Bufs \cup {Nil}, real : Places \cup {Nil},
                         across : BOOLEAN, hasNext : BOOLEAN, next : Descs \cup {Nil}]]
      BY DEF TypeOK
    <3>2. [ring EXCEPT ![n].across = FALSE] \in
             [Descs -> [ipa : Bufs \cup {Nil}, real : Places \cup {Nil},
                         across : BOOLEAN, hasNext : BOOLEAN, next : Descs \cup {Nil}]]
      BY <1>1, <3>1, FieldType
    <3> QED
      BY <2>1, <3>2
  <2>7. /\ ~ ring'[n].across
        /\ \A m \in Descs \ {n} : ring'[m] = ring[m]
        /\ \A m \in Descs : /\ ring'[m].hasNext = ring[m].hasNext
                            /\ ring'[m].next = ring[m].next
                            /\ ring'[m].ipa = ring[m].ipa
                            /\ ring'[m].real = ring[m].real
    BY <1>1, <2>1 DEF TypeOK
  <2>8. \A m \in Descs \ {n} : Loc(m)' = Loc(m)
    BY <2>7 DEF Loc
  <2>9. ASSUME NEW m \in Held PROVE data'[Loc(m)'] = data[Loc(m)]
    <3>1. CASE m = n
      <4>1. Loc(n)' = buf[n] /\ buf[n] # ring[n].real
        BY <2>3, <2>7, Numbers DEF Loc
      <4> QED
        BY <2>1, <2>3, <3>1, <4>1 DEF TypeOK
    <3>2. CASE m # n
      <4>1. m \in Descs
        BY Own
      <4>2. /\ Loc(m)' = Loc(m) /\ Loc(m) \in Places
            /\ Loc(m) # buf[n] /\ Loc(m) # ring[n].real
        BY <1>1, <2>3, <2>8, <3>2, <4>1, Own
      <4> QED
        BY <2>1, <2>3, <4>2 DEF TypeOK
    <3> QED
      BY <3>1, <3>2
  <2>10. Bounced' = Bounced \ {n}
    BY <2>7 DEF Bounced
  <2>11. NoLeak'
    <3>1. \A m \in Bounced : m \in Descs /\ ring'[m].real = ring[m].real
      BY <2>7 DEF Bounced
    <3>2. {ring'[m].real : m \in Bounced'} = {ring[m].real : m \in Bounced} \ {ring[n].real}
      BY <2>2, <2>10, <3>1 DEF Holding, NoLeak
    <3>3. pool' = Pages \ {ring'[m].real : m \in Bounced'}
      BY <2>1, <2>3, <3>2 DEF Holding, NoLeak
    <3>4. \A g, m \in Bounced' : ring'[g].real = ring'[m].real => g = m
      BY <2>10, <3>1 DEF Holding, NoLeak
    <3> QED
      BY <3>3, <3>4 DEF NoLeak
  <2> QED
    BY <2>5, <2>6, <2>7, <2>8, <2>9, <2>10, <2>11
<1>3. CASE ~ ring[n].across
  <2>1. ring' = ring /\ pool' = pool /\ data' = data
    BY <1>3
  <2>2. \A m : Loc(m)' = Loc(m)
    BY <2>1 DEF Loc
  <2>3. Bounced' = Bounced /\ n \notin Bounced
    BY <1>3, <2>1 DEF Bounced
  <2>4. NoLeak'
    BY <2>1, <2>3 DEF NoLeak, Holding
  <2> QED
    BY <1>3, <2>1, <2>2, <2>3, <2>4 DEF TypeOK
<1> QED
  BY <1>2, <1>3

LEMMA IntrDescInductive ==
  ASSUME IInv, NEW n \in Descs, IntrDesc(n)
  PROVE  IInv'
<1> USE DEF IInv
<1>1. /\ at = "desc" /\ id = n /\ Walk(n)
      /\ IF ring[n].across THEN CopyBack(n) ELSE UNCHANGED <<data, pool, ring>>
      /\ vq' = vq /\ plan' = plan /\ pos' = pos /\ unset' = unset /\ chain' = chain
      /\ dir' = dir /\ buf' = buf /\ avail' = avail /\ used' = used
      /\ usedIdx' = usedIdx /\ seenIdx' = seenIdx /\ irq' = irq /\ active' = active
  BY DEF IntrDesc, driverVars
<1>2. PICK s \in Nat, l \in Nat, u \in Nat : Indexes(s, l, u) /\ Served(s, l, u) /\ Going(l, u)
  BY DEF Rings
<1> DEFINE c == chain[At(l)]
<1>3. /\ l \in s .. u - 1 /\ At(l) \in Descs /\ n \in Busy
      /\ n \notin Planned /\ n \notin Offered /\ n \in Range(c)
      /\ Len(c) \in Nat /\ DOMAIN c = 1 .. Len(c)
  BY <1>1, <1>2, Here
<1>4. PICK k \in DOMAIN c :
        /\ n = c[k]
        /\ \A j \in 1 .. k - 1 : ~ ring[c[j]].across
        /\ ring[n].hasNext <=> k < Len(c)
        /\ k < Len(c) => ring[n].next = c[k + 1]
  BY <1>1, <1>2, Here
<1>5. Busy \subseteq Descs /\ Offered \subseteq Busy
  BY Heads
<1>6. /\ ring' \in [Descs -> [ipa : Bufs \cup {Nil}, real : Places \cup {Nil},
                         across : BOOLEAN, hasNext : BOOLEAN, next : Descs \cup {Nil}]]
      /\ data' \in [Places -> {"out", "in", "other"}] /\ pool' \subseteq Places
      /\ ~ ring'[n].across
      /\ \A m \in Descs \ {n} : ring'[m] = ring[m] /\ Loc(m)' = Loc(m)
      /\ \A m \in Descs : /\ ring'[m].hasNext = ring[m].hasNext
                          /\ ring'[m].next = ring[m].next
                          /\ ring'[m].ipa = ring[m].ipa
                          /\ ring'[m].real = ring[m].real
      /\ \A m \in Held : data'[Loc(m)'] = data[Loc(m)]
      /\ Bounced' = Bounced \ {n} /\ NoLeak'
  BY <1>1, <1>3, <1>5, CopiedBack
<1>7. \A m \in Descs : ring'[m].across => ring[m].across
  BY <1>6
<1>8. \A j \in DOMAIN c : c[j] \in Descs
  BY <1>3, <1>5, Heads DEF Range
<1>9. \/ k < Len(c) /\ k + 1 \in DOMAIN c /\ at' = at /\ id' = c[k + 1] /\ lastIdx' = lastIdx
      \/ k = Len(c) /\ at' = "loop" /\ id' = 0 /\ lastIdx' = NextIdx(lastIdx)
  BY <1>1, <1>3, <1>4 DEF Walk
<1>10. lastIdx = l % IdxMod /\ NextIdx(lastIdx) = (l + 1) % IdxMod
       /\ (l + 1) % IdxMod \in 0 .. IdxMod - 1
  <2>1. l + 1 \in Nat
    OBVIOUS
  <2> QED
    BY <1>2, <2>1, EntryAt DEF Indexes
<1>11. TypeOK'
  <2>1. at' \in {"out", "loop", "desc"} /\ id' \in Descs /\ lastIdx' \in 0 .. IdxMod - 1
    BY <1>8, <1>9, <1>10, Numbers DEF TypeOK
  <2> QED
    BY <1>1, <1>6, <2>1 DEF TypeOK
<1>12. Chaining' /\ Busy' = Busy
  BY <1>1, <1>5, <1>6, ChainingKept
<1>13. Planned' = Planned /\ Held' = Held /\ Offered' = Offered
  BY <1>1, <1>12 DEF Planned, Held, Done, Offered
<1>14. Planning'
  <2>1. \A j \in DOMAIN plan : plan[j] \in Descs
    BY Plan
  <2> QED
    BY <1>1, <1>6, <1>7, <1>12, <2>1 DEF Planning, Done, ToWrite
<1>15. Holding'
  <2>1. Held \subseteq Descs
    BY <1>5, Own
  <2>2. \A m \in Held' : buf'[m] \in Bufs /\ ring'[m].ipa = buf'[m]
    BY <1>1, <1>6, <1>13, <2>1 DEF Holding
  <2>3. \A m \in Descs \ Held' : ~ ring'[m].across
    BY <1>7, <1>13 DEF Holding
  <2>4. \A m \in Bounced' : ring'[m].real \in Pages
    <3>1. \A m \in Bounced' : m \in Bounced /\ m \in Descs
      BY <1>6 DEF Bounced
    <3> QED
      BY <1>6, <3>1 DEF Holding
  <2> QED
    BY <1>1, <1>6, <2>2, <2>3, <2>4 DEF Holding
<1>16. Ready'
  <2>1. \A m \in Planned \cup Offered : m \in Descs \ {n} /\ m \in Held
    BY <1>3, <1>5 DEF Planned, Held
  <2> QED
    BY <1>1, <1>6, <1>13, <2>1, ReadyKept
<1>17. \A j \in Nat : At(j)' = At(j)
  BY <1>1 DEF At
<1>18. \A j \in s .. u - 1 : j \in Nat /\ Range(chain[At(j)]) \subseteq Busy
  BY <1>2, Entries
<1>19. s <= l /\ l < u /\ l + 1 <= u
  BY <1>2, <1>3 DEF Indexes
<1>20. /\ \A j \in s .. u - 1 : (chain[At(j)] # <<>> /\ At(j) \notin avail)'
       /\ \A i, j \in s .. u - 1 : (At(i) = At(j))' => i = j
       /\ \A j \in s .. u - 1 : \A m \in Range(chain'[At(j)']) :
            dir'[m] = "in" => data'[Loc(m)'] = "in"
  <2>1. \A j \in s .. u - 1 : (chain[At(j)] # <<>> /\ At(j) \notin avail)'
    BY <1>1, <1>2, <1>17, <1>18 DEF Served
  <2>2. \A i, j \in s .. u - 1 : (At(i) = At(j))' => i = j
    BY <1>2, <1>17, <1>18 DEF Served
  <2>3. ASSUME NEW j \in s .. u - 1, NEW m \in Range(chain'[At(j)']), dir'[m] = "in"
        PROVE  data'[Loc(m)'] = "in"
    <3>1. m \in Range(chain[At(j)]) /\ m \in Held
      BY <1>1, <1>17, <1>18, <2>3 DEF Held
    <3> QED
      BY <1>1, <1>2, <1>6, <2>3, <3>1 DEF Served
  <2> QED
    BY <2>1, <2>2, <2>3
<1>21. \A j \in s .. l - 1 : \A m \in Range(chain'[At(j)']) : ~ ring'[m].across
  <2> SUFFICES ASSUME NEW j \in s .. l - 1, NEW m \in Range(chain'[At(j)'])
               PROVE  ~ ring'[m].across
    OBVIOUS
  <2>1. j \in s .. u - 1
    BY <1>19
  <2>2. m \in Range(chain[At(j)]) /\ m \in Descs
    BY <1>1, <1>5, <1>17, <1>18, <2>1
  <2> QED
    BY <1>2, <1>7, <2>2 DEF Served
<1>22. \A j \in 1 .. k : ~ ring'[c[j]].across
  <2>1. \A j \in 1 .. k : j \in 1 .. k - 1 \/ j = k
    BY <1>3
  <2>2. \A j \in 1 .. k - 1 : j \in DOMAIN c
    BY <1>3
  <2> QED
    BY <1>4, <1>6, <1>7, <1>8, <2>1, <2>2
<1>23. CASE k < Len(c) /\ k + 1 \in DOMAIN c /\ at' = at /\ id' = c[k + 1] /\ lastIdx' = lastIdx
  <2>1. Indexes(s, l, u)'
    BY <1>1, <1>2, <1>23 DEF Indexes
  <2>2. Served(s, l, u)'
    BY <1>20, <1>21 DEF Served
  <2>3. Going(l, u)'
    <3>1. At(l)' = At(l)
      BY <1>17
    <3>2. \A j \in 1 .. (k + 1) - 1 : ~ ring'[c[j]].across
      BY <1>3, <1>22
    <3> QED
      BY <1>1, <1>19, <1>23, <3>1, <3>2 DEF Going
  <2>4. Rings'
    BY <2>1, <2>2, <2>3 DEF Rings
  <2> QED
    BY <1>11, <1>12, <1>14, <1>15, <1>16, <2>4
<1>24. CASE k = Len(c) /\ at' = "loop" /\ id' = 0 /\ lastIdx' = NextIdx(lastIdx)
  <2>1. Indexes(s, l + 1, u)'
    BY <1>1, <1>2, <1>10, <1>19, <1>24 DEF Indexes
  <2>2. \A m \in Range(c) : ~ ring'[m].across
    BY <1>3, <1>22, <1>24 DEF Range
  <2>3. ASSUME NEW j \in s .. (l + 1) - 1, NEW m \in Range(chain'[At(j)'])
        PROVE  ~ ring'[m].across
    <3>1. j \in s .. l - 1 \/ j = l
      OBVIOUS
    <3>2. At(l)' = At(l)
      BY <1>17
    <3> QED
      BY <1>1, <1>21, <2>2, <2>3, <3>1, <3>2
  <2>4. Served(s, l + 1, u)'
    BY <1>20, <2>3 DEF Served
  <2>5. Going(l + 1, u)'
    BY <1>24 DEF Going
  <2>6. l + 1 \in Nat
    OBVIOUS
  <2>7. Rings'
    BY <2>1, <2>4, <2>5, <2>6 DEF Rings
  <2> QED
    BY <1>11, <1>12, <1>14, <1>15, <1>16, <2>7
<1> QED
  BY <1>9, <1>23, <1>24

LEMMA SeeInductive ==
  ASSUME IInv, Patient, See
  PROVE  IInv'
<1> USE DEF IInv
<1> DEFINE h == Entry(seenIdx)
           ns == Range(chain[h])
<1>1. /\ seenIdx # usedIdx /\ seenIdx # lastIdx
      /\ buf' = [n \in Descs |-> IF n \in ns THEN Nil ELSE buf[n]]
      /\ dir' = [n \in Descs |-> IF n \in ns THEN "in" ELSE dir[n]]
      /\ data' = [p \in Places |-> IF p \in {buf[n] : n \in ns} THEN "other" ELSE data[p]]
      /\ chain' = [chain EXCEPT ![h] = <<>>]
      /\ used' = [used EXCEPT ![seenIdx % Num] = 0]
      /\ seenIdx' = NextIdx(seenIdx)
      /\ ring' = ring /\ vq' = vq /\ pool' = pool /\ plan' = plan /\ pos' = pos
      /\ unset' = unset /\ avail' = avail /\ usedIdx' = usedIdx /\ lastIdx' = lastIdx
      /\ irq' = irq /\ active' = active /\ at' = at /\ id' = id
  BY DEF See, ringVars
<1>2. PICK s \in Nat, l \in Nat, u \in Nat : Indexes(s, l, u) /\ Served(s, l, u) /\ Going(l, u)
  BY DEF Rings
<1>3. /\ s <= l /\ l <= u /\ u <= s + Num /\ Num \in Nat
      /\ seenIdx = s % IdxMod /\ lastIdx = l % IdxMod /\ usedIdx = u % IdxMod
  BY <1>2, Numbers DEF Indexes
<1>4. s < l /\ s \in s .. l - 1 /\ s \in s .. u - 1
  <2>1. l <= s + Num
    BY <1>3
  <2>2. s # l
    BY <1>1, <1>3
  <2> QED
    BY <1>3, <2>2
<1>5. /\ h = At(s) /\ seenIdx % Num = s % Num /\ s % Num \in Descs
      /\ seenIdx' = (s + 1) % IdxMod /\ (s + 1) % IdxMod \in 0 .. IdxMod - 1
  <2>1. s + 1 \in Nat
    OBVIOUS
  <2> QED
    BY <1>1, <1>3, <2>1, EntryAt
<1>6. \A k \in s .. u - 1 : /\ k \in Nat /\ At(k) \in Descs /\ k % Num \in Descs
                            /\ Range(chain[At(k)]) \subseteq Busy
  BY <1>2, Entries
<1>7. h \in Descs /\ h \notin avail /\ ns \subseteq Busy /\ \A n \in ns : ~ ring[n].across
  BY <1>2, <1>4, <1>5, <1>6 DEF Served
<1>8. /\ Busy \subseteq Descs /\ Offered \subseteq Busy
      /\ \A n \in Held : buf[n] \in Bufs /\ Loc(n) \in Places
      /\ \A n, m \in Held : buf[n] = Loc(m) => n = m
      /\ Held \subseteq Descs
  BY Heads, Own
<1>9. /\ chain'[h] = <<>>
      /\ \A g \in Descs \ {h} : chain'[g] = chain[g]
  BY <1>1, <1>7 DEF TypeOK
<1>10. \A g \in Descs \ {h} : \A n \in Range(chain[g]) : n \notin ns
  BY <1>7, <1>8, Heads DEF Chaining
<1>11. Busy' = Busy \ ns
  <2>1. Range(chain'[h]) = {}
    BY <1>9 DEF Range
  <2>2. \A n : n \in Busy' <=> \E g \in Descs : n \in Range(chain'[g])
    BY DEF Busy
  <2>3. \A n : n \in Busy <=> \E g \in Descs : n \in Range(chain[g])
    BY DEF Busy
  <2>4. ASSUME NEW n PROVE n \in Busy' <=> n \in Busy \ ns
    BY <1>7, <1>9, <1>10, <2>1, <2>2, <2>3
  <2> QED
    BY <2>4
<1>12. Planned' = Planned /\ \A n \in Planned : n \notin Busy /\ n \notin ns
  BY <1>1, <1>7, Plan DEF Planned, Done
<1>13. Held' = Held \ ns
  BY <1>11, <1>12 DEF Held
<1>14. Offered' = Offered /\ \A n \in Offered : n \notin ns
  <2>1. \A g \in avail : g \in Descs \ {h}
    BY <1>7 DEF TypeOK
  <2>2. \A g \in avail : chain'[g] = chain[g]
    BY <1>9, <2>1
  <2>3. Offered' = Offered
    BY <1>1, <2>2 DEF Offered
  <2>4. \A n \in Offered : n \notin ns
    BY <1>10, <2>1 DEF Offered
  <2> QED
    BY <2>3, <2>4
<1>15. \A n \in Held \ ns : /\ buf'[n] = buf[n] /\ dir'[n] = dir[n] /\ Loc(n)' = Loc(n)
                            /\ data'[Loc(n)'] = data[Loc(n)]
  <2> SUFFICES ASSUME NEW n \in Held \ ns
               PROVE  /\ buf'[n] = buf[n] /\ dir'[n] = dir[n] /\ Loc(n)' = Loc(n)
                      /\ data'[Loc(n)'] = data[Loc(n)]
    OBVIOUS
  <2>1. buf'[n] = buf[n] /\ dir'[n] = dir[n]
    BY <1>1, <1>8
  <2>2. Loc(n)' = Loc(n)
    BY <1>1, <2>1 DEF Loc
  <2>3. \A m \in ns : m \in Held
    BY <1>7 DEF Held
  <2>4. Loc(n) \in Places /\ Loc(n) \notin {buf[m] : m \in ns}
    BY <1>8, <2>3
  <2> QED
    BY <1>1, <2>1, <2>2, <2>4
<1>16. TypeOK'
  <2>1. buf' \in [Descs -> Bufs \cup {Nil}] /\ dir' \in [Descs -> {"in", "out"}]
    BY <1>1 DEF TypeOK
  <2>2. data' \in [Places -> {"out", "in", "other"}]
    BY <1>1 DEF TypeOK
  <2>3. chain' \in [Descs -> Seq(Descs)]
    <3>1. <<>> \in Seq(Descs)
      OBVIOUS
    <3> QED
      BY <1>1, <3>1 DEF TypeOK
  <2>4. used' \in [Descs -> Descs]
    BY <1>1, Numbers DEF TypeOK
  <2> QED
    BY <1>1, <1>5, <2>1, <2>2, <2>3, <2>4 DEF TypeOK
<1>17. Planning'
  BY <1>1, <1>11 DEF Planning, Done, ToWrite
<1>18. Chaining'
  <2>1. \A g \in avail' : chain'[g] # <<>>
    <3>1. \A g \in avail : g \in Descs \ {h}
      BY <1>7 DEF TypeOK
    <3> QED
      BY <1>1, <1>9, <3>1 DEF Chaining
  <2>2. \A g \in Descs : chain'[g] # <<>> => chain'[g][1] = g
    BY <1>9 DEF Chaining
  <2>3. \A g \in Descs : Range(chain'[g]) \subseteq Range(chain[g])
    BY <1>9 DEF Range
  <2>4. \A g, j \in Descs, n \in Descs : n \in Range(chain'[g]) /\ n \in Range(chain'[j]) => g = j
    BY <2>3 DEF Chaining
  <2>5. \A g \in Descs : Wired(chain[g])'
    <3> SUFFICES ASSUME NEW g \in Descs PROVE Wired(chain[g])'
      OBVIOUS
    <3>1. CASE g = h
      <4>1. DOMAIN chain'[g] = {}
        BY <1>9, <3>1
      <4> QED
        BY <4>1 DEF Wired
    <3>2. CASE g # h
      BY <1>1, <1>9, <3>2 DEF Chaining, Wired
    <3> QED
      BY <3>1, <3>2
  <2> QED
    BY <2>1, <2>2, <2>4, <2>5 DEF Chaining
<1>19. Holding'
  <2>1. \A n \in Held' : buf'[n] \in Bufs /\ ring'[n].ipa = buf'[n]
    BY <1>1, <1>13, <1>15 DEF Holding
  <2>2. \A n \in Descs \ Held' : ~ ring'[n].across
    BY <1>1, <1>7, <1>13 DEF Holding
  <2>3. \A n, m \in Descs : buf'[n] # Nil /\ buf'[n] = buf'[m] => n = m
    BY <1>1 DEF Holding
  <2>4. Bounced' = Bounced
    BY <1>1 DEF Bounced
  <2> QED
    BY <1>1, <2>1, <2>2, <2>3, <2>4 DEF Holding, NoLeak
<1>20. Ready'
  <2>1. \A n \in Planned \cup Offered : n \in Held \ ns
    BY <1>8, <1>12, <1>14 DEF Held
  <2> QED
    BY <1>1, <1>12, <1>14, <1>15, <2>1, ReadyKept
<1>21. \A k \in (s + 1) .. u - 1 :
         /\ k \in s .. u - 1 /\ At(k)' = At(k) /\ At(k) \in Descs \ {h}
         /\ chain'[At(k)'] = chain[At(k)] /\ Range(chain[At(k)]) \subseteq Held \ ns
  <2> SUFFICES ASSUME NEW k \in (s + 1) .. u - 1
               PROVE  /\ k \in s .. u - 1 /\ At(k)' = At(k) /\ At(k) \in Descs \ {h}
                      /\ chain'[At(k)'] = chain[At(k)] /\ Range(chain[At(k)]) \subseteq Held \ ns
    OBVIOUS
  <2>1. k \in s .. u - 1 /\ k \in Nat /\ s < k /\ k < s + Num
    BY <1>3
  <2>2. k % Num # s % Num
    BY <2>1, Slots
  <2>3. At(k)' = At(k)
    BY <1>1, <1>5, <1>6, <2>1, <2>2 DEF At, TypeOK
  <2>4. At(k) \in Descs \ {h}
    BY <1>2, <1>4, <1>5, <1>6, <2>1 DEF Served
  <2>5. Range(chain[At(k)]) \subseteq Held
    BY <1>6, <2>1 DEF Held
  <2> QED
    BY <1>9, <1>10, <2>1, <2>3, <2>4, <2>5
<1>22. Indexes(s + 1, l, u)'
  <2>1. s + 1 <= l /\ l <= u /\ u <= (s + 1) + Num
    BY <1>3, <1>4
  <2>2. lastIdx' = l % IdxMod /\ usedIdx' = u % IdxMod
    BY <1>1, <1>3
  <2> QED
    BY <1>5, <2>1, <2>2 DEF Indexes
<1>23. Served(s + 1, l, u)'
  <2>1. \A k \in (s + 1) .. u - 1 : (chain[At(k)] # <<>> /\ At(k) \notin avail)'
    BY <1>1, <1>2, <1>21 DEF Served
  <2>2. \A j, k \in (s + 1) .. u - 1 : (At(j) = At(k))' => j = k
    BY <1>2, <1>21 DEF Served
  <2>3. \A k \in (s + 1) .. u - 1 : \A n \in Range(chain'[At(k)']) :
          dir'[n] = "in" => data'[Loc(n)'] = "in"
    <3> SUFFICES ASSUME NEW k \in (s + 1) .. u - 1, NEW n \in Range(chain'[At(k)']), dir'[n] = "in"
                 PROVE  data'[Loc(n)'] = "in"
      OBVIOUS
    <3>1. k \in s .. u - 1 /\ n \in Range(chain[At(k)]) /\ n \in Held \ ns
      BY <1>21
    <3> QED
      BY <1>2, <1>15, <3>1 DEF Served
  <2>4. \A k \in (s + 1) .. l - 1 : \A n \in Range(chain'[At(k)']) : ~ ring'[n].across
    <3> SUFFICES ASSUME NEW k \in (s + 1) .. l - 1, NEW n \in Range(chain'[At(k)'])
                 PROVE  ~ ring'[n].across
      OBVIOUS
    <3>1. k \in (s + 1) .. u - 1 /\ k \in s .. l - 1
      BY <1>3
    <3>2. n \in Range(chain[At(k)])
      BY <1>21, <3>1
    <3> QED
      BY <1>1, <1>2, <3>1, <3>2 DEF Served
  <2> QED
    BY <2>1, <2>2, <2>3, <2>4 DEF Served
<1>24. Going(l, u)'
  <2> SUFFICES ASSUME at = "desc" PROVE Going(l, u)'
    BY <1>1 DEF Going
  <2>1. l \in (s + 1) .. u - 1
    BY <1>2, <1>4 DEF Going
  <2>2. chain'[At(l)'] = chain[At(l)]
    BY <1>21, <2>1
  <2> QED
    BY <1>1, <1>2, <2>2 DEF Going
<1>25. Rings'
  <2>1. s + 1 \in Nat
    OBVIOUS
  <2> QED
    BY <1>22, <1>23, <1>24, <2>1 DEF Rings
<1> QED
  BY <1>16, <1>17, <1>18, <1>19, <1>20, <1>25

-----------------------------------------------------------------------------
(* The theorems *)

LEMMA InitInv == Init => IInv
<1> SUFFICES ASSUME Init PROVE IInv
  OBVIOUS
<1> USE DEF Init
<1>1. /\ DOMAIN plan = {} /\ Busy = {} /\ Planned = {} /\ Offered = {} /\ Bounced = {}
      /\ \A h \in Descs : Range(chain[h]) = {} /\ DOMAIN chain[h] = {}
  BY DEF Busy, Planned, Offered, Bounced, Range, Unused
<1>2. TypeOK
  <2>1. ring \in [Descs -> [ipa : Bufs \cup {Nil}, real : Places \cup {Nil},
                         across : BOOLEAN, hasNext : BOOLEAN, next : Descs \cup {Nil}]]
    BY DEF Unused
  <2>2. 0 \in Descs /\ 0 \in 0 .. IdxMod - 1
    BY Numbers
  <2>3. pool \subseteq Places /\ unset \subseteq Fields /\ avail \subseteq Descs
    BY DEF Places
  <2>4. /\ vq \in [Descs -> Places \cup {Nil}] /\ data \in [Places -> {"out", "in", "other"}]
        /\ dir \in [Descs -> {"in", "out"}] /\ buf \in [Descs -> Bufs \cup {Nil}]
    OBVIOUS
  <2>5. plan \in Seq(Descs) /\ pos \in Nat /\ chain \in [Descs -> Seq(Descs)]
    OBVIOUS
  <2>6. /\ used \in [Descs -> Descs] /\ id \in Descs
        /\ usedIdx \in 0 .. IdxMod - 1 /\ lastIdx \in 0 .. IdxMod - 1 /\ seenIdx \in 0 .. IdxMod - 1
    BY <2>2
  <2>7. irq \in BOOLEAN /\ active \in BOOLEAN /\ at \in {"out", "loop", "desc"}
    OBVIOUS
  <2> HIDE DEF Init
  <2> QED
    BY <2>1, <2>3, <2>4, <2>5, <2>6, <2>7 DEF TypeOK
<1>3. Planning
  BY <1>1 DEF Planning
<1>4. Chaining
  BY <1>1 DEF Chaining, Wired
<1>5. Holding
  BY <1>1 DEF Holding, Held, NoLeak, Unused
<1>6. Ready
  BY <1>1 DEF Ready
<1>7. Rings
  <2>1. 0 % IdxMod = 0
    BY Numbers
  <2>2. Indexes(0, 0, 0)
    BY <2>1, Numbers DEF Indexes
  <2>3. Served(0, 0, 0) /\ Going(0, 0)
    BY DEF Served, Going
  <2> QED
    BY <2>2, <2>3 DEF Rings
<1> QED
  BY <1>2, <1>3, <1>4, <1>5, <1>6, <1>7 DEF IInv

\* The invariant says nothing of interrupt 48 at the guest.
LEMMA SameInv ==
  ASSUME IInv, active' \in BOOLEAN, UNCHANGED <<ringVars, data, driverVars, avail, usedVars, irq, at, id>>
  PROVE  IInv'
<1> USE DEF ringVars, driverVars, usedVars
<1>1. TypeOK'
  BY DEF IInv, TypeOK
<1>2. Busy' = Busy /\ Planned' = Planned /\ Held' = Held /\ Offered' = Offered /\ Bounced' = Bounced
  BY DEF Busy, Planned, Held, Done, Offered, Bounced
<1>3. Planning'
  BY <1>2 DEF IInv, Planning, Done, ToWrite
<1>4. Chaining'
  BY DEF IInv, Chaining, Wired
<1>5. Holding'
  BY <1>2 DEF IInv, Holding, NoLeak
<1>6. Ready'
  BY <1>2 DEF IInv, Ready, Loc
<1>7. Rings'
  <2>1. PICK s \in Nat, l \in Nat, u \in Nat : Indexes(s, l, u) /\ Served(s, l, u) /\ Going(l, u)
    BY DEF IInv, Rings
  <2>2. Indexes(s, l, u)' /\ Served(s, l, u)' /\ Going(l, u)'
    BY <2>1 DEF Indexes, Served, Going, At, Loc
  <2> QED
    BY <2>2 DEF Rings
<1> QED
  BY <1>1, <1>3, <1>4, <1>5, <1>6, <1>7 DEF IInv

LEMMA EoiInductive ==
  ASSUME IInv, Eoi
  PROVE  IInv'
<1>1. active' \in BOOLEAN /\ UNCHANGED <<ringVars, data, driverVars, avail, usedVars, irq, at, id>>
  BY DEF Eoi
<1> QED
  BY <1>1, SameInv

LEMMA NextInv ==
  ASSUME Patient, AddrFirst
  PROVE  IInv /\ [Next]_vars => IInv'
<1> SUFFICES ASSUME IInv, [Next]_vars PROVE IInv'
  OBVIOUS
<1>1. CASE Request
  BY <1>1, RequestInductive
<1>2. CASE Offer
  BY <1>2, OfferInductive
<1>3. CASE See
  BY <1>3, SeeInductive
<1>4. CASE Intr
  BY <1>4, IntrStartInductive, IntrNextInductive, IntrDescInductive DEF Intr
<1>5. ASSUME NEW n \in Descs,
             SetAddr(n) \/ ClearAddr(n) \/ SetLen(n) \/ SetFlags(n) \/ SetNext(n)
      PROVE  IInv'
  BY <1>5, SetAddrInductive, ClearAddrInductive, SetLenInductive, LinkInductive
<1>6. ASSUME NEW h \in Descs, Serve(h) PROVE IInv'
  BY <1>6, ServeInductive
<1>7. CASE Eoi
  BY <1>7, EoiInductive
<1>8. CASE UNCHANGED vars
  <2>1. active' \in BOOLEAN
    BY <1>8 DEF vars, IInv, TypeOK
  <2>2. UNCHANGED <<ringVars, data, driverVars, avail, usedVars, irq, at, id>>
    BY <1>8 DEF vars, ringVars, driverVars, usedVars
  <2> QED
    BY <2>1, <2>2, SameInv
<1> QED
  BY <1>1, <1>2, <1>3, <1>4, <1>5, <1>6, <1>7, <1>8 DEF Next

LEMMA Invariance ==
  ASSUME Patient, AddrFirst
  PROVE  Spec => []IInv
BY InitInv, NextInv, PTL DEF Spec

\* Only the handler moves last_used_idx, at the end of a chain.
LEMMA OnlyIntrDesc ==
  ASSUME [Next]_vars, lastIdx' # lastIdx
  PROVE  \E n \in Descs : IntrDesc(n)
BY DEF Next, vars, Request, Offer, See, Intr, IntrStart, IntrNext, Eoi, SetAddr, ClearAddr,
       SetLen, SetFlags, SetNext, Serve, requestVars, usedVars

\* Every value stays in its type: what is copied from is a buffer or a page,
\* and the handler goes on to a descriptor that the driver named.
THEOREM TypeCorrect ==
  ASSUME Patient, AddrFirst
  PROVE  Spec => []TypeOK
<1>1. IInv => TypeOK
  BY DEF IInv
<1> QED
  BY <1>1, Invariance, PTL

\* The handler frees the bounce page of a descriptor once and only once, and
\* frees no page that it did not take (virtio-mmio-dev.c:73-77, 189-194).
THEOREM NoPageLost ==
  ASSUME Patient, AddrFirst
  PROVE  Spec => []NoLeak
<1>1. IInv => NoLeak
  BY DEF IInv, Holding
<1> QED
  BY <1>1, Invariance, PTL

\* The device reads in each buffer of a request what the driver wrote there
\* (virtio-mmio-dev.c:72-84).
THEOREM DeviceIsServed ==
  ASSUME Patient, AddrFirst
  PROVE  Spec => DeviceReadsGuestData
<1>1. IInv => \A h \in Descs : Serve(h) =>
                \A n \in Range(chain[h]) : dir[n] = "out" => data[vq[n]] = "out"
  <2> SUFFICES ASSUME IInv, NEW h \in Descs, Serve(h), NEW n \in Range(chain[h]), dir[n] = "out"
               PROVE  data[vq[n]] = "out"
    OBVIOUS
  <2>1. h \in avail
    BY DEF Serve
  <2>2. n \in Offered
    BY <2>1, Heads DEF IInv, Offered
  <2> QED
    BY <2>2 DEF IInv, Ready
<1> QED
  BY <1>1, Invariance, PTL DEF DeviceReadsGuestData

\* virtio_dev_intr() moves past a used entry only when each buffer of the
\* request that the device was to fill holds what the device wrote, also one of
\* which the bounce page was copied and freed (virtio-mmio-dev.c:184-201).
THEOREM DriverIsServed ==
  ASSUME Patient, AddrFirst
  PROVE  Spec => HandsOver
<1>1. ASSUME IInv, [Next]_vars, lastIdx' # lastIdx,
             NEW n \in Range(chain[Entry(lastIdx)]), dir[n] = "in"
      PROVE  data'[buf[n]] = "in"
  <2>1. PICK m \in Descs : IntrDesc(m)
    BY <1>1, OnlyIntrDesc
  <2>2. /\ at = "desc" /\ id = m /\ Walk(m) /\ buf' = buf
        /\ IF ring[m].across THEN CopyBack(m) ELSE UNCHANGED <<data, pool, ring>>
    BY <2>1 DEF IntrDesc, driverVars
  <2>3. ~ ring[m].hasNext
    BY <1>1, <2>2 DEF Walk
  <2>4. PICK s \in Nat, l \in Nat, u \in Nat :
               Indexes(s, l, u) /\ Served(s, l, u) /\ Going(l, u)
    BY <1>1 DEF IInv, Rings
  <2> DEFINE c == chain[At(l)]
  <2>5. /\ l \in s .. u - 1 /\ m \in Busy
        /\ Len(c) \in Nat /\ DOMAIN c = 1 .. Len(c)
    BY <1>1, <2>2, <2>4, Here
  <2>6. PICK k \in DOMAIN c :
          /\ m = c[k]
          /\ \A j \in 1 .. k - 1 : ~ ring[c[j]].across
          /\ ring[m].hasNext <=> k < Len(c)
    BY <1>1, <2>2, <2>4, Here
  <2>7. k = Len(c)
    BY <2>3, <2>5, <2>6
  <2>8. Entry(lastIdx) = At(l)
    BY <2>4, EntryAt DEF Indexes
  <2>9. data[Loc(n)] = "in" /\ n \in Range(c)
    BY <1>1, <2>4, <2>5, <2>8 DEF Served
  <2>10. n \in Busy /\ Busy \subseteq Descs /\ n \in Held /\ n \in Descs
    <3>1. At(l) \in Descs
      BY <1>1, <2>4, <2>5, Entries DEF IInv
    <3> QED
      BY <1>1, <2>9, <3>1, Heads DEF IInv, Held
  <2>11. /\ data'[Loc(n)'] = data[Loc(n)]
         /\ ~ ring'[m].across
         /\ \A i \in Descs \ {m} : ring'[i] = ring[i]
    BY <1>1, <2>2, <2>5, <2>10, CopiedBack DEF IInv
  <2>12. ~ ring'[n].across
    <3>1. PICK j \in DOMAIN c : n = c[j]
      BY <2>9 DEF Range
    <3>2. j \in 1 .. k - 1 \/ j = k
      BY <2>5, <2>7
    <3> QED
      BY <2>6, <2>10, <2>11, <3>1, <3>2
  <2>13. Loc(n)' = buf[n]
    BY <2>2, <2>12 DEF Loc
  <2> QED
    BY <2>9, <2>11, <2>13
<1>2. IInv /\ [Next]_vars => [lastIdx' # lastIdx =>
        \A n \in Range(chain[Entry(lastIdx)]) : dir[n] = "in" => data'[buf[n]] = "in"]_vars
  BY <1>1
<1> QED
  BY <1>2, Invariance, PTL DEF Spec, HandsOver
=============================================================================
