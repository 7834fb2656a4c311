# TLA+ models and proofs of mvmm

mvmm is a small type-1 hypervisor for AArch64 (QEMU's `virt` machine). It boots on CPU 0, builds
one virtual machine, gives each vCPU a physical CPU of its own, and from then on runs only when
the guest traps: on an interrupt, on an access to a trapped page, on a trapped instruction, or on
a PSCI call. There is no scheduler and no task of the hypervisor's own. What makes it hard to get
right is that its handlers run on all CPUs at once, over shared structures, beside a guest that
does not stop, and in front of hardware (GIC, TLBs, exclusive monitors, a virtio device) with a
state of its own.

This directory holds TLA+ modules of those parts, TLC configurations that check them on small
instances, and TLAPS proofs of the properties that matter most for every instance. `PROJECT.json`
ties each definition to the lines that it models and lists the runs, the hazards and the theorems.

To run: `tlc -config MCX.cfg MCX` for a model, `tlapm XProofs.tla` for the proofs.

## 1. Inventory

Paths are relative to the repository: `src/` is the hypervisor, `include/` its headers.

| component | state | operations | talks to |
|---|---|---|---|
| spinlock (`spinlock.c`, `spinlock.h`) | `lk->lock`, `lk->cpuid` | `acquire`, `release`, debug checks | everything that is shared |
| page allocator (`kalloc.c`) | `pmem.freelist`, threaded through the free pages | `kalloc`, `kfree`, `kalloc_init` | page tables, vgic, virtio bounce pages |
| stage-2 tables (`mm.c`) | four levels of tables in pages of `kalloc` | `pagewalk`, `pagemap`, `pageunmap`, `ipa2pa`, copies to and from the guest | allocator, the CPU's table walk, virtio |
| page trapping and MMIO (`vm.c`, `mmio.c`) | `vm->pmap`, `mmio_infos` | `pagetrap`, `mmio_reg_handler`, `mmio_emulate` | page tables, TLBs, data aborts |
| virtual interrupts (`trap.c`, `vgic.c`, `gic.c`) | list registers, `vgic_cpu->used_lr`, the state of the GIC | `vm_irq_handler`, `vgic_irq_enter`, `vgic_inject_virq`, `vgic_emulate_sgi1r` | GIC, guest |
| vgic registers (`vgic.c`, `gic.c`) | `vgic_irq` of SGIs, PPIs, SPIs, the last in one page of `kalloc`; the GIC's own registers | `vgicd_mmio_*`, `vgicr_mmio_*`, `gic_irq_enable`, `gic_set_target` ... | MMIO dispatch, GIC |
| vCPU life, PSCI, traps (`vcpu.c`, `vpsci.c`, `init.c`, `vector.S`, `trap.c`, `vsysreg.c`) | `vcpu->state`, `vcpu->reg`, which CPU is on | `new_vcpu`, `vcpu_ready`, `enter_vcpu`, `vpsci_emulate`, `vm_sync_handler`, save and restore | firmware, guest |
| virtio-mmio device (`virtio-mmio-dev.c`) | `vtdev.ring`, the host copy of the queue, bounce pages | `virtq_read/write`, `virtio_mmio_write`, `virtio_dev_intr` | allocator, copies, device, driver |
| VM creation (`vm.c`) | `vms` | `create_vm` | all of the above, once, on CPU 0 |
| per-CPU data, timer, console, printing, PCI, guest images | no state that another part depends on, or never run | | |

What is hard here, and which property answers to it:

- **Locks on a weakly ordered machine.** `acquire()` is an `ldaxr/stxr` loop, `release()` two
  plain stores. Is there one holder, do the debug checks ever fire on correct callers, does the
  next holder see what the last one wrote, does somebody get in? (`MutualExclusion`,
  `NeverPanics`, `SeesEarlierUpdates`, `Progress`)
- **A free list inside the pages** that their owners write to. (`FreeListExact`, `HandedOutOnce`)
- **Book-keeping that lags behind the hardware.** `used_lr` is brought up to date only on the
  next interrupt, while the guest acknowledges and ends interrupts without a trap; a physical
  interrupt stays active until the guest's own end of interrupt deactivates it through the list
  register. Interrupts race with each other for CPUs, and may be withdrawn between the trap and
  the read of `ICC_IAR1`. (`InFlightUsed`, `ActiveCarried`, `PanicOnlyWhenFull`, `Forwarded`)
- **Handlers without locks** that read, change and write a register of the GIC which holds bits or
  bytes of several interrupts. (`EnablesKept`, `OnlyWanted`, `BytesKept`)
- **Places that do not fit together**: an array of SPIs in one page, and a handler whose interrupt
  numbers are 1024 too high. (`StaysInSpis`, `Disables`)
- **CPU_ON** writes another vCPU's saved program counter and state, while that one comes up or other
  CPUs ask for theirs.
  (`NeverUninitialized`, `ResumesWhereTrapped`, `StartsWhereAsked`, `GrantedRuns`)
- **Tables that change under a running guest**: a page is freed, then its entry is cleared, then
  a handler is registered in a list that others walk, then one TLB is flushed. (`NoFreedPage`,
  `NoUnexpectedAbort`, `WritesServedAsWrites`, `Isolated`, `WalksTables`)
- **A ring shared by three parties**: the driver traps on each field, the device works on the
  host's copy, the interrupt handler copies bounce pages back while the device goes on, and three
  indexes run after each other and wrap.
  (`NoLeak`, `DeviceReadsGuestData`, `HandsOver`, `HandedBack`)

`PROJECT.json` lists each hazard at its line, also those that no property covers yet, with the
reason.

## 2. Modules

| component module | abstract specification | model for TLC | proofs |
|---|---|---|---|
| `Spinlock` | `Mutex` | `MCSpinlock` (+`Weak`) | `SpinlockProofs` |
| `Kalloc` (uses `Mutex`) | `PagePool` | `MCKalloc` (+`Oom`) | `KallocProofs` |
| `Stage2` | `AddressSpace` | `MCStage2` | `Stage2Proofs` |
| `PageTrap` | | `MCPageTrap` | `PageTrapProofs` |
| `VgicIrq` | `VirtIrq` | `MCVgicIrq` (+`Live`) | `VgicIrqProofs` |
| `VgicDist` (on `VgicBanks`) | | `MCVgicDist` (+`Clear`), with `VgicRegs` | `VgicRegsProofs` |
| `VgicBytes` (on `VgicBanks`) | | the same | the same |
| `VgicRegs`, the two together | `VgicDist`, `VgicBytes` | the same | the same |
| `VcpuBoot` | | `MCVcpuBoot` | `VcpuBootProofs` |
| `Virtqueue` | | `MCVirtqueue` | `VirtqueueProofs` |

**Spinlock.** One action per instruction that touches shared memory. Plain stores wait in a
buffer per CPU (`sb`) and `Drain` makes them visible; loads see the CPU's own pending store first
(`Read`). `ldaxr` sets the CPU's `monitor`; a write to the lock clears all of them, and one may be
lost at any time. `data` is one word that the lock protects, standing for `pmem.freelist`. The
lock code has no store-release, so the constant `InOrder` tells the two machines apart: with `TRUE`
the store that frees the lock drains after the CPU's other stores (what an `stlr` would give, or a
host that keeps stores in order, such as QEMU's emulation on x86), with `FALSE` in any order, which
the Arm architecture allows.

**Kalloc** is built on `Mutex`, the abstract lock which `Spinlock` is shown to implement: taking
and dropping it are the actions of that module. `word[p]` is the first word of page `p`: the
`next` of the list while the page is free, whatever the owner writes otherwise. The `memset`s of
`kalloc()` and `kfree()` stand where the code has them, outside the lock. `where` is a history
variable: who has the page.

**Stage2.** `pagewalk()` takes one table entry per step. `create_vm()` runs first, on one CPU
(`NewTable`, `MapNext`, `WalkAlloc`, `MapPage`); after `Booted` each CPU may unmap a region
(`Trap`, then `FreePage` and `ClearPte` for each page) or copy to or from the guest (`StartCopy`,
`CopyPage`), and others take pages from and return pages to the allocator (`Take`, `Give`), which
may be those just unmapped. `kalloc()` and `kfree()` are one step each here (see `Kalloc`); so is
the list, kept as a sequence. `Leaf(v)` is what the hardware's walk finds; the refinement mapping to
`AddressSpace` is `Leaves`, the function of it.

**PageTrap** is the same `pagetrap()` from the guest's side, with one table entry per page: TLBs
that fill and evict at any time, on every CPU and for every page that stage 2 maps (`Fill`, `Evict`),
aborts that look up their handler node by node in `vm->pmap` without a lock (`LookupNext`, `LookupHit`),
and the registration. There `Register` claims a node, links and publishes it, and the stores of its
fields follow in any order (`StoreBase` ... `StoreWrite`), as plain stores may. That the link is seen
before the head of the list is one step here; it rests on `release(&mi_lock)` keeping the order of the stores
before it, which is `Spinlock` with `InOrder`. `NoFreedPage` says what the code gives: when `pagetrap()` returns,
the CPU that called it has no way to the freed pages left, and no CPU gets a new one. An entry that another CPU
had cached before stays, as `tlb_flush()` is of one CPU; nothing is claimed of it, nor of the time between
`kfree()` and the flush.

**VgicIrq.** The GIC (`gic[i]`: inactive, pending, active, active and pending), the list registers
of each CPU, `used_lr`. The handler runs with interrupts masked and touches only its own CPU's
registers except for the read of `ICC_IAR1`, hence two steps: `Trap` (up to that read) and
`Forward` (from it on, with `gic_guest_eoi`, `vgic_cpu_alloc_lr` and the write of the register).
If another CPU has taken the interrupt, or the device has withdrawn its level, the read gives 1023,
which is injected like any other: `ForwardSpurious`. The guest's acknowledge and end of interrupt
act on the list register and, by its HW bit, on the GIC. The abstract `VirtIrq` has a line per interrupt
that is pending, given, taken and finished; the device may withdraw a level that has not been given.

**VgicBanks, VgicDist, VgicBytes, VgicRegs** are the registers of the GIC that the guest sees.
`VgicBanks` says which interrupts a VM has (`GICD_TYPER` of the machine and as the guest reads it) and
where `vgic_get_irq()` keeps them: the PPIs in the bank of each vCPU, the SPIs in the bank `Dist`, which
is one page. In `VgicDist` the driver of a CPU writes to that CPU's redistributor frame (`WriteRdist`) and to
the distributor (`WriteDist`); how it finds its frame is not modelled. A write of `ISENABLER` or `ICENABLER` becomes a loop over the bits: `Mark` sets or clears
the vgic's flag, `ReadHw` and `WriteHw` are the two halves of `gic_irq_enable()`,
`gic_irq_enable_redist()` and `gic_irq_disable()`. `Intid` has the code's arithmetic: the handler of
`GICD_ICENABLER` subtracts the base of `GICD_ISENABLER`, so its interrupts are 1024 too high, and its
GIC register is `ISPENDR`. In `VgicBytes` a write of `GICD_IPRIORITYR`, `GICR_IPRIORITYR` or
`GICD_ITARGETSR` becomes a loop over the four bytes: `Store` is the assignment to the `vgic_irq`, `Call`
the read of `irq->target` for `vgic_set_target()` (another CPU may have changed it), `ReadWord` and
`WriteWord` the two halves of `gic_set_target()`. The history `may` has the values that a byte may
have: what the last write that had its word for itself has left, and what has been written since.
`VgicRegs` puts the two together: a CPU is in one handler at a time.

**VcpuBoot.** Every access to `vcpu->state` and `vcpu->reg.elr` is a step. `CreateVcpu` and
`Created` are `create_vm()`; `BootSecondary`, `EnterVcpu`, `SwitchVcpu`, `TrapRet` the way of a CPU
into the guest; `SetElr`, `VcpuReady`, `PsciCall` are `vpsci_cpu_on()`. All kinds of trap are
there: `Irq` resumes at the interrupted instruction, `SyncTrap` at the one after it, which the
handler reaches in a second step (`Emulated`), `Hvc` at the one after it by the architecture; what
the handlers do not know ends in a panic. (The branches for WFI/WFE and the ID registers are
modelled although `hcr_setup()` sets neither TWI/TWE nor TID3, so that they do not trap now.) In a
trap, `pc[c]` is a history variable: where the guest has to go on, which `elr` is compared with.

**Virtqueue.** A request takes any number of free descriptors (`Request`). A descriptor is written in three
or four traps (`SetAddr`, `SetLen`, `SetFlags`, `SetNext`), in any order but for the address before the length,
or cleared (`ClearAddr`); `Bounce` is the branch for a buffer that crosses a page. The device's `Serve` and the driver's `See` are external; `IntrStart`,
`IntrNext` and `IntrDesc` are `virtio_dev_intr()`, after which interrupt 48 is active at the guest until it ends it
(`Eoi`), and the handler does not run again before. The used ring has `Num` entries and three indexes
modulo `IdxMod` (2^16 in the code): the device's, mvmm's and the driver's. The contents of a buffer are
one value that tells whose data it is.

## 3. Runs

All numbers are distinct states; the longest runs take two to three minutes with two workers.

| run | shows | bounds | states |
|---|---|---|---|
| `spinlock` | one holder, no false panic, no lost update, `Mutex` is implemented, someone gets in | 3 CPUs, counter modulo 3 | 7620 |
| `spinlock_weak` | **violation**: stores in any order let a late `lk->cpuid = -1` make the next `release()` panic | 3 CPUs | |
| `kalloc` | the list is exactly the free pages, a page is handed out once, `PagePool` is implemented | 3 CPUs, 3 pages, symmetry | 12360 |
| `kalloc_oom` | **violation**: `kalloc()` that finds no page keeps the lock | 3 CPUs, 2 pages | |
| `vgic_irq` | nothing in flight is overwritten, nothing active is lost, "no lr" is honest | 2 CPUs, 2 registers each; 2 PPIs, a shared SPI, an SGI; 2 levels | 1316304 |
| `vgic_irq_live` | enough registers: no "no lr", `VirtIrq` is implemented, every interrupt is taken | same, fixed routing, no withdrawn level | 89401 |
| `vgic_dist` | no enable is lost, none appears; nothing outside the page of SPIs is marked; each byte is one that was written | 2 CPUs, `Lines` = 10, a PPI, two SPIs in a word and the last but one of all, which is also disabled; 2 byte values; `OneKind` | 644167 |
| `vgic_dist_clear` | **violation**: `ICENABLER` does not disable | 1 CPU, 2 SPIs | |
| `vcpu_boot` | vCPUs are ready when entered, start and resume at the right place, granted CPU_ONs run | 4 vCPUs on 3 CPUs, 2 program counters | 147992 |
| `page_trap` | after `pagetrap()` its CPU reaches no freed page and none is cached anew, lookups find their handler, traps come back | 2 CPUs, 2 queues of 2 pages, 3 nodes, TLBs of one entry | 347375 |
| `stage2` | no page of mvmm's is mapped, walks stay in tables, `AddressSpace` is implemented | 2 CPUs, tables of 2 entries, 16 pages of memory, 2 trapped regions, a copy | 28672 |
| `virtqueue` | no bounce page is lost, the device reads what the driver wrote, every buffer is copied back before its request is passed on, every used entry is handled | 2 descriptors, indexes modulo 4, 3 buffers (2 across), 2 bounce pages | 559312 |

Why these bounds. Three CPUs give the lock a holder, its predecessor with late stores, and a
contender. Three pages give the list a head, a middle and an end, and each of three CPUs one to
be halfway with. Two CPUs are enough for the races of `PageTrap`, `Stage2`, `VgicIrq` and
`VgicDist`, each of which is between one handler and one other actor; four interrupts fill two list
registers and leave one more, so that registers are reused while others are in flight, and "no lr"
is reached. Three CPUs in `VcpuBoot` let two CPU_ONs by different callers, a boot and a trap overlap,
the fourth vCPU has no CPU (the firmware refuses it) and a fifth number is no vCPU. In `Stage2` the
queue that is trapped lies in two tables at three of the levels, one region is not mapped at all
(as the vGIC's and virtio's registers are not), and the copy crosses a page. In `Virtqueue` two
descriptors make one chain or two requests at once, with more buffers than descriptors so that
descriptors are used again with a different kind of buffer, and the indexes wrap after two rounds of
the ring; longer chains are left to the proofs, which have them of any length (a third descriptor is past what
TLC does in minutes). A TLB of one entry lets each CPU hold any page, freed or not, at any time: no
step depends on two entries. In `vgic_dist` 33 and 34 share a word of enables and one of bytes, and 350 disabled is, 1024 further on,
near the end of the page. Its constraint `OneKind` leaves out the interleavings of handlers of different
kinds (enables, priorities, targets): they share no variable, and `RegsRefine` proves that
each kind behaves in company as it does alone.

The number of program counters, the moduli of the counter in `Spinlock` and of the indexes in
`Virtqueue`, `NumInfo`, `TlbSize` and `NumLr` are the only bounds on numbers; nothing else counts. `Spinlock` and
`VgicIrq` are not checked for `TypeOK`, which is proved. `CHECK_DEADLOCK FALSE` stands where the program
may stop: `kalloc` (a CPU spins on a lock that was never released), `vgic_irq` ("no lr") and
`vcpu_boot` (a trap that is not known) panic.

### Fairness

- `Spinlock`: weak fairness of each CPU's next instruction and of each drain, and strong fairness
  of "some `stxr` succeeds": the Arm architecture promises progress to a constrained exclusive
  loop, not to one CPU. Nothing makes a CPU call `acquire()`.
- `VgicIrq`: weak fairness of `Trap` and `Handle`. `HCR_EL2.IMO` routes physical interrupts to EL2
  whatever the guest masks, and a handler runs to its end. Nothing is asked of the guest or of
  devices; `Forwarded` is for runs in which nothing more is raised (`Quiet`).
- `VcpuBoot`: weak fairness of the hypervisor's next step on each CPU, which includes the boot of a
  CPU that the firmware has accepted. The guest may do anything or nothing.
- `PageTrap`: weak fairness of the lookup and of `pagetrap()`, which run with interrupts masked.
- `Virtqueue`: weak fairness of `virtio_dev_intr()` while the interrupt is pending and not active, and of the
  guest's end of interrupt 48 (`Eoi`): the GIC signals it again only then, so `HandedBack` needs a guest whose
  handler returns. Nothing is asked of the rest of the driver, nor of the device.

### What is assumed of the environment

Each assumption is a constant or a named `ASSUME`, so that it can be taken away.

| assumption | why it is reasonable | without it |
|---|---|---|
| `InOrder = TRUE` (Spinlock) | holds on the emulator the project runs on | run `spinlock_weak`; also lost updates of what the lock protects |
| nothing in `Kalloc`: callers may take every page, and a call that finds the list empty returns with the lock taken, as in the code | | the properties of run `kalloc` hold with it; what it leads to is run `kalloc_oom` |
| a CPU writes to its own redistributor frame (VgicDist) | drivers set the PPIs and SGIs of a CPU up on that CPU | in another frame the enable goes to the redistributor of the CPU that writes |
| `GICD_ITARGETSR` of the GIC keeps what is written (VgicBytes) | a GIC without affinity routing; with it, the register is zero and ignores writes | nothing is routed there, and the race is without effect |
| whole words are written (VgicBytes, VgicDist) | Linux's driver and the test guest | the handlers take a byte for the word's lowest and write zero to the other three |
| `Lines <= 10` (`StaysInSpis` only) | the machine of the project has 288 interrupts, `Lines` = 8 | the handler of `GICD_ICENABLER` writes past the page |
| `OncePerCpu = TRUE` (VcpuBoot) | an OS serializes CPU hotplug, and there is no CPU_OFF | a second CPU_ON moves the saved program counter of a running vCPU, `ResumesWhereTrapped` fails |
| `Quiet = TRUE` (PageTrap; `NoFreedPage` does without) | a driver sets its queue up once, and no other CPU's guest code accesses its pages during the write of `QUEUE_PFN` | an access in between finds no handler ("unexcepted dabort"); a second set-up panics with "unmapped" |
| each region trapped once, no buffer in a trapped page (Stage2) | the same driver | `pageunmap()` panics; `ipa2pa()` gives the offset in the page for an address |
| `Patient = TRUE` (Virtqueue): the driver takes an entry of the used ring after `virtio_dev_intr()` has passed it | met by a driver with one request outstanding that waits for its interrupt, not by every driver: one that has several outstanding and empties the used ring at an interrupt (xv6 with several processes, Linux) or that polls sees `used->idx` as the device writes it (`virtio-mmio-dev.c:18-35`) | the buffer is read before the bounce page is copied back, and a descriptor is used again whose `across_page` is set: `NoLeak`, `DeviceReadsGuestData` and `HandsOver` fail. The repository says nothing of what a driver may do, so this stands here and not in section 4 |
| `AddrFirst = TRUE` (Virtqueue) | the xv6 driver writes addr, len, flags, next; Linux's writes the flags first, and the address before the length | no bounce page, or one for an old address |
| the driver's queue has `NUM` descriptors (Virtqueue) | the xv6 driver's `NUM` is this one | the device and `virtio_dev_intr()` look at different entries of the used ring |
| levels not withdrawn, one target per interrupt (`vgic_irq_live` only) | edge-triggered devices | 1023 is injected and takes a list register (run `vgic_irq`, where the safety properties still hold) |

## 4. Disagreements found

Three runs are violations; `PROJECT.json` quotes the lines.

1. `release()` has no release barrier (`spinlock.h:54-55`), so its own assertion in the next
   `release()` may fail (`spinlock_weak`).
2. `kalloc()` returns `NULL` with `pmem.lock` taken (`kalloc.c:23-25`), so the assertion of
   `acquire()` fails at the next call (`kalloc_oom`).
3. `GICD_ICENABLER` is handled with the base of `GICD_ISENABLER` (`vgic.c:352`): the interrupt stays
   enabled and becomes pending instead (`vgic_dist_clear`).

Met while reading, outside what is modelled: `gic_irq_disable()` would read `ICENABLER`, which reads as
the enables, and write it back, which would disable the whole word, if (3) were mended alone;
writes of `GICD_IPRIORITYR` round the interrupt number down to a multiple of four while reads do not
(`vgic.c:258`, `368`), which shows in writes of a byte only; `GICD_CTLR` is kept but gates nothing; reads of the distributor take
`vgic->lock` and writes do not; `ridx > nvcpu` lets one redistributor frame too many through, whose
`vcpus[]` entry is NULL or past the array (`vgic.c:555`, `569`), and which a driver that reads every frame up to
the one whose `GICR_TYPER` says Last, as Linux does, reaches when the machine has more CPUs than the VM
(`init.c:67` asks for 8 vCPUs, `Makefile:18` for 2 CPUs); an `smc` of the guest (`HCR_TSC` is set) never moves past its instruction
(`trap.c:186`); `rt = 31` of an MSR or MRS indexes past `x[30]`; `SYSTEM_OFF` and `SYSTEM_RESET` fall out
of `vpsci_emulate()` without a value; `HCR_RW` is `1<<31`, an `int`, whose sign fills the upper half of
`HCR_EL2`; the test guest `hello` ends with `hvc #10`, which is a panic.

## 5. Proofs

Every theorem is for any number of CPUs, pages, interrupts, descriptors and so on, under the `ASSUME` of its
module and, where it says `ASSUME Quiet` or the like, for the environments of the table in section 3.
They all go the same way: an inductive invariant, preserved by each action, that implies the property, or the
step of the abstract specification. TLC has checked each invariant before it was proved. Every invariant,
action property and refinement of the passing runs is a theorem.

- **SpinlockProofs.** The invariant says who may have which store pending: nobody but the
  holder has one for the lock, the late store of `lk->cpuid` belongs to a CPU in `acquire()` ...
  `release()` or, only if the lock is still taken, to the one leaving; the data word plus the
  pending update is `done`. Mutual exclusion needs it because the lock is still held, in memory,
  after `release()` has returned. Theorems: `TypeCorrect`, `Exclusion` (any order of
  stores), `NoFalsePanic` and `NoLostUpdate` (with `InOrder`), `Refinement` (`Mutex`).
- **KallocProofs.** The pages that CPUs are moving are pairwise different and are not on the list;
  the head of the list is free whenever nobody is in the critical section. `ExclusiveHandOut`:
  a caller's page stays its own. That the list is complete would be an induction along the links; instead
  "on the list" is "in every set that has the head and is closed under `next`" (`Listed`), and `Reach` says
  that such a set has every free page. It is preserved because the set without the page that is unlinked,
  or with the one that is published, is again such a set. `ListComplete`, and from it `RefinesPool`.
- **VgicIrqProofs.** Registers in flight are marked used; each physical interrupt is carried
  by at most one register, is active exactly then, and SGIs and spurious entries do not count;
  which registers `vgic_irq_enter()` has given back is remembered until the injection.
  `NoneOverwritten`, `NoneLost`, `PanicJustified`, and `EnoughLrs`, which counts the interrupts in
  flight against the registers. `RefinesVirtIrq`: the line of an interrupt is read off the GIC and off the one
  register that carries it, so that acknowledging at the GIC and injecting are one `Give`. It holds
  also where registers run out: what a panic leaves active without a register is pending for good.
- **VgicRegsProofs**, in three parts. *Enables:* what a handler has read is a subset of what is in the
  register when it writes, because only `ISENABLER` is written and bits are only added; so the interleaving of
  read-change-write loses nothing. `EnableCorrect`, `NoneBesides`, for any number of CPUs; `SpisEnough`, from arithmetic alone, for `Lines <= 10`.
  *Bytes:* whatever a handler holds (the value, the target it passes, the word it has read)
  is something that the byte may be; in a write that has had its word for itself, it is exactly what
  the guest writes, for the bytes that are done and the one that is being done. The second half is
  what makes the end of such a write settle the bytes. `BytesCorrect`.
  *Together:* a step of the whole is a step of `VgicDist` or of `VgicBytes` and a
  stutter of the other, so both are implemented (`RegsRefine`); `RegsCorrect` draws the properties together.
- **VcpuBootProofs.** For any guest: a CPU that the firmware has been asked to start has a vCPU
  that is READY and stays so until it is entered (`AlwaysReady`). For a guest that asks once for
  each CPU: the CPU_ON in progress for a CPU is alone and that CPU is off, so it writes `elr` of a
  vCPU that is neither in a trap nor on its way into the guest (`ResumeCorrect`, `StartCorrect`).
- **PageTrapProofs.** The list of handlers is an array: slot `s` links to slot `s - 1`, no slot above the head
  has been used, and a node that is being filled has one CPU that fills it (`TrapInv`, `ListInv`, `FillInv`).
  From this alone `TypeCorrect`, for any guest. Also for any guest, whatever its CPUs have cached or set up twice:
  the pages whose trap has returned on a CPU have no entry, and that CPU's TLB has none of them (`ReachInv`), because
  both are so when the flush ends `pagetrap()` and entries are only ever cleared (`FreedOutOfReach`). With `Quiet`:
  a CPU in `pagetrap()` has its pages to itself and for the first time (`TakenInv`), a page without an entry is being trapped
  or is set up (`GoneInv`), one that is set up has a complete node (`ReadyInv`), and a lookup, which goes down the
  slots past nodes that are half filled, has not passed it (`LookupInv`): `LookupSucceeds`; the node that it finds
  is complete, so it has its write handler: `ServedAsWrites`.
- **Stage2Proofs.** No CPU locks the tables, so what protects a walk is their shape: a tree in
  which no page stands in two entries (`OneEntry`) and each entry of a table leads to one of the next level
  (`Levels`). Two guest pages then never share an entry of level 3, which most steps rest on. A table
  is never freed and an entry to one never overwritten, so the table that a walk has reached stays on the path of its
  page whatever the others unmap (`Walking`, `Kept`). What is unmapped is in the region of one CPU and what is copied
  in none, which `Stage2Assumption` asks of the guest; `TrapAssumption` says of a region that is not mapped
  that it lies in no table of level 3, as the addresses of the code do. `GuestIsolated`, `WalksOnTables`, `NoPanic`,
  `RefinesAddressSpace`, `TypeCorrect`.
- **VirtqueueProofs.** A descriptor holds a buffer from the write of its address until the driver takes the
  request back (`Held`). Only such a one has a bounce page, no two have a place in common (`Holding`), and
  of those that the device may still read, the address it reads is where the driver's data is (`Ready`).
  Chains have no descriptor in common and are as their `flags` and `next` say (`Chaining`), so
  `virtio_dev_intr()` goes through exactly the descriptors of the request (`Going`). The three indexes
  wrap; the invariant has three numbers that they stand for (`Rings`), of which it says what the indexes do not:
  the device is at most `Num` requests ahead of the driver. That it stays so is a pigeonhole argument: the requests in
  the ring have different heads, and none is the one being served. The module begins with what it needs of the
  remainder. `NoPageLost`, `DeviceIsServed`, `DriverIsServed` (of the step in which the handler ends a chain), `TypeCorrect`, for requests of any length and a driver with `Patient`
  and `AddrFirst`; `IdxMod` may be any multiple of `Num` that is greater.

Model-checked only: liveness (`Progress`, `Forwarded`, `GrantedRuns`, `ComesBack`, `HandedBack`), since fairness
and ENABLED are out of the prover's reach; and that the constants of the proofs are those of the code, which is
what the `ASSUME`s say and TLC evaluates for the instances.

## 6. Not modelled

- virtio over PCI and `pci.c`: never run, the call in `init.c:60` is commented out.
- UART, printing, string functions, per-CPU pointers, timer set-up, guest images: no state that
  another part depends on.
- The set-up of the GIC and of EL2 system registers: fixed sequences of register writes.
- The search of a driver for its redistributor (`GICR_TYPER`, `vgicr_mmio_read()`'s frames): it reads the
  machine's register, and past the last vCPU what it finds depends on what is at address 0 for EL2.
- A TLB entry that another CPU has of a page that is freed: what the guest does with it, and what a new owner
  of the page sees.
- The distributor registers other than enables, priorities, targets and `GICD_TYPER`: groups cannot be
  written, `GICD_CTLR` gates nothing, the rest reads as a constant and ignores writes. Writes that are
  not of whole words.
- `QUEUE_NUM`; the length of a buffer; what a driver puts in its queue pages before `QUEUE_PFN`; the
  guest's general registers; PSCI by `smc`.
- `free_vcpu()` and `pageremap()`: not called.

## 7. Plan

The modules of section 2 are done. What is left, the most important first.

1. Compositions: `PageTrap` on `Stage2` (TLB entries that come from the tables), and the interrupt of the
   device through `VgicIrq` to `virtio_dev_intr()`.
2. `Virtqueue` with lengths: a buffer longer than what is left in its page but in two host pages.
3. More environments: what a driver that empties the used ring can still rely on (`Patient = FALSE`), and a second
   CPU_ON for a vCPU that runs (`OncePerCpu = FALSE`).

New runs replace runs that they subsume, so that each run keeps asking a question of its own.
