# Models of the Wave kernel (Photon)

TLA+ models of the kernel in this repository, what TLC checks of them and what
TLAPS proves. Paths are relative to the repository, `klock.c:47` means line 47
of `src/klock/klock.c`, and so on; `PROJECT.json` maps every definition to its
lines.

The kernel is small: one CPU is started, nothing is scheduled, no interrupt
source is enabled before the end of the boot sequence. It is written for more
than that: there are locks in the page allocator, in page maps and in every slab,
`limine_reqs.c` holds a commented-out SMP request and `CPU/init.c` an `init_cpu`
that nobody calls yet. The models of the locked code therefore take "CPU" as
a parameter, and what they say about several CPUs is what the code promises to
the kernel it is meant to become.

## 1. The system

| component | source | state | operations | hard parts |
|---|---|---|---|---|
| spinlock | `klock/klock.c` | `locked`, `caller`, interrupt flag | `acquire`, `test_and_acquire`, `release` | races of CPUs, a spin that runs out, interrupts masked and unmasked |
| page allocator | `memory/pmm.c` | memory map, `bitmap`, two counters, `pmm_init_` | `pmm_init`, `pmm_alloc`, `pmm_calloc`, `pmm_free` | a byte array sized in bits, counters updated in loops, scan limits |
| heap | `memory/heap.c` | list of slabs, each with a bitmap and counters | `slab_init`, `heap_init`, `malloc`, `free`, `realloc`, `calloc` | long lives of a slab, partial failure, two kinds of pointer, locks taken and released unevenly |
| page tables | `memory/vmm.c` | four-level tables, CR3, TLB | `new_pagemap`, `get_next_level`, `virt2pte`, `virt2phys`, `map_page`, `unmap_page`, `flag_page`, `switch_to`, `vmm_init` | tables shared between maps, allocation failing half way, stale translations |
| boot | `kernel.c`, `CPU/init.c`, `limine_reqs.c` | what has been initialised | `_start` | each step's needs against the order |
| interrupts | `Interrupts/` | the IDT, register frames | `init_idt`, four stubs and handlers | lifetime of the IDT, frame layout, handlers that never return |
| ACPI, LAI host | `Drivers/ACPI/ACPI.c`, `Implementations/lai/lai.c` | XSDT | `GetTable`, `PrepareACPI`, `laihost_*` | a scan that ignores its index, `kpanic` that returns |
| HPET | `Drivers/Timers/HPET.c` | counter | `hpet_init`, `sleep` | overflow, absolute target |
| kernel arguments, strings | `KS/ARGS/args.c`, `klibc/string.c` | token table, `strtok`'s position | `parse`, `init`, string functions | static state shared by interleaved uses, table limit |
| utilities | `utils.c` | two static buffers | conversions, copies, alignment | uninitialised and out-of-range indices |
| serial port | `serial/serial.c` | UART registers | `init_serial`, `serial_print` | polling |
| graphics, windows | `Graphics/graphics.c`, `Quantum/Window/Window.c` | two frame buffers, window buffers | drawing, `swap_buffers`, `init_window` | sizes in bytes against sizes in pixels |
| GDT, kpanic, port I/O, crust_test | | | | constants, an empty function, single instructions, a test |
| fonts, images, `limine.h` | | | | data and vendored declarations |

How they interact. `pmm.c` and `vmm.c` and `heap.c` call `acquire` and `release`
around their bodies. `vmm.c` and `heap.c` get all their memory from `pmm_alloc`
and give none back. Graphics, windows and LAI call `malloc`; LAI calls back into
`GetTable`, HPET reads its table. Nothing is persisted and nothing is sent: the
failures to think about are races, exhausted memory, long sequences of legal
calls, and arithmetic at boundaries.

What makes each component correct:

* spinlock: exclusion, a flag that means something, `acquire` always returns;
* page allocator: no page with two owners, the bitmap and the count agree with
  what is handed out, only memory is handed out;
* heap: live blocks disjoint from each other and from the heap's own
  bookkeeping, blocks large enough, freed objects come back;
* page tables: `virt2phys` agrees with the last `map_page`, maps share the
  higher half, no translation outlives its entry;
* boot: every step runs after what it uses; ACPI: a scan ends and finds the n-th
  table; HPET: a sleep ends and lasts as long as asked; arguments: the token
  table holds what was given; graphics: writes stay inside buffers.

## 2. The modules

| module | what it is | checked by | proved in |
|---|---|---|---|
| `LockContract` | what a caller of the lock may rely on | as a property of `KLock`, `HeapLocked` | |
| `KLock` | `klock.c`, one action per atomic access | `MCKLock` | `PMMLockedProofs` |
| `PageContract` | what a caller of the page allocator may rely on | as a property of `PMM`, `PMMLocked` | |
| `PMM` | `pmm.c`, one action per call, with the bitmap where it lies in memory | `MCPMM` | `PMMProofs` |
| `PMMLocked` | `pmm_alloc` and `pmm_free` access by access, with `KLock` as `pmm_lock` | `MCPMMLocked` | `PMMLockedProofs` |
| `Heap` | `heap.c`, one action per call | `MCHeap` | `HeapProofs` |
| `HeapLocked` | `malloc`, `free`, `slab_init` access by access on several CPUs | `MCHeapLocked` | `HeapLockedProofs` |
| `AddressSpace` | what a caller of the page tables may rely on | as a property of `VMM` | |
| `VMM` | `vmm.c`, one action per call, `vmm_init` slot by slot and page by page | `MCVMM` | `VMMProofs` |
| `VMMLocked` | `map_page`, `flag_page`, `unmap_page` access by access on several CPUs | `MCVMMLocked` | `VMMLockedProofs` |
| `Klibc` | the functions of `string.c` and `utils.c`, as operators on a memory | through the next two | `KlibcProofs` |
| `Library` | a caller that makes any sequence of their calls | `MCLibrary` | `KlibcProofs` |
| `Args` | `parse` and `init` of `args.c`, on `Klibc`'s `strtok` and `strcmp` | `MCArgs` | `KlibcProofs` |
| `Serial`, `Interrupts`, `Acpi`, `Hpet` | the UART, exceptions and the IDT, the tables and LAI's scan, the timer | as parts of `Boot` | `BootProofs` |
| `Boot` | `_start`, composed of the four | `MCBoot` | `BootProofs` |
| `Canvas` | what drawing promises, by coordinates | as a property of `Graphics` | `BootProofs` |
| `Graphics` | `graphics.c` and `Window.c` on linear memory | `MCGraphics` | `BootProofs` |

Definitions whose comment says "Mutant" are not part of a specification. Each is
a plausible mistake in the definition next to it, and is there to show that a
property notices it. Every module with variables has a type invariant, `TypeOK`
(`LockTypeOK` in `KLock`, `LibTypeOK` in `Library`) that says what they hold. Those of the modules with a proof module are proved; all are
invariants of the configurations, to be added to the `INVARIANTS` line when a
module is changed.

### KLock

A caller goes `idle`, `spin`, `won`, `stamped`, `held`, back to `idle`; the
places are the gaps between the atomic accesses of `acquire` (klock.c:38-63) and
`test_and_acquire` (22-37). `CallAcquire` masks interrupts and starts the loop
counter `i` anywhere: line 47 declares it without a value. `Win` and `Lose` are
the two outcomes of the compare-and-exchange; `Stamp` and `Enter` the two stores
of `l->caller`. `GiveUp` is the end of the loop: `acquire` unmasks and returns
exactly as if it had won, so the caller becomes an `intruder` whose `release`
clears a flag that another CPU may have set. `gaveUp` remembers that this has
happened; from then on the lock promises nothing, and `LockContract` says so
(`broken`). The read of the flag at klock.c:40 only prints and is left out.

### PMM

Addresses are page numbers. `bitmap_size` (pmm.c:49) is the number of pages
divided by 8, but the array it sizes has a byte per page. So the memory set aside
for the bitmap holds the bytes of the first `Tracked` pages only, all others lie
in whatever pages follow, which are handed out and written by their owners. The
model keeps this: `Home(k)` is the page in which byte `k` lies, `OwnerWrites` an
owner's store that hits one, `Zero` the `memset` of `pmm_alloc(.., true)`, which
may clear bytes too. `pmm_alloc` reads up to `size - 1` bytes past its last
starting point, so `Bytes` ends there. `pmm_init` fills the bytes past the bitmap
with what was there before (`garbage`).

History variables are `holds`, the block each owner was given (one at a time),
and `inits`. The invariants speak of `inits = 1`, the kernel's single call. A
second call is not refused (`SecondInitRefused`, section 3).

Assumed of the boot loader's map, in `MapAssumption`: entries are whole pages,
do not overlap, page 0 is not usable, and the first entry with room for the
bitmap lies low enough for the bitmap's own pages to be tracked. Not modelled:
a map in which no entry has room (the code then uses an uninitialised address),
and `pmm_free` of part of a block (nothing in the repository calls `pmm_free`).

### PMMLocked

The same two functions with every read and write of shared memory as a step:
`ProbeByte`, `ProbeFits`, `ProbeNext` and `ProbeFails` are the rounds of the
scan, `MarkPage` and `ClearPage` the stores into the bitmap, `LoadCount` and
`StoreCount` the two halves of `free_pages_global--` and `++`. `KLock` is
extended by it, with its variables as `pmm_lock`, so intruders are part of the model. The counter wraps at
`Modulus`, as `uint64_t` does at 2^64; after a race it may drift anywhere.
Variables of a call are reset when it returns. The bitmap has memory of its own
here: the aliasing is `PMM`'s subject.

### Heap

`slabs` is the linked list; a slab has a base address, an object size, the two
counters and a bitmap. `pool` is the next page of the page allocator: `heap.c`
returns none, so a first fit hands pages out in order, and `PmmAlloc` is what the
heap sees of `PMM`. A pointer records its address, the length of the block
behind it, what was asked for and whether it is a block of pages (`paged`): those
are physical addresses and never compare as inside a slab.

`malloc` covers all its paths: whole pages, the first object of the first slab
that fits, and otherwise a new slab and a second try. The scan is bounded by
`obj_size` (heap.c:97). `free` lowers `obj_count` (123), which also bounds the
addresses it accepts (120), so a slab accepts fewer and fewer objects. `realloc`
takes the new block before it frees the old one; with NULL it is `malloc`, with
size 0 it is `free`. Without memory for the new block its `memcpy` writes at NULL
(heap.c:145) and the page fault handler does not return, so the model has no such
step. `calloc(a, b)` asks for what `malloc(a * b)` asks for. A slab
whose objects get no memory is based at page 0 and used, as in the code. From
then on the heap promises nothing: such a slab lies over the addresses of others,
so besides overlapping objects a `free` can reach the wrong slab and lower its
`obj_count`. All three invariants say "while every slab has memory" (`AllBacked`)
for this reason. For the counters it takes pages of four bytes, one class of one-byte
objects, at addresses 8 to 11, and a slab of three-byte objects without memory,
at 0 to 11, behind it in the list: after four frees the `obj_count` of the first is 0,
and the fifth is taken for one of an object of the second.

Left out: the contents of objects (so what the copy of `realloc` overwrites, which takes
`old_size` bytes into a block of `new_size`, and the `memset` of `calloc`), the
slab locks, which are `HeapLocked`'s subject, sizes between 4096 and 8191 (for which the scan leaves
the bitmap's page), and failure to get the single pages of a slab and its bitmap.

### HeapLocked

`malloc` acquires the lock of the first slab and no other; it releases every slab
it leaves and links a new slab in with no lock at all. `free` acquires and
releases slab by slab. `at[c]` is the next access of a CPU: `look`, `probe`,
`mark`, `load`, `store`, `return`, `leave` are the loop of `malloc` (heap.c:93-110),
`range`, `load`, `store`, `clear`, `return`, `leave` that of `free` (116-130), `tail` to
`reset` the stores of `slab_init` in their order. A slab is a record of its
fields; `base` numbers the memory of its objects, so that two CPUs that
initialise one slab give it two memories in turn. A bitmap that is not there yet
is at address 0, and reading it ends in the page fault handler (`fault`).

`Acquire` takes a free flag and goes on, or goes on without it: the spin may run out at
any time, also before the first try and while the flag is free, since its counter
starts anywhere. Two history
variables say where the promises end. `gaveUp`: an `acquire` of the first slab's
lock has returned without it. `crowded`: two calls of `malloc` were beyond the
first slab at once, where nothing excludes them. The properties are stated up to
these points and `FirstLockHolds` is `LockContract` itself, for the first slab.

A `release` and the read of the same slab's `baseaddr` (heap.c:103-104) or `next`
(108-109) after it are one step. The base changes only once `crowded`; a slab that
another CPU links just between the release and the read of `next` is not searched, the
`malloc` makes one of its own.

Left out: whole pages and memory running out (`Heap` has them), sizes of 0.

### VMM

`tables[f]` is the table in frame `f`, `top[m]` the `top_level` of the page map
`m`, and a virtual address is the four indices `virt2pte` cuts it into. `Down` is
`get_next_level` with `allocate` set, `get_next_level` without; `Descend` makes
the three descents of `map_page`, `Pml1` those of `virt2pte(.., false)`, and
`Walk` is what `virt2phys` and the processor find. `pmm_alloc` may fail at any
request, since others take pages and return them: `Supply` is how many of a
call's requests succeed, and a call that fails half way keeps the tables it has
made.

`vmm_init` is a sequence of steps, `vmm_init` itself (the guard and the top-level
table), `ShareSlot` per slot of the higher half, `MapNext` per page, and
`SwitchToKernel`; `InitMaps` stands for the pages of its three loops. A slot that
gets no table goes unnoticed (`shared` remembers it), a page that cannot be
mapped is skipped, a missing top-level table ends the function (`failed`). One
call is modelled, as `kernel.c` makes one; a second is not refused, since line 264
sets a local variable where line 194 tests the file's, as in `pmm_init`. Afterwards any
sequence of `new_pagemap`, `map_page`, `unmap_page`, `flag_page` and `switch_to`
can follow. In the repository only `vmm_init` and one `switch_to` (`CPU/init.c`)
are called so far; the others are the interface the kernel will use.

`new_pagemap` never sets the pointer it stores through. The model lets it hit any
page map, also one in use or the kernel's, or fault; a store to other memory is
not modelled. `unmap_page` of an address without tables stores through NULL and
ends in the page fault handler, which never returns (`halted`); so does
`new_pagemap` without memory, as vmm_init leaves the first page of the direct
map out (vmm.c:240).

`tlb` is what the processor has cached. `Access` fills it, `Flush` is the `invlpg`
of `unmap_page` and `flag_page`, and loading CR3 empties it (no call passes the
global bit). Entries the processor drops by itself only remove staleness and are
left out, as are the caches of upper levels: an upper entry never changes once it
is present. `remapped` collects the addresses whose present entry was changed
without an `invlpg`: by `map_page`, or through a map that is not loaded.

Calls are whole steps, as on the one processor that is started; several are
`VMMLocked`'s subject. That the direct map through which the tables are reached
stays mapped is assumed.

### VMMLocked

`map_page` takes the lock of its page map, `flag_page` and `unmap_page` take none, and
two maps reach the tables of the higher half under different locks. `at[c]` is the
next access of a CPU: `acquire`, then `read` and `make` for each of the three levels of
`get_next_level` (`Read` finds a table, `Miss` none, `Make` enters a new one over
whatever is there by then), `leaf` for the entry, `write` for the second half of
`flag_page`'s update (with -O2 the two assignments are one read and one write), `release`,
and `fault`, where a CPU stays that has written through NULL. `Acquire` is that of
`HeapLocked`: it takes a free flag, or comes back without it at any time. The maps are there from the start, with the tables of the higher
half that `vmm_init` makes; `tlb`, CR3, `vmm_init` and `new_pagemap` are in `VMM`.

`want` is what the calls have stored for an address, `known` and `knew` the addresses
they have got through to. `clashed` says where the promises end (`Clash`): two CPUs
make a table for the same slot at once, not both as `map_page` of one map, or one stores
to an entry that `flag_page` has read and not yet written. Until then, and until an
`acquire` comes back without the lock (`gaveUp`), every address has what its last call
stored (`MapsAsCalled`), and only an address that was never got through to can fault
(`FaultsOnlyUnmapped`). So two `map_page` of one map are safe in every interleaving, and
so is any overlap on a path whose tables exist; after a clash both properties fail.

### Klibc, Library, Args

A memory is a function from addresses to bytes. A function that writes returns
the memory it leaves and whether it has left it (`off`); loops are recursive
functions over the number of rounds (`Upwards`, `Downwards`), so overlapping
arguments are read as they are while they change. `strncpy` decrements `n` once
too often when its first loop runs out (string.c:54-57), and its fill then covers
all of memory: `off`. `to_string` counts digits in a byte nobody sets, which
`Garbage` enumerates and which wraps at 256; what lands outside the static arrays is
left out, as is the one value without a positive counterpart. `NumbersRight` compares
the digits where the byte happened to start at 0, and promises nothing of the others. `Library`
makes any sequence of calls, and its properties compare each with a definition
that does not mention loops: sequences between a pointer and the next NUL, their
concatenation and order, positional value, nearest multiples. A step `Answer` is
the return of a call: what the function `Leaves` in the memory.

`Args` runs `parse` and `init` one call of `strtok` at a time. The words "devbuild"
and "yes" are single characters, in front of the line as the constants they are.
A store past `tokens` ends the model (`overrun`), `strcmp` of NULL ends in the page
fault handler (`fault`).

### Serial, Interrupts, Acpi, Hpet, Boot

`Boot` is `_start` (kernel.c:39-117) as the list `Steps`, with the four as its parts:
they share no variables, and every action of `Boot` is one of theirs, or a step
whose work is modelled elsewhere and only prints. A message is one character,
which leaves through the polling writer of `Serial`; a machine is what firmware
and boot loader hand over.

* `Serial`: `Commands` are the port writes of `init_serial`. The registers at 0 and
  1 depend on the divisor latch, 2 clears the FIFOs, loopback turns the
  transmitter round. `Leftover` is the set of chips the firmware may leave, with any
  registers and any bytes in the FIFOs, and `left` remembers which it was, because two
  things depend on it: with the divisor latch open serial.c:7 writes the divisor, and
  the chip's interrupts stay as they were; and bytes in the transmitter may reach the
  wire before serial.c:12 clears it. `NothingLost` states both as its exceptions. The
  chip is external: it sends (`Drain`), receives what is
  typed until `init_serial` is over, and may garble a byte. The self test reads
  the receiver once, without waiting for the byte, so a sound port can fail it;
  `_start` then goes to `done` (this is in the model, as `faulty`). Nobody types the test
  byte during the test (`SerialAssumption`).
* `Interrupts`: `gates` are the vectors whose gate is whole. `init_idt` keeps the IDT
  in a local array, so `Overwrite` may spoil any gates once it has returned; behind
  a spoilt gate is a double fault, a reset, or code somewhere (`wild`). `Enter` and
  `Leave` are the two halves of a stub, with the stack as a sequence of register
  names. Vector 5, whose handler returns, is raised from outside, once. The
  selector of the gates is looked up in the descriptors of `gdt.c`.
* `Acpi`: `GetTable` compares three letters, ignores its index, and compares "DSDT"
  as a pointer; whether the two literals are one object is the linker's choice
  (`merged`), and the FADT may point to a DSDT or to none (`dsdt`). LAI is external: it asks for the DSDT and then for SSDTs and PSDTs
  until there is none. `kpanic` and `laihost_panic` return.
* `Hpet`: the counter ticks by itself, from whatever the firmware left in it.
  `sleep` adds the counter before it divides. Femtoseconds are scaled down; `W` is
  the width of the word.

### Canvas, Graphics

`Canvas` is a picture with coordinates. `Graphics` is one memory of pixel words: the
back buffer at 0, the window's buffer behind the pages `malloc` gave, which it
rounds down. (So it does from two pages on and for multiples of a page, which the
kernel's buffers are far above or are; for less it takes an object of a slab, heap.c:86-110,
and without memory it returns NULL, which no caller looks at. Neither is modelled.) A line of memory is `stride` words, of which `width` show. `blit`,
`draw_char` (clipped in both directions by the stride), `flush_backbuffer` (`width`
times `pitch` bytes) and `swap_buffers` (four times the words there are) are
translated as they are; `ImplementsCanvas` says what comes out of them if `Exact`:
buffers of whole pages, no portrait screen, a window and images inside a line.
`GraphicsAssumption` says of the constants that a glyph's pixels are in its box,
that strings are made of the font's characters, and that the screen, and a window
behind it, are in the memory that is modelled. The images are arrays of pixels; `images/xboxlive.h`, which `graphics.c` includes, is not
in the repository, and its loop is `draw_banana`'s.

## 3. What is checked

Runs that pass:

| run | question | instance |
|---|---|---|
| `klock` | Is the lock exclusive and its flag exact until a caller gives up, does `l->caller` name the holder, does every `acquire` return unmasked, does it keep `LockContract`? | 3 callers, spins of at most 2 |
| `pmm` | Are blocks disjoint, is the tracked bitmap exact, are tracked blocks usable memory, does the count balance, is `PageContract` kept? | 96 pages of 4 bytes, 3 owners, blocks of 1 to 4 pages |
| `pmm_locked` | With several CPUs: is no page lost or taken twice and no count update lost until an acquire gives up, and does every call return even after? | 2 CPUs, 3 pages, blocks of 1 or 2 pages |
| `heap` | Do live blocks stay apart from each other and from the bookkeeping, are objects large enough, do the counters agree while every slab has memory, what exactly leaks? | 3 pointers, 4 slabs of 3 objects, pages of 3 bytes, 13 pages |
| `heap_locked` | What does the first slab's lock protect, what goes right beyond it, who can fault, does every call come back? | 2 CPUs, slabs of 2 objects, 3 calls of `malloc`, 6 slabs |
| `vmm` | Does every page map behave as a function from addresses to entries, is the higher half the same in all maps once vmm_init found its tables, which translations can be stale? | 2 maps, tables of 2 entries, 3 addresses, 6 frames, 2 calls of `new_pagemap`, one address accessed |
| `vmm_locked` | What do the locks of the maps protect: when is a mapping lost, and who can fault? | 2 CPUs, 2 maps, tables of 2 entries, 4 targets, 2 sets of flags, 3 calls, 8 frames |
| `library` | Does every function of the library leave and return what it should, and when does it leave the memory? | 5 bytes of 3 values, lengths up to 3, words below 16 |
| `args` | Which tokens and which option result, what of the line is overwritten, when does the table overrun or NULL get read? | every line of up to 7 of 4 characters, a table of 3 |
| `boot` | What fails on which machine, does the boot end, and with all messages out? Is the port set up, are frames and structs the same, how long is a sleep? | 15 machines: three sound ones with the chips a firmware may leave (the latch open, bytes in both FIFOs, loopback on), one with a running counter, eleven with one defect |
| `graphics` | Is the picture what the calls say, and what memory is written? | 5 screens, 5 calls, glyphs of 2 by 1 pixels |

Why the bounds are enough. `klock`: with three callers one can hold, one can
lose and one can give up, and a caller can win after losing. `pmm`: the memory map
has an entry too small for the bitmap, a hole and reserved memory below the
tracked limit; bytes 12 and 13, which decide over pages 12 and 13, lie in page 7,
which is handed out; blocks can reach past the tracked pages. `pmm_locked`: a scan
can fail, fit at once, fit one page on, and reach past its last start, in every
interleaving with the other CPU's. `heap`: enough frees to bring `obj_count` to 0,
enough allocations to add two slabs after `heap_init`, too few pages for all of
them to get memory, and requests of every kind. The pointer variables are
interchangeable, so they are a symmetry set. `heap_locked`: one object of each
slab is scanned, so two calls of `malloc` fill the two slabs there are, and both
CPUs can then be adding a slab, or one be adding while the other scans or frees.
`vmm`: one address is below the higher half and two are in it, in one last-level
table; the second call of `new_pagemap` hits a map in use; a path takes three
frames, so a call can fail at each of its levels, by `Supply` and by the end of
`Frames`; the accessed address is reached through both maps. `vmm_locked`: three calls
are two that meet, in all pairs of kinds, on one path, on two paths with a common
last table or through two maps, and one after them that finds what they left; the
frames can run out when two paths are made at once. `library`: strings of
length 0 to 4 at every place, with and without a NUL, every overlap, a character
above 127 for the sign, and every pair of small words. `args`: seven characters
hold three words, which do not fit with the NULL behind them, or an option that is
set twice, or every kind of degenerate token. `boot`: the transmitter holds two
bytes, so a third is lost if nobody waits; of the chips the firmware leaves, one has
the divisor latch open and an interrupt enabled, one bytes in both FIFOs, one is in
loopback with a byte to send to itself; two tables of a kind are enough for the
scan to repeat one, the index stays at its bound; the counter can pass every
target. `graphics`: padded lines, a back buffer that is not whole pages, a portrait
screen, too little video memory; five calls are all kinds that draw and the two
that create.

Fairness. `KLock`, `PMMLocked` and `HeapLocked` assume that a CPU inside a call keeps
executing it (weak fairness of its steps, per CPU). Nothing in the code waits for
anything but the bounded spin, and no scheduler takes the CPU away. No fairness is
assumed of starting a call or, in `KLock`, of leaving the critical section:
`AcquireReturns` holds with a holder that never releases. `Boot` assumes that the
processor goes on unless it halts, that the chip sends and that the counter
counts. `PMM`, `Heap`, `VMM`, `Library` and `Graphics` have no liveness to speak of:
each call is one step; the loops of `Args` end with the line, and nothing in
`VMMLocked` waits but `acquire`, whose return is `KLock`'s property.

One run ends in a counterexample, against a statement in the repository:

| run | statement | what the code does |
|---|---|---|
| `heap_malloc_covers` | heap.c:6 `void *malloc(uint64_t size);` | a large size is rounded down to pages |

Further statements of the repository that the code does not keep are definitions
in the modules. Each fails when it is made the `INVARIANT` of the configuration
named (or `PROPERTY`, where it is a formula about steps):

| definition | configuration | statement | what the code does |
|---|---|---|---|
| `FindsFreePages` | `MCPMM` | pmm.c:98 "find a amount of pages that are free" | a run near the end of the scan contains pages that are no memory |
| `AvailableMemoryIsAvailable` | `MCPMM` | kernel.c:68 "Available Memory: " | only pages below `bitmap_size` can start a block; the rest counts as available |
| `SecondInitRefused` | `MCPMM` with `MaxInits = 2` | pmm.c:25-29, "oh no!" and return | line 89 sets a local variable; a second call frees everything |
| `SlabFailurePanics` | `MCHeap` | heap.c:61-65 "kpanic" | the test cannot see NULL, the slab is used at page 0 |
| `HigherHalfAlwaysShared` | `MCVMM` | vmm.c:217 "the higher half has to be shared amongst all address spaces" | line 222 ignores a failed allocation; two maps get different tables later |
| `InterruptsDisabled` | `MCBoot` | serial.c:7 "Disable all interrupts" | with the divisor latch left open line 7 writes the divisor, and a chip that passes its test keeps its interrupts |
| `ScanFindsNth` | `MCBoot` | lai.c:69 "Returns the (virtual) address of the n-th table that has the given signature," | `GetTable` ignores its index; LAI's loop gets the first SSDT for ever |

## 4. What is proved

The lock, in the first part of `PMMLockedProofs`, for any set of callers and any loop
bound (`SpinAssumption`): the type invariant, `MutualExclusion`, `FlagMeansHeld`, `CallerNamesHolder`, and that
`KLock` implements `LockContract`. The inductive invariant is their conjunction
with `IntrudersGaveUp`. Winning tests only the flag, so exclusion needs
`FlagMeansHeld`; the flag keeps its meaning because a caller that may clear it
without owning it exists only once `gaveUp` is set.

`PMMProofs`, for any memory map, page size, set of owners and block size
(`MapAssumption`): the type invariant, `BlocksDisjoint`, `BitmapExact`,
`BlocksAreMemory`, `FreeCountBalances`, and, for one call of `pmm_init`, that
`PMM` implements `PageContract`. The invariant adds three facts:

* `Placed`: the bitmap's own pages are below the tracked limit and not usable;
* `HeldUsable`: what is handed out below that limit is usable;
* `BlocksReachBack`: a block that reaches past the pages a scan can start from
  contains the last of these.

From the first two, no byte below the limit lies in a page that is handed out
(`TrackedBytesSafe`), so neither owners nor `memset` disturb the exact part of
the bitmap. Past the limit the bitmap may say anything. Two blocks that met there
would, by `BlocksReachBack`, also meet at a tracked page, where the bitmap is
exact (`RunIsFree`). The last theorem adds counting: every move changes the count
and the number of pages held by the same amount.

`PMMLocked`, in the rest of `PMMLockedProofs`, for any set of CPUs, any number of pages and any sizes
(`SizeAssumption` and `SpinAssumption`): the type invariant, `PagesConserved`,
`CountExact`, and that the accesses implement `PageContract`. The lock is not
proved about again: `PMMLocked` extends `KLock`, so `LockInv` is the invariant above, and
every step of `PMMLocked` is a step of `KLock` or leaves its variables alone. `ShapeOf` a call (its locals fit the place it has
reached) holds whether or not the lock does. The rest holds until an acquire gives
up: `OwnersApart` (no page is owned by, or in transit of, two CPUs), `BitsExact` (a
byte is clear exactly if its page was free at boot and is nobody's), `ScanExact` and
`RestFree` (what a scan has counted is still clear when it marks it, which is what the
lock is for) and `Counted` (the counter lags the bitmap by the byte that the one
call inside has written and not counted). `PagesConserved` follows by counting.

`HeapProofs`, for any page size, slab length, list of classes and sizes
(`HeapAssumption`): the type invariant, `ObjectsDisjoint`, `CountersAgree` and
`LeaksOnlyPastCount`. The invariant is, while every slab has memory, `HeldOnce` (no
pointer is in two variables) and `Sound`: `SlabsPlaced` (the pages of a slab, of its
bitmap and of its objects are nobody else's), `PointersPlaced` (a pointer is the
address of one object of one slab, or of pages of its own), `MarksRight` (the marked
objects are those held and those past the count) and `Counted`. The lemmas on
`malloc` and `free` are about any list of slabs and set of pointers in use, so the one
on `realloc` is their composition. That slabs have memory is monotone (`Backed`), so
nothing has to be said of what happens after one has none.

`HeapLockedProofs`, for any set of CPUs, any classes and any number of slabs
(`HeapLockedAssumption`): the type invariant with the shape of the list,
`ObjectsHeldOnce`, `FirstCountsExact`, `FaultsOnlyWhenCrowded`, and that the lock of the
first slab implements `LockContract`. The shape of the slabs holds in every
interleaving: the list only leads forward, the slabs of `heap_init` are whole. For
the first slab the argument is exclusion (`FirstAlone`) and a debt of the counters
(`Lag`, one between a mark and its count). Beyond the first slab no lock excludes
anyone, and the argument is that a `malloc` which is there alone (`~crowded`) owns the
slab it is making (`Builds`) and finds what it has seen (`FoundFree`); calls of `free`
may overlap with it, because each clears only the mark of the object it was given
(`Own`).

`VMMProofs`, for any size of tables, any maps, addresses, pages, flags and amount
of memory (`VmmAssumption`): the type invariant, `HigherHalfShared`, `TlbCoherent`, and
that `VMM` implements `AddressSpace`. The tables are a forest: a `depth` in 1 to 4 for
each frame (`Forest`) such that an entry leads one level down, and no table is
entered twice but from slots of the higher half of first-level tables
(`EnteredOnce`). So two paths that meet belong to one address, in one map or in the
shared half (`PathsApart`), and a store to a last-level entry changes one address
(`LeafStored`). A descent is followed table by table (`DownOne`, `Reached`): it changes
only entries that led nowhere, and makes tables that show nothing (`Grows`), so no
failed call shows (`NodesGrow`). What all calls have in common is `Edited`, from which
the forest, the shared slots (`EditKeepsSlots`), the cache (`EditKeepsCache`) and the
step of `AddressSpace` (`EditShows`) follow. The rest of the invariant says where
`vmm_init` is (`Loading`), which slots it has made (`SlotsMade`), what it has mapped
(`Booted`) and that no two maps have one table (`Apart`).

`VMMLockedProofs`, for any set of CPUs, maps, tables, addresses and memory
(`VmmLockedAssumption`): that the tables stay a forest, `MapsAsCalled` and
`FaultsOnlyUnmapped`. The forest stands whatever races: a clash loses a subtree
but never ties a knot, since a new table is entered once and by the CPU that made it.
Until a clash or a given-up acquire, a CPU stands on the path of its address
(`OnPath`), the slot it is about to fill is still empty (`Waiting`) and the entry it has
read is still there (`Copied`). That these survive the steps of the others uses that
an upper entry, once present, never changes, and that `Clash` is exactly the states
in which somebody else is about to fill the same slot or store to the same entry
(`ClashSeen`).

`BootProofs`, for any set of machines (`MachineAssumption`: a list of tables, a
revision, a period, a counter within its bound and a chip), any depth of the transmitter,
any registers and any bytes that the firmware may have left in the chip, and any bytes
arriving at it but the test byte (`SerialAssumption`): the type invariant and
the four invariants of the `boot` run. The parts share no variables, so each has an
invariant of its own and one case per action of `Boot`.

* `FramesExact`: while a handler runs the stack is the processor's frame and the stub's
  pushes, and otherwise it is empty (`Whole`). The struct is the stack reversed, and
  the pops undo the pushes register by register (`LeaveWhole`).
* `NothingLost`: `PortInv` follows `init_serial` write by write: what has been
  programmed so far (`Programmed`), and where the test byte and the firmware's bytes
  can be: until line 12 the latter are on the wire or wait (`Uncleared`), afterwards
  the wire holds a front part of them (`Early`). Once the port
  is ready, what is on the wire followed by what waits in the transmitter is that front
  part and what was printed, and the transmitter has room whenever the writer has seen it empty.
* `FaultsExplained`: `FaultInv` says which step LAI has reached: on a sound machine
  it is never at a stray pointer, has the XSDT before it asks for a table, and has
  returned before the timer is started, so `hpet_init` finds its table.
* `SleepWindow`, with the hypothesis that the counter's bound and the time asked for
  sum to less than a word. Without it the statement is false: the code adds before it
  divides and the sum wraps.

The last part of `BootProofs` is about `Graphics`, as the instance `Draw` with variables
of its own: for any screens, page size, font, strings, images and windows that fit
`GraphicsAssumption`, which is the hypothesis of its theorems.

* `ImplementsCanvas`: a pixel is at `Place`, `row * stride + column`, and a column below
  the stride makes rows and columns unique (`PlaceIsUnique`) and found again by division
  (`PlaceTakenApart`). So a lit word is a lit pixel (`PixelsShow`, `TextShows`), the
  rows that `blit` copies are the rectangle's (`WindowShows`), and an image's words
  are its pixels (`ImageStep`). That the screen is no higher than wide is needed where
  rows are clipped by the stride. The invariant is only that the buffers keep their
  sizes and the screen and the window are of those given (`Drawable`).
* `OnlyOwnMemory`: a row above the height ends below the size (`PlaceIsBelow`), so the
  words of a text (`LettersBelow`), of an image (`ImageOwn`) and of a window (`DrawOwn`) do.

`KlibcProofs` has two parts. The first is about `Args`, for any set of command lines
and a table of any size (`ArgsAssumption`): the type invariant, `TokensAreWords`,
`DevbuildAsSet` and `OnlyDelimitersCleared`. The words of a line are its fields, the
longest stretches without a delimiter, and a word's index is the number of fields that
begin before it (`Before`), so no definition recurs over the line. The invariant
`ArgsInv` says that

* `strtok`'s position is a `Boundary`, a place that no field lies across; one call
  finds the field that begins next after it (`Scan`), or that there is none;
* `parse` has listed all fields before that place, in order (`Table`, `Listed`), and
  has overwritten nothing but delimiters, by NULs (`LineKept`, `ClearedIn`);
* once `init` reads, a word it has not come to is as it was in the line (`Untouched`),
  one it has cut at `=` ends there (`Named`), and `devbuild` is what the last setting
  among the words it has read says (`Latest`).

The second is about `Library`, for a memory of any size, any contents and calls of any
lengths (`LibraryAssumption`): the type invariant, `CallsExact` and `ComparisonsRight`.
The invariant of the steps is small (`LibInv`: the memory and the call keep their
types); what has to be proved is what the loops leave. A loop is a function from rounds
to memories. That after `k` rounds exactly the `k` bytes are copied (`Climbed`, and `Sunk`
for the loop that goes down) is proved by looking at the first round where it is
not, which exists because rounds are well ordered. Both hold however the blocks overlap
as long as the loop does not write what it has yet to read; `memmove` picks the
direction in which it does not, and `memcpy` may only be asked when it does not
(`RunsInto`). The copy loop of the string functions stops at its first NUL
(`LastRound`, `StringCopied`), and is apart from the string it reads, so the NUL is where
it was. From there one lemma for each function gives what is to be at the
destination (`MemmoveExact`, `StrncatExact`, ...). The comparisons stop at the first place
where the bytes differ or end (`StrcmpStops`, ...), which is where the order of the two
sequences is decided (`Parted`).

Its last theorem, `NearestMultiples`, is the part of `NumbersRight` about `align_up` and
`align_down`, for words of any size: what TLC tries for all pairs below 16.

Model-checked only: liveness (`AcquireReturns`, `CallReturns`, `BootEnds`), which is
out of the prover's reach; and the part of `NumbersRight` about printed numbers. What
`to_string` and `to_hstring` print is a positional value, a fold over digits, whose
meaning for all lengths needs induction over data.

## 5. Plan

1. Done: all modules of section 2, with the proofs above.
2. The contents of objects in `Heap`, for the copy of `realloc`, and small sizes
   above 4096.
3. All safety properties of the passing runs are proved but `NumbersRight`, of which the
   alignment helpers are. For the number formats one would first bound the digits (four
   for `to_hstring`, five for 16 bits) and prove the sum term by term.

## 6. Not modelled

About 8350 of the repository's 10500 lines are two arrays of pixels, a font and
the vendored header of the boot protocol. They have no behaviour, so a map of
definitions to lines covers at most a fifth of the whole; of the remaining 2150
lines it covers about 70 percent. Of these the models leave out:

* `read_serial`, `doChecksum`, `init_cpu`, `read_msr`, `write_msr`, `crust_test`: no
  caller in the kernel's path, or a few register accesses (`enable_pat`);
* the `laihost_*` functions that forward one call (memory, ports, PCI), and
  `kpanic`, whose body is commented out: it is modelled by returning;
* port I/O, `invlpg`, `read_cr2` and `read_cr3`: single instructions, modelled by
  what they do in `Serial` and `VMM`;
* the task state segment, which is commented out in `gdt.c`;
* memory that a stray store hits: where the code writes outside its arrays
  (`to_string`, `to_hstring`, the token table, a bitmap without memory), the models
  stop or leave the store out, and their properties say when it happens.
