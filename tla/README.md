# A verification of lunarOS

lunarOS is a small 64-bit kernel. It boots through multiboot2, switches to the higher half of the
address space, learns its physical memory from the boot loader, sets up a buddy allocator for page
frames in every memory area, maps the local APIC and stops. One processor runs it, interrupts are
never enabled (`irq_init` ends in a panic, see below), so no two pieces of kernel code interleave.
The one other actor is the processor itself, which fills and drops TLB entries whenever it likes.
What is hard is the order of calls over time: data structures threaded through the memory they
manage, one bit of a tree that stands for the state of two blocks, counters that have to agree
with lists, addresses of two kinds with one type, page tables rewritten under the code that runs
on them, and a boot that hands its results from one pass to the next.

This directory holds TLA+ models of that code, the TLC configurations that check them, and proofs
for TLAPS. Paths below are relative to `src/kernel/`.

## Inventory

| part | files | state | operations | models |
|---|---|---|---|---|
| intrusive lists | `kernel/list.c`, `include/lunaros/list.h` | `prev`/`next` in the linked memory | init, empty, pushback, remove, pop | `ListOps`, `Lists`, `ListsAbs` |
| buddy allocator | `kernel/buddy.c`, `include/lunaros/buddy.h` | free lists, bit tree, `available`, `struct page.order` | area_init, alloc with tree_walk, free | `Buddy` |
| memory areas, page maps | `kernel/page.c` | `phys_mem[]` with `addr`, `len`, `base`, `map`, `used`, `buddies` | page_init, phys2page, page_alloc, page_free | `MemInit`, `Heap` |
| boot loader's memory map | `kernel/multiboot.c` | none of its own; fills `phys_mem[]` | count, allocate, fill | `MemInit` |
| reserved memory, direct map | `kernel/mm.c` | bytes left, the 1 GiB page table | mm_reserved_alloc, direct_map_everything, mm_init | `MemInit`, `Boot` |
| virtual memory | `kernel/vmm.c`, `kernel/mmap.c` | the reserved page table and `size`, the processor's TLB | fetch_map, assign_map, mmap_physical_page/area | `Vmm`, `VmmBits` |
| slab allocator | `kernel/slab.c` | caches of object pointers | kmalloc, kfree, ksize, init_slab | `Heap` |
| bootstrap | `arch/x86_64/boot.S`, `start64.S`, `linker.ld` | page tables, TLB | the way to the higher half | `BootPaging` |
| main | `kernel/main.c` | none | order of initialisation | `Boot` |
| CPU | `kernel/cpu.c`, `arch/x86_64/cpu.c` | MTRRs, `cpu.pmax` | cpu_init | `Boot` |
| interrupts, local APIC | `kernel/irq.c`, `arch/x86_64/irq.c` | PIC, APIC registers | irq_init | `Boot` |
| console | `kernel/tty.c` | cursor, screen | putchar, newline, cls, puts | `Tty` |
| formatted output | `lib/vprintf.c`, `lib/uitoa.c`, `lib/pr.c`, `kernel/panic.c` | none | the format scanner, numbers | `Printf` |
| address scripts | `scripts/*.lua` | none | addresses to table indices and back | `VmmBits` |

How they interact. `start64.S` calls `main` on page tables it has just turned around: the image in
the higher half, and an empty reserved area that `vmm_init` takes over. `main` calls `cpu_init`,
then `multiboot_parse_mmap`, which allocates the array of areas with `mm_reserved_alloc` and fills
it, then `mm_init`: the direct map, `vmm_init` and `page_init`, which writes a map of `struct page`s
through the direct map and puts a buddy behind it. A buddy keeps its free blocks on the lists of
`list.c`, whose entries are the first bytes of the blocks themselves, again through the direct map.
The slab allocator would take its pages from the buddies. `irq_init` maps the APIC's registers with
`mmap_physical_page`, uncached, which counts only if no MTRR decides otherwise.

What makes each part correct:

* lists: the pointers spell out exactly what was pushed and not yet taken off, although the memory
  of an unlinked entry is anybody's;
* buddy: blocks lie in the area, do not overlap, are not written to by the allocator while held,
  are merged only with free memory; the area becomes whole again; loops end and stay in the tree;
* memory areas: the passes over the boot loader's tags agree; page maps and buddies lie inside
  their area and not over the kernel; a panic has its reason;
* virtual memory: stores stay in the table, no stale translation is used, a page mapped for a
  driver stays mapped, addresses and entries mean to the processor what they mean to the code;
* slab: objects in use are apart from each other and from the objects in the caches, and none is
  lost but where the code loses it;
* boot: nothing is touched before it is mapped, the higher half and the reserved area are complete
  when `main` starts, memory types come from the page tables, only a real APIC is written to;
* console and printf: the screen shows what was printed; numbers come out right in every width;
  the scanner stops at the end of its format.

`PROJECT.json` lists the hazards at their lines, with the properties that watch them.

## Modules

Every definition that stands for code is mapped to its lines in `PROJECT.json`. Definitions marked
`\* faulty` are mutations: the change a plausible bug would make to the definition that follows
them. They are used by nothing; substituting one for its original must make TLC refute the property
named with it in `PROJECT.json`, which shows that the property depends on the code being right.

**`ListOps`** — `list.c`, each function as an operator from memory to memory. Updates are in the
order of the C assignments, which matters where addresses coincide. Used by `Lists` and `Buddy`.

**`Lists`** (with `MCLists`, `ListsAbs`, `ListsProofs`) — callers pushing, removing and popping, and
`Scribble`: the owner of an unlinked entry writes to it. The history variable `lists` records what
was asked for. `ListsAbs` is the promise without pointers, and `ImplementsListsAbs` says that `list.c`
implements it, with `list_for_each` as the refinement mapping.

**`Buddy`** (with `MCBuddy`, `BuddyProofs`) — one `buddy_area_t`. Actions are `buddy_alloc` up to the
free list of its bucket (`AllocWalk`, `AllocPop`, `AllocBeyondMax`), one iteration of
`buddy_tree_walk` (`WalkFull`, `WalkSplit`, `WalkFails`), `buddy_free` up to its loop (`Free`), and
one iteration of that (`FreeMerge`, `FreeDone`). `tree`, `available` and `order` are the code's;
`mem` holds the list heads and the links in free blocks; `live` records who holds which block, and
`Grant` lets the new owner overwrite it (`Unknown`). Storing through NULL or an address that is not
mapped ends in `fault`, following a link the allocator did not write ends in `wild`.
`DM_START` is the offset of the direct map: `buddy_pushback` and `buddy_remove` add it,
`buddy_pop` does not take it off again (finding below). With `DM_START = 0` both kinds of address
coincide, and the model shows what the rest of the allocator does when a free list has a block.

**`Heap`** (with `MCHeap`, `HeapProofs`) — extends `Buddy`: the calls of its buddy are the actual allocator's,
iteration by iteration, and `job` says on whose behalf. `PageAlloc`/`PageFree` are `page_alloc` and
`page_free` with `struct page.buddy`; `InitSlab`, `AllocCache`, `AllocObjects`, `FillCache` are
`init_slab`; `Kmalloc` and `Kfree` include `cache_get` and `cache_put`. `front` is an area too short
for a buddy in front of this one, whose list of buddies is zero. `got` is how the model names what
`buddy_alloc` has returned: `Page` is the block it has added, which may well be one that was handed
out before; `page_alloc` does not look at that. `index` and `entries_sz` of a
cache are never set by the code, so they start as anything (`Garbage`). `store` is the `struct cache`
a page holds, so slabs that get the same page work on one cache. `kfree` and `ksize` look for the slab
by the page number of the object's own address (`pfn`, `vmm_virt2slab`): the pages of a buddy begin
`Skew` words into a page of the processor, where the area's map happens to end, so the objects behind
the boundary in such a page belong to another `struct page`, which has no slab. (Behind the last page
of the buddy the model has no `struct page` and takes the slab for NULL. No object gets that far: the
last page holds the first cache.) `dropped` records what `kfree` was given and put nowhere.
The module shows two
things side by side: in the kernel's own layout `init_slab` panics at once, since `vmm_virt2phys` is
given a physical address (`Mapped`), and nothing calls it yet; so `MCHeap` takes `DM_START = 0`, to
see what the rest of `slab.c` does once that is put right.

**`MemInit`** (with `MCMemInit`, `MemInitProofs`) — the path of the memory map through `multiboot.c`, `mm.c` and
`page.c`, one action per iteration of a loop. Units are 8 bytes, so `ALIGN_TO` changes nothing.
The assumption says that the first area holds all of the kernel image (`linker.ld` puts it at
physical 0, and the boot loader loads to usable memory only); that makes the panic in
`init_mem_map` unreachable. Page faults during boot end in `fault`: there is no IDT.

**`Vmm`** (with `VmmProofs`) — one page table of `VM_AREA_MAX` entries. `Load` and `Evict` are the
processor filling and dropping TLB entries whenever it likes. Addresses are page numbers. The
branch for enabled interrupts is left out, since interrupts never are.

**`VmmBits`** (with `VmmProofs`) — extends `Vmm` with what it abstracts from: the address put together from four
indices and a sign extension, and an entry as the set of its bits. `Decoded` is the processor's
side of an entry, `address2tables` and `tables2address` are the developers' scripts.

**`BootPaging`** and **`Boot`** (with `MCBoot`, `BootProofs`) — `BootPaging` is the assembly from
`_start` to the call of `main`, `Boot` adds `main` to the end of `irq_init`. `pc` names places of the
code; `entry` is every page table as a function from slots to what they lead to, `tlb` what the
processor holds. A step touches the pages the code at that place touches (`Uses`): the model
requires a translation for each of them (`Goto`), and keeps it in the TLB (`Cached`). `Fault` is the
alternative: a page that is not mapped, or an MSR that is not there. `m` is the machine: whether it
has long mode, 1 GiB pages, how many MTRRs, where its APIC is, where the boot loader has put the
boot information and which parts of physical memory are reported. `dropped` records
that the processor dropped a translation the tables no longer give. What `multiboot_parse_mmap` and
`page_init` do with memory is in `MemInit`; in `Boot` they are the addresses they need and the panic
for want of memory.

**`Tty`** and **`Printf`** (with `MCPrintf`, `PrintfProofs`) — `Tty` has the functions of `tty.c` as operators on a
screen, `Printf` one round of `vprintf`'s loop per step, with `uitoa` and the sign and width
conversions. Characters are model values where nothing depends on them. A read behind the
terminating NUL ends in `beyond`. What a call is to print is stated apart from the scanner: `ReadAs`
puts its format together from pieces (an ordinary character, `%x`, `%llx`, `%lx` with the letter that
this scanner prints once more, `%s`, `%` and any other letter) and an end that may be cut short, and
`Meaning` says what a number is, by position of its digits and not by repeated division. `MCPrintf`
has calls with the way they are read.

**`NatLemmas`** — what several proofs need of numbers: a set of numbers that is not empty has a least
element, quotients and remainders, and functions that double (`Doubles`), which powers of two are.

## Runs

All runs check deadlock, except those of `Buddy`, `Heap` and `Vmm`: there the machine may really
stop, in a panic or a crash, or when callers have everything they can hold.

| run | shows | bounds |
|---|---|---|
| `lists` | `Represents`, `PopTakesNewest`, refinement of `ListsAbs` | 2 lists, 3 entries, 3 contents of unlinked memory: enough for first, middle, last and only entries, and for entries moving between lists |
| `buddy_many` | `TreeInBounds`, `GrantsInArea`, `OrderKept`, `CallsReturn` in the kernel's address layout | 32 pages, 3 holders, requests of 1, 2, 3, 8, 16 and 33 pages (33 exceeds the area), `available` up to 130 (the area has 32; it over-counts) |
| `buddy_one` | `NoCrash`, `WholeAgain`, `WalkFinds` for one holder at a time | 128 pages, which is the kernel's size, requests of 1, 2, 3, 8, 50 and 128; `DM_START = 0`, see above. In the kernel's layout the same holds for requests of up to half the area, which are never served from a free list (set `DM_START = 300`, drop 128 from `Requests` to see it) |
| `heap` | `FaultsHaveAReason`, `Exclusive`, `OverflowOutside` | 8 pages of 8 words, beginning 5 words into a page of the processor, a tree of 4 levels and 4 slabs, of 1 to 8 words: as in the kernel there are as many slabs as levels, so the last two get the same pages; the first cache, of the smallest objects, needs more than the page it gets and the others do not; and of each page 5 words are behind the boundary. Sizes asked for: exact, between two slabs, a page. Two objects in use, uninitialised words of 0, 1 and 8: in front of, in and at the end of the caches. The configuration takes half a minute; with the kernel's 8 slabs on 8 levels (`Levels = 8`, `SlabCount = 8`, objects of 1 to 128 words in pages of 128, `Skew = 100`, fewer sizes and uninitialised words) the four properties hold as well |
| `mem_init` | `FillAgrees`, `LaidOutInArea`, `EndsForAReason`, `PagesInMap`, `BootEnds` | 2 or 3 usable areas and a reserved one, in 1 or 2 tags among others; the second area at 80, 100 and 104 (100 is no page boundary) and 16, 36, 60 or 96 long, the third adjacent, apart or beyond the direct map: too short for a buddy, just long enough for one with and without its page map, long enough for both; kernel ends of 1 and 3 pages, so that the first area may reach into the next; reserved memory for 3 areas and 2 buddies but not for 3 |
| `vmm` | `NoOverrun`, `LatestMapped`, `AddressesCountOn`, `EntriesMeanWhatWasAsked` | 4 entries, areas of 1 to 3 pages, 4 calls, 3 memory types: up to a full table and beyond. Indices of 2 bits, frames of 6 |
| `boot` | `FaultsOnlyIfDropped`, `HandsOver`, `FaultsOnlyOnOthers`, `PatDecides`, `RegistersReached`, `BootEnds` | 15 machines, each different from a complete one in one respect; images of 1 to 3 pages of 2 MiB, ending at and off a boundary; tables of 4 entries |
| `console` | `ScreenShowsText`, `Printed`, `StopsAtEnd` | formats of up to two pieces of every kind, or one and a cut-off end; six words of 7 bits with ints of 4 (zero, both signs in either width, the largest and the smallest); a screen of 2 lines of 3 with five texts on it |

Four runs end in a violation on purpose, each of a statement a comment or message of the code makes
(the findings of `PROJECT.json`):

| run | statement | what happens |
|---|---|---|
| `buddy_found` | `buddy.c:113` "found available page?" | the page found is returned by its direct-map address, `phys2page` has no page for it, the store faults |
| `buddy_merge` | `buddy.c:18` "A node in the false state means that it's either full or empty" | `buddy_free` merges a block with a sibling that was split and partly handed out; the nodes above pages that are held become false, and a later walk splits one of them as an empty one (`buddy.c:87`) and hands out the pages a second time. `buddy_free` is not even needed: a bit that is false because both halves are taken is split as well (next list, `init_slab`) |
| `vmm_first_free` | `vmm.h:48` "Fetch the first free map" | `size++` for an area of several pages: the next call maps over its second page |
| `boot_panic` | `irq.c:15` "Failed to setup interrupts" | `_irq_init` returns 0 when all has gone well, which `irq_init` takes for failure |

Because of these, what holds of `Buddy` with several holders is weaker than one would like: with
several holders blocks do come to overlap, and `NoCrash` fails. `GrantsInArea` and the bounds on the
loops hold all the same, and they are what keeps the damage in the area. `OrderKept` holds with several
holders on every area that was tried; it depends on which overlaps the walk can reach, so it is proved
for one holder only. With one holder at a time everything one would like does hold, and is proved. `Heap`
has one caller of `page_alloc` at a time for this reason, and then `init_slab`, which never frees.

Other things the properties state as they are, since they hold of the code, though its comments
or documents might suggest otherwise:

* `LaidOutInArea`: a buddy sticks out of its area when image, map and buddy together are longer than
  it. `PagesInMap`: `phys2page` finds the right `struct page` only for areas that begin at a page
  boundary; the last pages of the buddy behind the kernel image have no `struct page`; and, since
  `page_init` moves the first area's `addr` and not its `len`, pages at the beginning of the next area
  may be taken for pages of the first.
* `EndsForAReason`, `FaultsOnlyOnOthers`: the direct map is one GiB (`mm.c:29` speaks of the entire
  physical memory); an area above it faults. It needs a processor with 1 GiB pages, which
  `docs/minimal-requirements.txt` does not list and `cpu_checkfeatures` does not ask for. Ten pairs
  of MTRRs are assumed in the same way.
* `FaultsOnlyIfDropped`: `start64.S` stores through an identity map that it has already unhooked; on
  a processor that drops the translation the machine resets.
* `HandsOver`: the higher half begins at physical address 0. `docs/memory.txt:35-38` says that the
  kernel's address space is "initially mapped in 2 MiB pages with an offset of 4 MiB of raw physical
  memory", to keep clear of what the boot loader and the processor have there. `boot.S` maps page k
  of the higher half to `k << 21` (line L1), without an offset, and `linker.ld` puts the image at 0.
* `Exclusive`, sharing: `init_slab` takes two pages for each slab and the buddy finds new ones as long
  as its tree has levels: walk i ends in the leftmost node of bucket i. The last of these walks leaves
  a node that is full and looks empty, and every later one finds it again. The kernel has 8 slabs and
  an area's tree has 8 levels, one too few: with `DM_START = 0` the eighth slab gets the two pages of
  the seventh, whose objects it overwrites. So `Exclusive` says which slabs may have pages in common,
  and everything else only of the others. In the kernel's layout this does not show, since
  `init_slab` ends at the first cache (`NoCacheInKernel`).
* `Exclusive`, lookup: an object behind the page boundary in its block is lost when it is freed, since
  `kfree` finds no slab for it and returns, and `ksize` is 0 for it. An area's map ends at a page
  boundary only when its length happens to be right (`page.c:114`).
* `Exclusive`, garbage: objects stay apart only because nobody gets past the end of a cache; with an
  `entries_sz` left over that is too large, `kmalloc` returns a word nobody stored ("wild"). Where two
  slabs share a page, `kmalloc` may return a small object for a large size, whose owner writes beyond
  the page ("overrun").
* `OverflowOutside`: the first cache is longer than its page, and lands behind the last page of the
  buddy only because of the order in which pages are handed out (`CacheEndsOutside`). That is outside
  this buddy; another area may have its map there.
* `buddy_many`: `available` over-counts after merges, up to requests beyond the whole area
  (`AllocBeyondMax`).
* `StopsAtEnd`, `Printed`: a format that ends in `%` or `%ll` is read beyond its end, and `%lx` prints
  the `x` once more behind the number.
* `WriteSvr`: the store to the spurious vector register is one byte and loses the enable bit.

**Fairness.** `Buddy` assumes weak fairness of an iteration of the call in progress, `MemInit` and
`Boot` of the next step of booting: one processor, no preemption, no interrupts, no wait for a
device. Nothing is assumed of callers, who may never call again, nor of the processor's TLB, which
may never load or drop anything. `Heap`, `Vmm`, `Lists` and `Printf` assume nothing.

**Bounds in guards.** `MaxAvailable` (`Buddy`): frees stop before the over-counting `available` grows
further; requests only compare with it. `MaxMaps` (`Vmm`): calls made. `MaxObjects` (`Heap`): objects
in use at a time. The theorems do not need them to be small: they are constants like all others.

## Proofs

Each theorem holds for every value of the constants that the named assumptions allow. Every
invariant below was checked by TLC on the runs' instances before it was proved.

| theorem | says | from |
|---|---|---|
| `ListsProofs!RingsRepresentLists` | `[](TypeOK /\ Represents)` for any number of lists and entries | `OneListEach` strengthens it: an entry occurs once in all the lists, so the four stores of a push or a remove hit neighbours of one place of one ring only |
| `ListsProofs!PopReturnsNewest` | `PopTakesNewest` | `Represents`: the head's `prev` is the last element of the sequence |
| `ListsProofs!ListsImplementAbs` | `ImplementsListsAbs`: `list.c` implements sequences | `Represents`, and that walking a ring of k entries reads off k entries and then meets the head (`NatLemmas`) |
| `BuddyProofs!TreeStaysInBounds` | `[](TypeOK /\ TreeInBounds)` for an area of any number of levels, at any base, any holders and requests | node numbers of a bucket are `Shl[k]-1 .. 2*Shl[k]-2`; lemmas show that children, parents and siblings stay in their bucket and that `node2ptr` and `ptr2node` stay in the area |
| `BuddyProofs!BlocksStayInArea` | `[]GrantsInArea` when `DM_START # 0` | blocks come from `node2ptr` of a node of the right bucket |
| `BuddyProofs!OneHolderNeverCrashes`, `OneHolderLeavesWhole`, `OneHolderFinds`, `OneHolderOrderKept` | `[]NoCrash`, `[]WholeAgain`, `WalkFinds`, `[]OrderKept` for an area of any number of levels, one caller at a time, and requests that fit (`RequestsFit`) | `OneInv`, below |
| `HeapProofs!HeapUsesBuddy` | every behaviour of `Heap` is one of `Buddy` | each action of `Heap` is a step of `Buddy`'s or leaves the buddy alone; `TreeStaysInBounds`' invariant is part of `Heap`'s |
| `HeapProofs!PagesServed` | `[]FaultsHaveAReason` for an area of any number of levels but one and any number of slabs, if its counter has room for them (`Roomy`, which the kernel's 8 slabs on 128 pages satisfy), `DM_START = 0` | `PoolInv`, below |
| `HeapProofs!CacheEndsOutside` | `[]OverflowOutside` for any area and slabs if no cache but the first is longer than a page | `HeapInv`: the cache of slab i + 1 is the last page below the leftmost node of bucket i, and for i = 0 that is the last page of the buddy |
| `HeapProofs!NoCacheInKernel` | in the kernel's layout (`DM_START # 0`) no slab ever has a cache, whatever was taken and returned before `init_slab` | `PoolInv` |
| `HeapProofs!ObjectsApart` | `[]Exclusive` for any area and slabs, any sizes of objects that divide a page, any `Skew`, any uninitialised words | `HeapInv`, and `PoolInv` for the pages, below. There are objects only if `DM_START = 0` |
| `MemInitProofs!PassesAgree` | `[]FillAgrees` for any tags | `MemInv`, below |
| `MemInitProofs!BootEndsForAReason` | `[]EndsForAReason` | `MemInv`: the memory left is what the areas and the buddies so far have not taken |
| `MemInitProofs!MapsAndBuddiesApart` | `[]LaidOutInArea` | `MemInv`: `used` is the image and the map, in whole pages |
| `MemInitProofs!PagesFound` | `[]PagesInMap` | `MapsAndBuddiesApart`, and that the first area that does not end before an address is the least of a set of numbers |
| `VmmProofs!StoresStayInTable` | `[](TypeOK /\ NoOverrun)` if no area of 0 pages is asked for | the check against `VM_AREA_MAX` covers all of the area although only one entry is taken |
| `VmmProofs!LatestMappingHolds` | `[]LatestMapped` | `LatestInv`: call k starts at entry k - 1, the table holds what the latest call stored, the TLB agrees with the table |
| `VmmProofs!PageMappingsStay` | `[]MappingsStay` if all calls are for single pages | `LatestInv`, and entries k - 1 are distinct |
| `VmmProofs!AddressesLeadToEntries` | `[]AddressesCountOn` for indices and sign extensions of any width | `LatestInv`; with b = 2^IndexBits an address is b^3 q + c with c < b and q = b s + t, so its digits to base b are t, 0, 0, c |
| `VmmProofs!EntriesAreDecoded` | `[]EntriesMeanWhatWasAsked` for frames of any width | `LatestInv`, `Covered` (an entry in use was stored by a call), and that the bits of a number below 2^FrameBits add up to it (`NumberOfBits`) |
| `BootProofs!MainFindsTheMap` | `[]HandsOver` for tables of any size, any image, any machine | `BootInv`, below |
| `BootProofs!StoresNeedTheTlbOnly` | `[]FaultsOnlyIfDropped` | `BootInv` |
| `BootProofs!PageTablesDecide` | `[]PatDecides` if no machine has more than ten pairs of MTRRs | `MtrrInv`: in the loop, the default is set and the pairs below `count - 1` are clear |
| `BootProofs!MainFaultsForAReason` | `[]FaultsOnlyOnOthers` | `MainInv`: what `main` touches of its own is mapped at each of its places, so a fault in it is on boot information, on an area or on an MSR |
| `PrintfProofs!PrintfTypes` | `[]TypeOK` for every format, any arguments, words of any width, a screen of any size: the cursor stays on the screen and no argument is taken that was not passed | `PrintfInv`, below |
| `PrintfProofs!ScreenShows` | `[]ScreenShowsText` for the same | `PrintfInv`; `StepShows`: `putchar` adds to the picture of some rows what one more character adds to the rows |
| `PrintfProofs!PassesFewEnds` | `[]StopsAtEnd` for every format | `PrintfInv`: a directive that goes on behind the end has read a `%` or a `%ll` last |
| `PrintfProofs!CallsPrinted` | `[]Printed` for formats of any number of pieces, any arguments, words of any width, every caller | `SaidInv`, below; `UitoaWrites`: `uitoa`'s divisions and swaps yield the digits by position; `IntsPrinted`, `LongsPrinted`: signs and widths |
| `BootProofs!ApicAtItsAddress` | `[]RegistersReached` | `MainInv`: masking the base address to `pmax` bits loses none of it; the page mapped for the APIC is the last one stored |

`ListsTypes`, `BuddyTypes`, `VmmTypes`, `BootTypes`, `MemInitTypes` and `HeapTypes` are the type
invariants. `BootTypes` has an invariant of its own (`TypeInv`): a table of each level holds only
what that level may lead to.

`OneInv` describes the tree and the lists at every point of a call of the only caller, in closed
form: one path is split, the one along the right edge of the tree (`Path`), down to the bucket of the
block that is held, or as far as the loop in progress has got; down to there each list has one entry,
the block to the left of the path, linked to its head and back (`EdgeLists`); further down the lists
are empty. The whole area is an exception (`AreaList`): a walk splits it without taking it off
`freelist[0]`, so the head goes on pointing at it while its pages are in use, and `buddy_free` pushes it a
second time; with nobody else on that list its links still lead back to the head (`AreaFree`,
`PushAgain`). `RequestsFit` asks for requests of at most the area, and in the kernel's layout of at most half
of it: a larger one is served from `freelist[0]`, and `buddy_pop` returns no physical address.

`BootInv` says place by place what each table holds. `HandsOver` is about the state after the flush,
where the TLB agrees with the tables (`Coherent`); it needs the tables before that: which pages the
loops have mapped and cleared so far (`HigherHalf`, `ReservedArea`), which half still leads where
(`LowHalf`). `StoresNeedTheTlbOnly` needs, besides, that between the reuse of `pde` and the flush the
low addresses have no path through the tables, so that the translation cached by the last store is
the one thing the next store relies on, and an eviction of it is one the history variable records.

`MemInv` has one part for each loop: after t tags and i entries the counter, and later the array,
are those of the usable entries before that point (`Counting`, `Allocated`, `Filling`); of the areas
behind the position nothing has changed, those in front of it have been moved behind the kernel
(`Adjusting`), have their map (`Mapping`), have their buddy (`Bootstrapping`). What was reported is a
flattened sequence of sequences, so the filling needs what the flattening of the first t tags begins
and goes on with. `FlattenSeq` is a recursive function behind a `CHOOSE`; the lemmas at the head of
`MemInitProofs` show that there is such a function and what it yields.

`HeapInv`: `Exclusive` is not inductive, for four reasons. It says nothing while `init_slab` is
under way (`Phases`, `Served`: the slabs before `slab_i` are in service, the one at `slab_i` has a
cache without objects or none). It does not say which pages a slab has: these are `CachePage(s)` and
`Home(s)`, known in advance, and the same for all slabs from `Deep` on, the last level of the tree;
that the buddy hands out just these is what `PoolInv` is about. It does not say where `index` is: it
starts at garbage, so `Sound` has at least as many entries in front of it as objects are in use or
dropped (`Taken`), and `CacheAt` keeps it within the cache unless nothing was ever handed out. And it
says nothing of slabs that share pages: once a second slab has filled the cache of slab `Deep`
(`Crowded`), `CrowdAt` still keeps what its users rely on, that its entries are objects of its page
and that `kfree` finds room. `GetSound`, `PutSound`, `BeyondSound` and `FillSound` are about a cache
alone, whoever calls. `Lookup` is where the page number of an object leads: behind the boundary to the
`struct page` of the page above, which holds a cache and has no slab; before it to the last slab that
was filled with the page.

`PoolInv` says which pages the buddy hands out. Before `init_slab` there is one caller at a time, and
the buddy is what `OneInv` says of one holder; a page has an owner exactly while the caller holds it
(`PagePhase`). In `init_slab` nothing is returned any more (`InitPhase`). At a split
node a walk goes left, at any other it splits and goes right. So walk i comes down the leftmost path,
which the walks before it have split, to the leftmost node of bucket i, which none has; from there it
goes to the right through nodes that no walk has reached, takes the last page and leaves the one
before it on the list of the deepest bucket, from where the next call pops it. `BeforeWalk(i)`,
`DuringWalk(i)` and `AfterWalk(i)` say how far the leftmost path is split (`SplitLeft`), that below it,
from bucket i on, the way to the right is not (`Unsplit`), and what the list of the pages holds
((`DeepEmpty`, `DeepHas`). So slab
i + 1 gets the two last pages below the leftmost node of bucket i (`TopAt`), all below those handed out
before. Walk i needs a bucket i above the pages, so there are `Levels - 1` walks that find new pages.
The call after the last of them pops the second half of its pair and flips the node above, which is
then false as if it were empty; a further walk splits it again and hands out the same two pages, and
so does every one after that. `WalkOf(k)` is the walk whose pages slab k + 1 gets: k, or the last one.
`TypeInv`, by which `HeapTypes` is proved, needs none of this.

`PrintfInv` has two parts. `ShownInv` says that the screen is the layout of a text of characters; a
text is laid out in rows, and the lemmas relate the functions of `tty.c` to these: `NewlineShows` (the row
number goes up by one, or a full screen is gone and the next row is the first), `WriteShows` (one
cell changes, the one under the cursor), `ClsBlanks` (clearing leaves the picture of rows as long, of
spaces). `ScanInv` counts arguments: `arg` is at most the number of places in front of `pos` that take one, and
a place that takes one has not been counted when the scanner is there. That `uitoa` ends and yields
characters is a recursion on quotients, proved to exist like the others.

`SaidInv` is what `Printed` needs besides: in the loop, the position, the arguments taken and what was
printed since the call are those of one place of the call's reading (`Reached`). There are three kinds
of places: between two pieces; before the letter of a `%lx`, whose number has been printed; and behind
a last `%l`, which prints nothing. Each piece has a lemma (`PlainRead` to `LetterRead`) saying which
action the letters at `pos` enable and that it leads to the next place, each end one (`CutShort`).
`UitoaWrites` goes by the number of digits k (`Digital`): dividing twice is dividing by the product
(`DividedTwice`), so digit j of v from the right is digit j - 1 of v \div base.

Induction. The library's rules take the formula as a parameter, which the provers cannot do.
`NatLemmas!LeastNatural` takes a set instead: what fails for some number fails for a least one. It
follows from the library's facts about well-founded orders on finite sets, and is what the walk
around a ring, `FlattenSeq`, `phys2page`, `buddy_find_bkt` and `kmalloc_index` need. With it the
recursive functions of `VmmBits`, `Printf` and `Tty` are proved to exist and to have the values they should:
`Power`, where the provers know nothing of `^`, the sum in `Number`, the rows of a text, `puts`
and `uitoa`. `PrintfProofs` has a set of characters of its own (`Char`) for a like reason: the
provers know no literal as a member of `STRING`.

Assumptions on the constants are named and stand in the modules that declare them: head and entry
addresses are disjoint and there are finitely many entries (`ListsAssumption`), shifts of one are
powers of two (`ShlAssumption`: what the proofs use of them, so that they need no induction),
requests are at most twice the area (`RequestsAssumption`), the direct map and the list heads do not
overlap the area (`AddressAssumption`), the image ends within one page directory
(`BootPagingAssumption`), the table of the reserved area is no longer than an index can tell and page
numbers fit in an entry (`BitsAssumption`), the APIC's address has no more bits than the machine says
(`MachinesAssumption`), a page has room for its own `struct page` and a list entry and a buddy is of
whole pages (`SizesAssumption`), the boot loader reports the memory it has put the image into as
usable (`MemInitAssumption`), object sizes divide a page and ascend
(`HeapAssumption`), the screen has a cell
(`TtyAssumption`), an int is no longer than a word and a caller passes an argument for every place of
its format that takes one (`PrintfAssumption`; `__printf` of
`compiler.h` has the compiler look after that; the second `%` of a `%%d` counts too, but no caller prints one). Some theorems have a
hypothesis of their own: `CallsPrinted` needs that each call is put together from pieces and expects what
they mean (`Composed`), which is what `expected` is for: every format is, unless a `%l` or `%ll` stands
before a letter that is no number's, which no caller writes, and `MCCallsAreRead` has TLC check it of
the calls of `console`; those of `BuddyProofs` about one holder need `RequestsFit` and one name for
the block that is held (with two callers `NoCrash` fails, see the findings); those of `HeapProofs` need
a name for a block and, but for `HeapTypes` and `HeapUsesBuddy`, an area of at least
two pages, `Levels > 1`; `BlocksStayInArea` needs the kernel's layout, since with `DM_START = 0` a
block of a wrong size can come from a free list; those of `Vmm` need that nobody asks for an area of
no pages, for which `vmm_fetch_map` returns the entry behind a full table.

Model-checked only:

* everything under fairness: `CallsReturn`, `BootEnds`;
* `OrderKept` for several holders: it would fail if a walk split a node that is partly held, which
  the tree's bits alone do not exclude; an invariant would have to describe which overlaps can come about.

## Not modelled

* `page_alloc`'s loop over several areas that have a buddy, and `page2phys`, which nothing calls.
* `memset` and `memcpy` as loops: what they are called for is part of the actions that call them.
* The contents of the GDT and of control registers, feature bits of `cpuid` beyond whether
  each is there, `cpu.lmax`, the brand string, the debug output of `multiboot_parse_info`.
* Interrupt handlers: there are none. The IDT is never loaded, `lidt` has no caller.
* Vendored and declaration-only headers (`multiboot2.h`, `cpuid.h`, `stdint.h`, `compiler.h`), the gdb
  script, the build, the image and CI: they are no part of the running program.

## What is next

1. An abstract allocator (a set of disjoint held blocks) that `Buddy` implements for one holder.
2. `page_alloc` over several areas, which takes an array of `Buddy` states.
