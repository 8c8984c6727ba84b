------------------------------ MODULE MemInit ------------------------------
(***************************************************************************)
(* How the kernel comes to know its physical memory: main.c calls          *)
(* multiboot_parse_mmap (multiboot.c), which copies the available areas of *)
(* the boot loader's memory map into memory taken from mm_reserved_alloc   *)
(* (mm.c), then mm_init, whose page_init (page.c) puts a map of struct     *)
(* page's at the beginning of every area and a buddy behind it.            *)
(*                                                                         *)
(* Everything is boot code on one processor: a step is one iteration of a  *)
(* loop, and pc names the loop.  Addresses and sizes are in units of 8     *)
(* bytes (sizeof(uintmax_t)), so the ALIGN_TO's of the code change nothing.*)
(***************************************************************************)
EXTENDS Naturals, Sequences, FiniteSets, SequencesExt

CONSTANTS
  PGSIZE,
  PageStruct,    \* sizeof(struct page)
  AreaStruct,    \* sizeof(mem_area_t)
  BuddyStructs,  \* sizes of the three allocations of buddy_area_init
  BUDDY_MAX_SIZE,
  ListStruct,    \* sizeof(list_t)
  ReservedSize,  \* size of the static array of mm_reserved_alloc
  HugePage,      \* 1 GiB, what an entry of the direct map covers
  BootInfos      \* tag lists of the boot loader, with the end of the kernel image

VARIABLES
  pc,            \* the loop being executed, or how it all ended
  tag,           \* tag looked at by multiboot.c
  i,             \* area index of the current loop
  areas_sz,      \* areas counted
  areas,         \* phys_mem
  available,     \* what mm_reserved_alloc has left
  boot           \* the boot information, constant: [tags, kernel_end]

vars == <<pc, tag, i, areas_sz, areas, available, boot>>

\* A tag is a memory map (with entries) or one multiboot_parse_mmap skips; an
\* entry is [addr, len, usable], usable for MULTIBOOT_MEMORY_AVAILABLE.
Usable(entries) ==
  FlattenSeq([k \in DOMAIN entries |-> IF entries[k].usable THEN <<entries[k]>> ELSE <<>>])
Tags == boot.tags
UsableIn(t) == IF Tags[t].mmap THEN Usable(Tags[t].entries) ELSE <<>>
Here == UsableIn(tag)

\* mm_reserved_alloc hands out zeroed memory.
NoAreaGarbage == [addr |-> 0, len |-> 0, base |-> 0, map_sz |-> 0, used |-> 0,   \* faulty
                  buddies |-> "garbage"]
NoArea == [addr |-> 0, len |-> 0, base |-> 0, map_sz |-> 0, used |-> 0, buddies |-> "zero"]

PGROUNDUP(sz) == ((sz + PGSIZE - 1) \div PGSIZE) * PGSIZE

\* direct_map_everything: both loops run once, so that one entry is filled and
\* the addresses below DirectMapEnd are mapped.
DirectMapEntries == 1 * 1
DirectMapEnd == DirectMapEntries * HugePage

\* What buddy_area_init allocates: the buddy, its tree and its free lists.
BuddyNeeds == BuddyStructs[1] + BuddyStructs[2] + BuddyStructs[3]

AreaT == [addr : Nat, len : Nat, base : Nat, map_sz : Nat, used : Nat, buddies : {"zero", "one"}]
Entry == [addr : Nat, len : Nat, usable : BOOLEAN]
BootInfo == [tags : Seq([mmap : BOOLEAN, entries : Seq(Entry)]), kernel_end : Nat]

\* A page holds many struct page's.
ASSUME SizesAssumption ==
  /\ PGSIZE \in Nat \ {0} /\ PageStruct \in Nat \ {0} /\ AreaStruct \in Nat
  /\ BuddyStructs \in [1..3 -> Nat] /\ ListStruct \in Nat
  /\ ReservedSize \in Nat /\ HugePage \in Nat
  /\ PageStruct + ListStruct <= PGSIZE
  /\ BUDDY_MAX_SIZE \in {PGSIZE * n : n \in 1..BUDDY_MAX_SIZE}

\* linker.ld places the image at physical address 0, and the boot loader loads
\* it to memory it reports as usable: the area at the beginning of memory holds
\* all of it, and the other areas begin behind it.  boot.S maps the image with
\* one page directory, so it ends below the end of the direct map.  With that,
\* what is used of an area never exceeds its length and its page map fits into
\* the rest: the panic of init_mem_map is not reached.
ASSUME MemInitAssumption ==
  \A b \in BootInfos :
    /\ b \in BootInfo
    /\ PGROUNDUP(b.kernel_end) + ListStruct <= DirectMapEnd
    /\ \A t \in DOMAIN b.tags : \A k \in DOMAIN b.tags[t].entries :
         LET e == b.tags[t].entries[k]
         IN  e.usable => IF PGROUNDUP(e.addr) = 0 THEN PGROUNDUP(b.kernel_end) <= e.len
                                                  ELSE b.kernel_end <= e.addr

\* mm_reserved_alloc: takes sz from what is left, or returns NULL.
Fits(sz) == sz <= available
mm_reserved_alloc(sz) == Fits(sz) /\ available' = available - sz

-----------------------------------------------------------------------------
Init ==
  /\ boot \in BootInfos
  /\ pc = "count"
  /\ tag = 1 /\ i = 0 /\ areas_sz = 0
  /\ areas = <<>>
  /\ available = ReservedSize

CountTagAll ==   \* faulty: counts entries of every type
  /\ pc = "count"
  /\ tag <= Len(Tags)
  /\ areas_sz' = areas_sz + Len(Tags[tag].entries)
  /\ tag' = tag + 1
  /\ UNCHANGED <<pc, i, areas, available, boot>>

\* count_mem_available, one tag; at the end of the tags the memory for the
\* areas is allocated.
CountTag ==
  /\ pc = "count"
  /\ tag <= Len(Tags)
  /\ areas_sz' = areas_sz + Len(Here)
  /\ tag' = tag + 1
  /\ UNCHANGED <<pc, i, areas, available, boot>>

AllocAreasFree ==   \* faulty: what is handed out stays available
  /\ pc = "count"
  /\ tag > Len(Tags)
  /\ areas' = [j \in 1..areas_sz |-> NoArea]
  /\ pc' = "fill"
  /\ tag' = 1
  /\ i' = 1
  /\ UNCHANGED <<areas_sz, available, boot>>

AllocAreas ==
  /\ pc = "count"
  /\ tag > Len(Tags)
  /\ \/ /\ ~Fits(areas_sz * AreaStruct)
        /\ pc' = "panic"
        /\ UNCHANGED <<tag, i, areas, available>>
     \/ /\ mm_reserved_alloc(areas_sz * AreaStruct)
        /\ areas' = [j \in 1..areas_sz |-> NoArea]
        /\ pc' = "fill"
        /\ tag' = 1
        /\ i' = 1
  /\ UNCHANGED <<areas_sz, boot>>

\* fill_area_info, one tag: its usable entries go to areas[i], areas[i+1]...
FillTag ==
  /\ pc = "fill"
  /\ tag <= Len(Tags)
  /\ areas' = [j \in DOMAIN areas |->
       IF j \in i..(i + Len(Here) - 1)
       THEN [areas[j] EXCEPT !.addr = Here[j - i + 1].addr, !.len = Here[j - i + 1].len]
       ELSE areas[j]]
  /\ i' = i + Len(Here)
  /\ tag' = tag + 1
  /\ UNCHANGED <<pc, areas_sz, available, boot>>

\* The direct map and the reserved page table are set up, page_init is entered.
MmInit ==
  /\ pc = "fill"
  /\ tag > Len(Tags)
  /\ pc' = "adjust"
  /\ i' = 1
  /\ UNCHANGED <<tag, areas_sz, areas, available, boot>>

\* A loop over the areas is done: go on with the next one.
EndLoop(loop, next) ==
  /\ pc = loop
  /\ i > areas_sz
  /\ pc' = next
  /\ i' = 1
  /\ UNCHANGED <<tag, areas_sz, areas, available, boot>>

AdjustAreaStuck ==   \* faulty: goes on to the next area only after a change
  /\ pc = "adjust"
  /\ i <= areas_sz
  /\ IF PGROUNDUP(areas[i].addr) = 0
     THEN /\ areas' = [areas EXCEPT ![i].addr = PGROUNDUP(boot.kernel_end),
                                    ![i].used = PGROUNDUP(boot.kernel_end)]
          /\ i' = i + 1
     ELSE UNCHANGED <<areas, i>>
  /\ UNCHANGED <<pc, tag, areas_sz, available, boot>>

\* page_init: the area at the beginning of physical memory holds the kernel.
\* Its addr moves behind the kernel; its len stays.
AdjustArea ==
  /\ pc = "adjust"
  /\ i <= areas_sz
  /\ areas' = IF PGROUNDUP(areas[i].addr) = 0
              THEN [areas EXCEPT ![i].addr = PGROUNDUP(boot.kernel_end),
                                 ![i].used = PGROUNDUP(boot.kernel_end)]
              ELSE areas
  /\ i' = i + 1
  /\ UNCHANGED <<pc, tag, areas_sz, available, boot>>

MapAreaNotReserved ==   \* faulty: the buddy begins where the map does
  LET npages == (areas[i].len - areas[i].used) \div PGSIZE
      alloc_sz == npages * PageStruct
  IN
  /\ pc = "map"
  /\ i <= areas_sz
  /\ areas' = [areas EXCEPT ![i].map_sz = npages,
                            ![i].base = areas[i].addr,
                            ![i].used = @ + alloc_sz]
  /\ IF npages > 0 /\ areas[i].addr + alloc_sz > DirectMapEnd
     THEN pc' = "fault" /\ i' = i
     ELSE pc' = pc /\ i' = i + 1
  /\ UNCHANGED <<tag, areas_sz, available, boot>>

\* init_mem_map: a struct page for every page, at the beginning of the area.
MapArea ==
  LET npages == (areas[i].len - areas[i].used) \div PGSIZE
      alloc_sz == npages * PageStruct
  IN
  /\ pc = "map"
  /\ i <= areas_sz
  /\ areas' = [areas EXCEPT ![i].map_sz = npages,
                            ![i].base = areas[i].addr + alloc_sz,
                            ![i].used = @ + alloc_sz]
  \* the map is zeroed through the direct map
  /\ IF npages > 0 /\ areas[i].addr + alloc_sz > DirectMapEnd
     THEN pc' = "fault" /\ i' = i
     ELSE pc' = pc /\ i' = i + 1
  /\ UNCHANGED <<tag, areas_sz, available, boot>>

\* bootstrap_page_allocator: every area that is long enough gets one buddy of
\* BUDDY_MAX_SIZE, from base on; the list of buddies of a shorter one stays
\* zeroed.  buddy_area_init links the first free block through the direct map.
BootstrapArea ==
  /\ pc = "bootstrap"
  /\ i <= areas_sz
  /\ \/ /\ areas[i].len < BUDDY_MAX_SIZE
        /\ i' = i + 1
        /\ UNCHANGED <<pc, areas, available>>
     \/ /\ areas[i].len >= BUDDY_MAX_SIZE
        /\ ~Fits(BuddyNeeds)
        /\ pc' = "panic"
        /\ UNCHANGED <<i, areas, available>>
     \/ /\ areas[i].len >= BUDDY_MAX_SIZE
        /\ mm_reserved_alloc(BuddyNeeds)
        /\ IF areas[i].base + ListStruct > DirectMapEnd
           THEN pc' = "fault" /\ UNCHANGED <<i, areas>>
           ELSE /\ areas' = [areas EXCEPT ![i].buddies = "one"]
                /\ i' = i + 1
                /\ UNCHANGED pc
  /\ UNCHANGED <<tag, areas_sz, boot>>

Step ==
  \/ CountTag \/ AllocAreas \/ FillTag \/ MmInit
  \/ AdjustArea \/ EndLoop("adjust", "map")
  \/ MapArea \/ EndLoop("map", "bootstrap")
  \/ BootstrapArea \/ EndLoop("bootstrap", "done")

\* Booting ends: in main, in panic, or with the machine reset by a page fault.
Ended == pc \in {"done", "panic", "fault"} /\ UNCHANGED vars

Spec == Init /\ [][Step \/ Ended]_vars /\ WF_vars(Step)

-----------------------------------------------------------------------------
\* phys2page: the first area that does not end before the address.
phys2page_first(a) ==   \* faulty: the first area
  [area |-> 1, index |-> (a \div PGSIZE) - (areas[1].addr \div PGSIZE)]

phys2page(a) ==
  LET from == {k \in 1..areas_sz : areas[k].addr + areas[k].len >= a}
      k == CHOOSE k \in from : \A j \in from : k <= j
  IN  [area |-> k, index |-> (a \div PGSIZE) - (areas[k].addr \div PGSIZE)]

\* The areas as the boot loader reported them, in the order of the tags.
Reported == FlattenSeq([t \in DOMAIN Tags |-> UsableIn(t)])

Extent(from, size) == from..(from + size - 1)
MapOf(k) == Extent(areas[k].addr, areas[k].map_sz * PageStruct)
BuddyOf(k) == IF areas[k].buddies = "zero" THEN {} ELSE Extent(areas[k].base, BUDDY_MAX_SIZE)
Mapped == {k \in 1..areas_sz : pc \in {"map", "bootstrap", "done"} /\ areas[k].base > 0}

\* Types of the variables.
TypeOK ==
  /\ pc \in {"count", "fill", "adjust", "map", "bootstrap", "done", "panic", "fault"}
  /\ tag \in Nat /\ i \in Nat /\ areas_sz \in Nat
  /\ available \in 0..ReservedSize
  /\ areas \in Seq(AreaT)
  /\ boot \in BootInfos

\* The counting pass and the filling pass over the tags agree: the filling pass
\* stays inside the memory allocated for what the counting pass found, and
\* leaves the usable areas there, in order and complete.
FillAgrees ==
  /\ pc = "fill" => i <= areas_sz + 1
  /\ pc = "adjust" /\ i = 1 =>
       [k \in 1..areas_sz |-> [addr |-> areas[k].addr, len |-> areas[k].len]]
         = [k \in DOMAIN Reported |-> [addr |-> Reported[k].addr, len |-> Reported[k].len]]

\* The page map of every area lies in that area, and map and buddy lie apart and
\* behind the kernel image, also in the area the kernel was loaded to.  The buddy
\* lies in the area exactly when the image, the map and the buddy together are no
\* longer than the area: bootstrap_page_allocator does not see to that, it only
\* compares the buddy with the area.
LaidOutInArea ==
  \A k \in Mapped :
    LET area == Extent(Reported[k].addr, Reported[k].len)
    IN  /\ MapOf(k) \subseteq area
        /\ MapOf(k) \cap BuddyOf(k) = {}
        /\ (MapOf(k) \cup BuddyOf(k)) \cap (0..(boot.kernel_end - 1)) = {}
        /\ BuddyOf(k) \subseteq area
             <=> (BuddyOf(k) = {} \/ areas[k].used + BUDDY_MAX_SIZE <= Reported[k].len)

\* Booting panics for want of reserved memory exactly when the areas and the
\* buddies of the long ones need more than there is, and it faults only for an
\* area that is not covered by the direct map.
EndsForAReason ==
  LET long == {k \in DOMAIN Reported : Reported[k].len >= BUDDY_MAX_SIZE}
      need == Len(Reported) * AreaStruct + Cardinality(long) * BuddyNeeds
  IN  /\ pc = "panic" => need > ReservedSize
      /\ pc = "done" => need <= ReservedSize
      /\ pc = "fault" => \E k \in DOMAIN Reported :
                           Reported[k].addr + Reported[k].len > DirectMapEnd

\* phys2page finds the struct page of every page a buddy can hand out in the
\* map of the buddy's own area, provided that the area begins at a page
\* boundary, that the buddy is inside of it (LaidOutInArea), and that no area in
\* front of it reaches up to the buddy.  The area the kernel was loaded to may
\* do so, because page_init moves its addr and not its len; for the same reason
\* its own last pages have no struct page.
PagesInMap ==
  pc = "done" => \A k \in 1..areas_sz :
    /\ areas[k].addr = Reported[k].addr /\ areas[k].addr % PGSIZE = 0
    /\ BuddyOf(k) # {}
    /\ BuddyOf(k) \subseteq Extent(Reported[k].addr, Reported[k].len)
    /\ \A j \in 1..(k - 1) : areas[j].addr + areas[j].len < areas[k].base
    => \A n \in 0..(BUDDY_MAX_SIZE \div PGSIZE - 1) :
         LET p == phys2page(areas[k].base + n * PGSIZE)
         IN  p.area = k /\ p.index < areas[k].map_sz

\* mm_init returns, or the machine is gone.
BootEnds == <>(pc \in {"done", "panic", "fault"})

=============================================================================
