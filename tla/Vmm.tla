-------------------------------- MODULE Vmm --------------------------------
(***************************************************************************)
(* kernel/kernel/vmm.c and mmap.c: mapping physical pages into the area    *)
(* reserved at boot, one page table of VM_AREA_MAX entries.                *)
(*                                                                         *)
(* Addresses are page numbers: the virtual page v of the area is the one   *)
(* translated by entry v of the table.  The processor keeps translations   *)
(* it has used in its TLB until invlpg or, of its own accord, earlier.     *)
(* Calls run to their end: irq_init (irq.c) panics in every build, so      *)
(* irq_enabled() is 0 whenever vmm_fetch_map asks for it.                  *)
(***************************************************************************)
EXTENDS Naturals, Sequences

CONSTANTS
  VM_AREA_MAX,
  Pages,       \* physical page numbers drivers ask for (and the ones after them)
  Lengths,     \* values of npages
  Types,       \* PPT_UC, PPT_WT, PPT_WB, ...
  MaxMaps,     \* bound on the calls made
  NONE         \* an entry that is not present

ASSUME VmmAssumption ==
  /\ VM_AREA_MAX \in Nat \ {0}
  /\ MaxMaps \in Nat
  /\ Pages \subseteq Nat
  /\ Lengths \subseteq Nat
  /\ NONE \notin (Nat \X {"uc", "wt", "wb"})

VARIABLES
  pt,      \* reserved.pt: what every entry maps to, or NONE
  size,    \* reserved.size
  tlb,     \* translations the processor holds, or NONE
  maps,    \* history: the mappings callers were given, in order
  pc       \* "run", "panic", or "overrun": a store behind the table

vars == <<pt, size, tlb, maps, pc>>

Entries == 0..(VM_AREA_MAX - 1)

\* The bits a memory type sets in an entry: write combining and write protect
\* are not implemented and give write back.
CachingOf(type) == CASE type = "PPT_UC" -> "uc" [] type = "PPT_WT" -> "wt"   \* faulty
                     [] type = "PPT_WC" -> "wc" [] OTHER -> "wb"
Caching(type) == CASE type = "PPT_UC" -> "uc" [] type = "PPT_WT" -> "wt" [] OTHER -> "wb"
Entry(page, type) == <<page, Caching(type)>>

-----------------------------------------------------------------------------
\* The table is pte of boot.S, zero like all of .bss and hung into the tables by
\* start64.S; vmm_init takes it over.
Init ==
  /\ pt = [v \in Entries |-> NONE]
  /\ size = 0
  /\ tlb = [v \in Entries |-> NONE]
  /\ maps = <<>>
  /\ pc = "run"

\* vmm_fetch_map: the entries from `size` on, if npages of them are left.  Only
\* one is taken, whatever npages is.
FullOffByOne(npages) == size + npages > VM_AREA_MAX + 1   \* faulty
Full(npages) == size + npages > VM_AREA_MAX

Panic(npages) ==
  /\ pc = "run"
  /\ Full(npages)
  /\ pc' = "panic"
  /\ UNCHANGED <<pt, size, tlb, maps>>

\* vmm_assign_map, for every page: store the entry (what was there is not looked
\* at) and invalidate its translation.
AssignNoInvlpg(first, n, page, type) ==   \* faulty: the TLB is left alone
  LET now == first..(first + n - 1)
  IN  /\ pt' = [v \in Entries |->
                  IF v \in now THEN Entry(page + (v - first), type) ELSE pt[v]]
      /\ UNCHANGED tlb
      /\ pc' = IF now \subseteq Entries THEN "run" ELSE "overrun"

Assign(first, n, page, type) ==
  LET now == first..(first + n - 1)
  IN  /\ pt' = [v \in Entries |->
                  IF v \in now THEN Entry(page + (v - first), type) ELSE pt[v]]
      /\ tlb' = [v \in Entries |-> IF v \in now THEN NONE ELSE tlb[v]]
      /\ pc' = IF now \subseteq Entries THEN "run" ELSE "overrun"

\* mmap_physical_page and mmap_physical_area.  The loop of the latter comes
\* after a first page that is mapped in any case, npages = 0 included.
mmap_physical_area(page, npages, type) ==
  /\ pc = "run"
  /\ Len(maps) < MaxMaps
  /\ \/ Panic(npages)
     \/ LET n == IF npages = 0 THEN 1 ELSE npages
        IN  /\ ~Full(npages)
            /\ size' = size + 1
            /\ Assign(size, n, page, type)
            /\ maps' = Append(maps, [first |-> size, n |-> n, page |-> page, type |-> type])

\* The processor walks the table for a mapped page, and drops translations.
Load(v) == /\ pc = "run"
           /\ pt[v] # NONE /\ tlb[v] = NONE
           /\ tlb' = [tlb EXCEPT ![v] = pt[v]]
           /\ UNCHANGED <<pt, size, maps, pc>>
Evict(v) == /\ pc = "run"
            /\ tlb[v] # NONE
            /\ tlb' = [tlb EXCEPT ![v] = NONE]
            /\ UNCHANGED <<pt, size, maps, pc>>

Next ==
  \/ \E page \in Pages, n \in Lengths, type \in Types : mmap_physical_area(page, n, type)
  \/ \E v \in Entries : Load(v) \/ Evict(v)

Spec == Init /\ [][Next]_vars

-----------------------------------------------------------------------------
\* What the processor uses for a virtual page: its TLB first.
Sees(v) == IF tlb[v] # NONE THEN tlb[v] ELSE pt[v]

\* Types of the variables.
TypeOK ==
  /\ pt \in [Entries -> (Nat \X {"uc", "wt", "wb"}) \cup {NONE}]
  /\ tlb \in [Entries -> (Nat \X {"uc", "wt", "wb"}) \cup {NONE}]
  /\ size \in Nat
  /\ maps \in Seq([first : Nat, n : Nat, page : Nat, type : Types])
  /\ pc \in {"run", "panic", "overrun"}

\* The processor never uses a translation that is not the one in the table: every
\* store to an entry in use is followed by an invlpg of that very page.
TlbCoherent == \A v \in Entries : tlb[v] \in {NONE, pt[v]}

\* The check against VM_AREA_MAX keeps every store inside the table.
NoOverrun == pc # "overrun"

\* A virtual page leads to the physical page and the memory type that the latest
\* call covering it asked for, whatever calls and TLB loads came in between.
PagesOf(m) == m.first..(m.first + m.n - 1)
LatestMapped ==
  \A k \in 1..Len(maps) : \A v \in PagesOf(maps[k]) :
    (\A l \in (k + 1)..Len(maps) : v \notin PagesOf(maps[l])) =>
      Sees(v) = Entry(maps[k].page + (v - maps[k].first), maps[k].type)

-----------------------------------------------------------------------------
\* vmm.h: vmm_fetch_map is to "fetch the first free map": every page a driver
\* was given keeps leading to what it asked for, whatever is mapped later.
MappingsStay ==
  \A k \in 1..Len(maps) : \A v \in PagesOf(maps[k]) :
    Sees(v) = Entry(maps[k].page + (v - maps[k].first), maps[k].type)
=============================================================================
