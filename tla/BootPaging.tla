----------------------------- MODULE BootPaging -----------------------------
(***************************************************************************)
(* arch/x86_64/boot.S and start64.S: from the 32-bit entry to the call of  *)
(* main.  Paging is turned on with the image mapped twice, at its physical *)
(* addresses and in the higher half; start64 then turns the tables of the  *)
(* first map into a reserved area, storing through that very map.          *)
(*                                                                         *)
(* A virtual address is <<p, d>>: the entry of pml4 and the next index     *)
(* that tells pages apart (of a page directory; for the direct map, of the *)
(* table under pml4).  All of the boot section, the tables and the stack   *)
(* included, lies in the first 2 MiB.  Translations of 2 MiB pages are     *)
(* cached whole; the stores of start64 that rely on a cached translation   *)
(* hit tables stored to before, so smaller pieces would do as well.        *)
(***************************************************************************)
EXTENDS Naturals, Sequences

CONSTANTS
  ENTRIES,      \* entries of a table (512)
  BIG,          \* 2 MiB
  KernelEnds,   \* values of __kernel_end, in the unit of BIG
  Machines      \* what the processor and the boot loader provide

ASSUME BootPagingAssumption ==
  /\ ENTRIES \in Nat \ {0, 1}
  /\ BIG \in Nat \ {0}
  /\ \A e \in KernelEnds : e \in Nat \ {0} /\ e \div BIG < ENTRIES

VARIABLES
  pc,           \* the instruction reached, or how the boot ended
  entry,        \* the page tables: what an entry leads to
  tlb,          \* translations the processor holds
  count,        \* %ecx, %rcx: the loop counters
  kernel_end,   \* __kernel_end
  m,            \* the machine, constant
  dropped       \* history: the processor dropped a translation the tables no longer give

pagingVars == <<entry, tlb, count, kernel_end, m, dropped>>

None == <<>>                       \* not present
Table(name) == <<name>>
Frame(n) == <<"frame", n>>         \* physical page n of 2 MiB

Slots ==
  ({"pml4"} \X {0, 256, 257, 273}) \cup ({"pdpte", "pdpte2mb"} \X {0})
  \cup ({"pde", "pde2mb"} \X (0..(ENTRIES - 1))) \cup {<<"pte", 0>>, <<"pages", 0>>, <<"pages", 1>>}

VAs == ({0, 256, 257} \X (0..(ENTRIES - 1))) \cup {<<273, 0>>, <<273, 1>>}

\* How the processor walks the tables.  An entry of the direct map's table is a
\* page of 1 GiB, a reserved bit to a processor without them.  The low half and
\* the reserved area reach pte by different entries; only entry 0 is ever set,
\* which no address of the boot section leads to.
Through(t, d) == IF t = None THEN None ELSE entry[<<t[1], d>>]
Walk(va) ==
  LET top == entry[<<"pml4", va[1]>>]
  IN  IF va[1] = 273
      THEN IF m.huge THEN Through(top, va[2]) ELSE None
      ELSE LET page == Through(Through(top, 0), va[2])
           IN  IF page = Table("pte")
               THEN IF va[1] = 257 THEN entry[<<"pte", 0>>] ELSE None
               ELSE page
Translation(va) == IF tlb[va] # None THEN tlb[va] ELSE Walk(va)

\* boot.S: the pages of 2 MiB that both maps cover.
npages == kernel_end \div BIG + 1
Image == {<<256, d>> : d \in 0..((kernel_end - 1) \div BIG)}
Low == <<0, 0>>     \* tables, GDT, 32-bit stack, by their physical addresses
Stack == <<256, 0>> \* the same stack, the video memory, the tables, in the higher half

\* What the instructions at a place fetch, read and write.  Before paging is on
\* addresses are physical.
BootUses(at) ==
  CASE at \in {"trampoline"} -> {Low}
    [] at \in {"reuse_pml4", "reuse_pdpte", "reuse_pde", "unmap", "clear"} -> Image \cup {Low}
    [] at \in {"flush", "call"} -> Image \cup {Stack}
    [] OTHER -> {}

\* Going on to another place, with the translations that takes; without one of
\* them there is a page fault, and no IDT: the machine resets.
Goto(here, uses, there) ==
  /\ pc = here
  /\ \A va \in uses : Translation(va) # None
  /\ pc' = there
Cached(uses) == [va \in VAs |-> IF va \in uses THEN Translation(va) ELSE tlb[va]]
FlushTlb == [va \in VAs |-> None]

-----------------------------------------------------------------------------
PagingInit ==
  /\ pc = "start"
  /\ entry = [s \in Slots |-> None]
  /\ tlb = [va \in VAs |-> None]
  /\ count = 0
  /\ kernel_end \in KernelEnds
  /\ m \in Machines
  /\ dropped = FALSE

\* Lines 62-67: no long mode.
Halt32 ==
  /\ pc = "start" /\ ~m.longmode
  /\ pc' = "halt"
  /\ UNCHANGED pagingVars

BootTables ==
  /\ pc = "start" /\ m.longmode
  /\ entry' = [entry EXCEPT ![<<"pml4", 0>>] = Table("pdpte"),
                            ![<<"pml4", 256>>] = Table("pdpte2mb"),
                            ![<<"pdpte", 0>>] = Table("pde"),
                            ![<<"pdpte2mb", 0>>] = Table("pde2mb")]
  /\ pc' = "map"
  /\ UNCHANGED <<tlb, count, kernel_end, m, dropped>>

\* L1: one page in both maps.
MapPage ==
  /\ pc = "map"
  /\ entry' = [entry EXCEPT ![<<"pde", count>>] = Frame(count),
                            ![<<"pde2mb", count>>] = Frame(count)]
  /\ count' = count + 1
  /\ pc' = IF count' = npages THEN "paging" ELSE "map"
  /\ UNCHANGED <<tlb, kernel_end, m, dropped>>

SetPaging ==
  /\ Goto("paging", {}, "trampoline")
  /\ UNCHANGED pagingVars

\* The parameters come off the stack, the GDT is loaded, and two jumps lead to
\* the higher half.
Trampoline ==
  /\ Goto("trampoline", BootUses("trampoline"), "reuse_pml4")
  /\ tlb' = Cached(BootUses("trampoline"))
  /\ UNCHANGED <<entry, count, kernel_end, m, dropped>>

\* One store of start64.S into a table.
Store(here, slot, value, there) ==
  /\ Goto(here, BootUses(here), there)
  /\ entry' = [entry EXCEPT ![slot] = value]
  /\ tlb' = Cached(BootUses(here))
  /\ UNCHANGED <<kernel_end, m, dropped>>

ReuseTablesNoRoot ==   \* faulty: the entry of pml4 is not stored
  /\ \/ Store("reuse_pml4", <<"pml4", 257>>, None, "reuse_pdpte")
     \/ Store("reuse_pdpte", <<"pdpte", 0>>, Table("pde"), "reuse_pde")
     \/ Store("reuse_pde", <<"pde", 0>>, Table("pte"), "unmap")
  /\ UNCHANGED count

ReuseTables ==
  /\ \/ Store("reuse_pml4", <<"pml4", 257>>, Table("pdpte"), "reuse_pdpte")
     \/ Store("reuse_pdpte", <<"pdpte", 0>>, Table("pde"), "reuse_pde")
     \/ Store("reuse_pde", <<"pde", 0>>, Table("pte"), "unmap")
  /\ UNCHANGED count

UnmapAndFlush ==   \* faulty: drops the identity map at once
  /\ Goto("unmap", BootUses("unmap"), "clear")
  /\ entry' = [entry EXCEPT ![<<"pml4", 0>>] = None]
  /\ tlb' = FlushTlb
  /\ count' = 1
  /\ UNCHANGED <<kernel_end, m, dropped>>

Unmap == Store("unmap", <<"pml4", 0>>, None, "clear") /\ count' = 1

ClearPageNoInc ==   \* faulty: %rcx stays
  /\ Store("clear", <<"pde", count>>, None, "clear")
  /\ UNCHANGED count

\* L2: the other entries of the identity map's directory.
ClearPage ==
  /\ Store("clear", <<"pde", count>>, None, IF count + 1 = ENTRIES THEN "flush" ELSE "clear")
  /\ count' = count + 1

FlushNothing ==   \* faulty: cr3 is not loaded again
  /\ Goto("flush", BootUses("flush"), "call")
  /\ tlb' = Cached(BootUses("flush"))
  /\ UNCHANGED <<entry, count, kernel_end, m, dropped>>

FlushCr3 ==
  /\ Goto("flush", BootUses("flush"), "call")
  /\ tlb' = FlushTlb
  /\ UNCHANGED <<entry, count, kernel_end, m, dropped>>

CallMain ==
  /\ Goto("call", BootUses("call"), "main")
  /\ tlb' = Cached(BootUses("call"))
  /\ UNCHANGED <<entry, count, kernel_end, m, dropped>>

\* The processor loads and drops translations whenever it likes.
Load(va) ==
  /\ tlb[va] = None /\ Walk(va) # None
  /\ tlb' = [tlb EXCEPT ![va] = Walk(va)]
  /\ UNCHANGED <<entry, count, kernel_end, m, dropped>>
Evict(va) ==
  /\ tlb[va] # None
  /\ tlb' = [tlb EXCEPT ![va] = None]
  /\ dropped' = (dropped \/ Walk(va) # tlb[va])
  /\ UNCHANGED <<entry, count, kernel_end, m>>

BootStep ==
  \/ Halt32 \/ BootTables \/ MapPage \/ SetPaging \/ Trampoline
  \/ ReuseTables \/ Unmap \/ ClearPage \/ FlushCr3 \/ CallMain
=============================================================================
