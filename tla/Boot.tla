-------------------------------- MODULE Boot --------------------------------
(***************************************************************************)
(* From the 32-bit entry (BootPaging) through main.c to the end of         *)
(* irq_init: cpu_init, the boot information, mm_init, the local APIC.  The *)
(* pages main touches go through the same tables and the same TLB.  What   *)
(* multiboot_parse_mmap and page_init do with memory is in MemInit; here   *)
(* they are the addresses they need, and the panic for want of memory.     *)
(***************************************************************************)
EXTENDS BootPaging

CONSTANT Features   \* what cpu_checkfeatures asks for

\* The APIC base register holds no address the processor is too narrow for; the
\* boot information lies anywhere.
ASSUME MachinesAssumption ==
  \A x \in Machines :
    /\ x.pmax \in Nat
    /\ x.apic = [low |-> x.apic.low, high |-> x.apic.high]
    /\ \A b \in x.apic.high : b \in 0..31 /\ 32 + b < x.pmax
    /\ x.info \subseteq Nat

VARIABLES
  at,           \* history: where a fault happened
  why,          \* history: the reason of a panic
  pmax,         \* cpu.pmax
  mtrr,         \* the default type register and the variable ranges in force
  pic,          \* "unmasked" or "masked"
  svr           \* what was last stored to the spurious vector register

mainVars == <<at, why, pmax, mtrr, pic, svr>>
vars == <<pc, pagingVars, mainVars>>

\* A register of the APIC page at physical address base, mapped uncached.
Device(base) == <<"device", "uc", base>>
ApicBase == [low |-> "FEE00", high |-> {}]
LapicVA == <<257, 0>>

MTRR_ENABLE_WB == 2054
ENABLE == 256
T_IRQ0 == 32
IRQ_SPURIOUS == 31

Uses(here) ==
  CASE here \in {"main", "features", "getinfo", "mtrr", "direct", "vmm", "irq", "lapic", "irqret"} ->
         Image \cup {Stack}
    [] here \in {"info", "mmap"} -> Image \cup {Stack} \cup {<<256, d>> : d \in m.info}
    [] here = "pages" -> Image \cup {Stack} \cup {<<273, g>> : g \in m.memory}
    [] here \in {"lapicr", "lapicw"} -> Image \cup {Stack, LapicVA}
    [] OTHER -> BootUses(here)

Then(here, there) == /\ Goto(here, Uses(here), there)
                     /\ tlb' = Cached(Uses(here))
                     /\ UNCHANGED <<kernel_end, m, dropped>>
Panic(here, reason) == Then(here, "panic") /\ why' = reason

-----------------------------------------------------------------------------
Init ==
  /\ PagingInit
  /\ at = "none" /\ why = "none"
  /\ pmax = 0
  /\ mtrr = [on |-> 1, fixed |-> 1, type |-> 0, ranges |-> 0..(m.pairs - 1)]
  /\ pic = "unmasked"
  /\ svr = 0

\* main: with a wrong magic number it returns to start64, which halts.
Main ==
  /\ Then("main", IF m.magic THEN "features" ELSE "halt")
  /\ UNCHANGED <<entry, count, mainVars>>

CheckFeatures ==
  /\ \/ Features \subseteq m.features /\ Then("features", "getinfo") /\ UNCHANGED why
     \/ ~(Features \subseteq m.features) /\ Panic("features", "cpu")
  /\ UNCHANGED <<entry, count, at, pmax, mtrr, pic, svr>>

GetInfo ==
  /\ Then("getinfo", "mtrr")
  /\ pmax' = m.pmax
  /\ count' = 0
  /\ UNCHANGED <<entry, at, why, mtrr, pic, svr>>

\* cpu_setupmem: the default type, then ten pairs of registers, whether the
\* processor has them or not.
Bit(v, b) == (v \div b) % 2
DefType(v, r) == [on |-> Bit(v, 2048), fixed |-> Bit(v, 1024), type |-> v % 256, ranges |-> r]
SetDefType ==
  /\ Then("mtrr", "mtrr") /\ count = 0
  /\ count' = 1
  /\ mtrr' = DefType(MTRR_ENABLE_WB, mtrr.ranges)
  /\ UNCHANGED <<entry, at, why, pmax, pic, svr>>
ClearRangeNine ==   \* faulty: stops before the last pair
  /\ Then("mtrr", IF count = 9 THEN "info" ELSE "mtrr") /\ count > 0
  /\ count - 1 < m.pairs
  /\ mtrr' = [mtrr EXCEPT !.ranges = @ \ {count - 1}]
  /\ count' = count + 1
  /\ UNCHANGED <<entry, at, why, pmax, pic, svr>>
ClearRange ==
  /\ Then("mtrr", IF count = 10 THEN "info" ELSE "mtrr") /\ count > 0
  /\ count - 1 < m.pairs
  /\ mtrr' = [mtrr EXCEPT !.ranges = @ \ {count - 1}]
  /\ count' = count + 1
  /\ UNCHANGED <<entry, at, why, pmax, pic, svr>>

\* multiboot_parse_info only prints; multiboot_parse_mmap allocates.
ParseInfo ==
  /\ Then("info", "mmap")
  /\ UNCHANGED <<entry, count, mainVars>>
ParseMmap ==
  /\ \/ m.fits /\ Then("mmap", "direct") /\ UNCHANGED why
     \/ ~m.fits /\ Panic("mmap", "memory")
  /\ UNCHANGED <<entry, count, at, pmax, mtrr, pic, svr>>

DirectMapNext ==   \* faulty: `next` starts one entry further
  /\ Goto("direct", Uses("direct"), "vmm")
  /\ entry' = [entry EXCEPT ![<<"pages", 0>>] = Frame(0)]
  /\ tlb' = FlushTlb
  /\ UNCHANGED <<count, kernel_end, m, dropped, mainVars>>

\* direct_map_everything: one entry, whatever memory there is; the TLB is
\* flushed.
DirectMap ==
  /\ Goto("direct", Uses("direct"), "vmm")
  /\ entry' = [entry EXCEPT ![<<"pages", 0>>] = Frame(0), ![<<"pml4", 273>>] = Table("pages")]
  /\ tlb' = FlushTlb
  /\ UNCHANGED <<count, kernel_end, m, dropped, mainVars>>

VmmInit == Then("vmm", "pages") /\ UNCHANGED <<entry, count, mainVars>>
PageInit == Then("pages", "irq") /\ UNCHANGED <<entry, count, mainVars>>

IrqDisableLegacy ==
  /\ Then("irq", "lapic")
  /\ pic' = "masked"
  /\ UNCHANGED <<entry, count, at, why, pmax, mtrr, svr>>

\* lapic_init: the loop sets one more bit of mask per round, and does not run
\* when the high half is 0.  cpu_max_physical() - 20 is unsigned.
Rounds == IF pmax < 20 THEN 32 ELSE pmax - 20
MaskStays == {0}   \* faulty: mask keeps one bit
Mask == 0..(IF Rounds > 31 THEN 31 ELSE Rounds)
AcceptedAddress == [low |-> m.apic.low, high |-> m.apic.high \cap Mask]

LapicInit ==
  /\ \/ /\ AcceptedAddress # ApicBase
        /\ Panic("lapic", "lapic")
        /\ UNCHANGED entry
     \/ /\ AcceptedAddress = ApicBase
        /\ Goto("lapic", Uses("lapic"), "lapicr")
        \* mmap_physical_page: the first entry of the reserved table, and invlpg
        /\ entry' = [entry EXCEPT ![<<"pte", 0>>] = Device(m.apic)]
        /\ tlb' = [Cached(Uses("lapic")) EXCEPT ![LapicVA] = None]
        /\ UNCHANGED <<kernel_end, m, dropped, why>>
  /\ UNCHANGED <<count, at, pmax, mtrr, pic, svr>>

ReadId == Then("lapicr", "lapicw") /\ UNCHANGED <<entry, count, mainVars>>

\* lapicw stores a byte.
WriteSvr ==
  /\ Then("lapicw", "irqret")
  /\ svr' = (ENABLE + T_IRQ0 + IRQ_SPURIOUS) % 256
  /\ UNCHANGED <<entry, count, at, why, pmax, mtrr, pic>>

\* _irq_init returns 0, which irq_init takes for failure.
IrqInit ==
  /\ Panic("irqret", "interrupts")
  /\ UNCHANGED <<entry, count, at, pmax, mtrr, pic, svr>>

\* A page that is not mapped, or an MSR that is not there: without an IDT the
\* machine resets.
Fault ==
  /\ \/ \E va \in Uses(pc) : Translation(va) = None
     \/ pc = "mtrr" /\ count > 0 /\ count - 1 >= m.pairs
  /\ pc' = "fault"
  /\ at' = pc
  /\ UNCHANGED <<pagingVars, why, pmax, mtrr, pic, svr>>

Final == {"halt", "panic", "fault"}

MainStep ==
  \/ Main \/ CheckFeatures \/ GetInfo \/ SetDefType \/ ClearRange
  \/ ParseInfo \/ ParseMmap \/ DirectMap \/ VmmInit \/ PageInit
  \/ IrqDisableLegacy \/ LapicInit \/ ReadId \/ WriteSvr \/ IrqInit

Step == (BootStep /\ UNCHANGED mainVars) \/ MainStep \/ Fault
Processor == /\ pc \notin Final
             /\ \E va \in VAs : Load(va) \/ Evict(va)
             /\ UNCHANGED <<pc, mainVars>>
Ended == pc \in Final /\ UNCHANGED vars

Spec == Init /\ [][Step \/ Processor \/ Ended]_vars /\ WF_vars(Step)

-----------------------------------------------------------------------------
InMain == {"main", "features", "getinfo", "mtrr", "info", "mmap", "direct", "vmm", "pages",
           "irq", "lapic", "lapicr", "lapicw", "irqret"}
Start64 == {"trampoline", "reuse_pml4", "reuse_pdpte", "reuse_pde", "unmap", "clear", "flush", "call"}
Pages == {None, Device(m.apic)} \cup {Frame(n) : n \in 0..(ENTRIES - 1)}

\* Types of the variables; the TLB holds pages only, never a table.
TypeOK ==
  /\ pc \in {"start", "map", "paging"} \cup Start64 \cup InMain \cup Final
  /\ entry \in [Slots -> Pages \cup {Table(t) : t \in {"pdpte", "pdpte2mb", "pde", "pde2mb", "pte", "pages"}}]
  /\ tlb \in [VAs -> Pages]
  /\ count \in 0..(ENTRIES + 10)
  /\ kernel_end \in KernelEnds /\ m \in Machines /\ dropped \in BOOLEAN
  /\ at \in {"none", "mtrr", "info", "mmap", "pages"} \cup Start64
  /\ why \in {"none", "cpu", "memory", "lapic", "interrupts"}
  /\ pmax \in Nat /\ svr \in 0..255 /\ pic \in {"unmasked", "masked"}
  /\ mtrr.ranges \subseteq 0..(m.pairs - 1)

\* start64.S takes the identity map away while it still stores through it: it
\* faults only if the processor drops, of its own accord, the one translation
\* that keeps these stores alive.
FaultsOnlyIfDropped == at \in Start64 => dropped

\* start64.S leaves main what its comments promise: the whole image in the higher
\* half, nothing at the low addresses (so that NULL faults) and nothing but the
\* pages mapped later in the reserved area, in the tables and in the TLB alike.
\* The higher half begins at physical 0, as boot.S maps it; docs/memory.txt:35
\* has it begin at 4 MiB.
HandsOver ==
  pc \in InMain =>
    /\ \A va \in Image : Translation(va) = Frame(va[2])
    /\ \A d \in 0..(ENTRIES - 1) :
         /\ Translation(<<0, d>>) = None
         /\ Translation(<<257, d>>) = IF d = 0 THEN entry[<<"pte", 0>>] ELSE None

\* On a processor with ten pairs of MTRRs and pages of 1 GiB, with the boot
\* information in pages the image's map covers and memory below 1 GiB, no
\* initialisation step of main touches anything that is not mapped yet.
FaultsOnlyOnOthers ==
  /\ at \in InMain
  /\ m.pairs = 10 /\ m.huge
  => (at \in {"info", "mmap"} /\ \E d \in m.info : d >= npages)
       \/ (at = "pages" /\ m.memory # {0})

\* Once cpu_setupmem is through, no range register decides about a page any
\* more and the default is write back: the memory type the page tables ask for
\* is the one in force when the APIC is mapped.
PatDecides ==
  pc \in InMain \ {"main", "features", "getinfo", "mtrr"} =>
    mtrr = [on |-> 1, fixed |-> 0, type |-> 6, ranges |-> {}]

\* The registers irq.c touches are those of an APIC at its architectural
\* address, through an uncached page; a processor whose APIC has been moved
\* anywhere else, above 4 GiB included, gets a panic and no access.
RegistersReached ==
  pc \in {"lapicr", "lapicw", "irqret"} =>
    m.apic = ApicBase /\ Translation(LapicVA) = Device(ApicBase) /\ pic = "masked"

\* Every boot comes to an end: in main's return, a panic or a reset.
BootEnds == <>(pc \in Final)

-----------------------------------------------------------------------------
\* kernel/irq.c says "Failed to setup interrupts": so the APIC should not have
\* been set up when it does.
PanicMeansFailure == (pc = "panic" /\ why = "interrupts") => svr = 0
=============================================================================
