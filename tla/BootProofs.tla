----------------------------- MODULE BootProofs -----------------------------
(***************************************************************************)
(* The switch to the higher half, for page tables of any size, images of   *)
(* any length and any set of machines: what start64.S hands over to main,  *)
(* what its stores rely on, and the memory types in force afterwards.      *)
(***************************************************************************)
EXTENDS Boot, TLAPS

\* Places by what has become of the tables: both maps exist; pde belongs to
\* the reserved area; nothing of the identity map is left.
Identity == {"map", "paging", "trampoline", "reuse_pml4", "reuse_pdpte", "reuse_pde"}
Handed == {"flush", "call"} \cup InMain
Reserved == {"unmap", "clear"} \cup Handed
Running == Identity \cup Reserved

\* The tables, place by place.  The higher half has the pages mapped so far,
\* and then all pages of the image.
HighMap(e, n) ==
  /\ e[<<"pml4", 256>>] = Table("pdpte2mb")
  /\ e[<<"pdpte2mb", 0>>] = Table("pde2mb")
  /\ \A d \in 0..(n - 1) : e[<<"pde2mb", d>>] = Frame(d)
HigherHalf ==
  /\ pc = "map" => HighMap(entry, count)
  /\ pc \in Running \ {"map"} => HighMap(entry, npages)

LowHalf ==
  /\ pc \in Identity \cup {"unmap"} => entry[<<"pml4", 0>>] = Table("pdpte")
  /\ pc \in Identity /\ (pc # "map" \/ count > 0) => entry[<<"pde", 0>>] = Frame(0)
  /\ pc \in {"clear"} \cup Handed => entry[<<"pml4", 0>>] = None

ReservedArea ==
  /\ pc \in Running => entry[<<"pdpte", 0>>] = Table("pde")
  /\ pc \in {"reuse_pdpte", "reuse_pde"} \cup Reserved => entry[<<"pml4", 257>>] = Table("pdpte")
  /\ pc \in Reserved => entry[<<"pde", 0>>] = Table("pte")
  /\ \A d \in 1..(ENTRIES - 1) :
       pc \in Handed \/ (pc = "clear" /\ d < count) => entry[<<"pde", d>>] = None

Counting ==
  /\ pc = "start" => count = 0
  /\ pc = "map" => count \in 0..(npages - 1)
  /\ pc = "clear" => count \in 1..(ENTRIES - 1)

TablesInv ==
  /\ pc \in {"start"} \cup Running \cup Final
  /\ kernel_end \in KernelEnds
  /\ DOMAIN entry = Slots
  /\ Counting /\ HigherHalf /\ LowHalf /\ ReservedArea

\* The TLB: from the flush on it holds what the tables give; before, the
\* translation of the low addresses stays until the processor drops it.
AfterDirectMap == {"vmm", "pages", "irq", "lapic"}
Coherent == \A va \in VAs : tlb[va] = None \/ tlb[va] = Walk(va)
TlbInv ==
  /\ DOMAIN tlb = VAs
  /\ dropped \in BOOLEAN
  /\ pc \in {"call"} \cup InMain => Coherent
  /\ pc \in {"unmap", "clear"} => dropped \/ tlb[Low] # None
  /\ at \in Start64 => dropped
  /\ pc \in AfterDirectMap => entry[<<"pml4", 273>>] = Table("pages")

BootInv == TablesInv /\ TlbInv

-----------------------------------------------------------------------------
\* The pages the image takes are among those both maps cover, and these fit
\* into one directory.
LEMMA ImageFits ==
  ASSUME kernel_end \in KernelEnds
  PROVE  /\ npages \in 1..ENTRIES
         /\ \A va \in Image : va[1] = 256 /\ va[2] \in 0..(npages - 1) /\ va = <<256, va[2]>>
<1>1. kernel_end \in Nat \ {0} /\ BIG \in Nat \ {0} /\ kernel_end \div BIG < ENTRIES
      /\ ENTRIES \in Nat \ {0, 1}
  BY BootPagingAssumption
<1>2. ASSUME NEW k \in Nat, NEW b \in Nat \ {0} PROVE k \div b \in Nat
  BY <1>2
<1>3. kernel_end \div BIG \in Nat /\ (kernel_end - 1) \div BIG \in Nat
  BY <1>1, <1>2
<1>4. (kernel_end - 1) \div BIG <= kernel_end \div BIG
  <2> DEFINE p == (kernel_end - 1) \div BIG
             q == kernel_end \div BIG
  <2>1. kernel_end < BIG * (q + 1)
    BY <1>1
  <2>2. BIG * p <= kernel_end - 1
    BY <1>1
  <2>3. ASSUME q + 1 <= p PROVE FALSE
    <3>1. BIG * (q + 1) <= BIG * p
      BY <1>1, <1>3, <2>3
    <3> QED BY <1>1, <1>3, <2>1, <2>2, <3>1
  <2> QED BY <1>3, <2>3
<1> QED BY <1>1, <1>3, <1>4 DEF npages, Image

\* The values an entry can have are told apart.
LEMMA Distinct ==
  /\ \A n : Frame(n) # None /\ Frame(n) # Table("pte")
  /\ \A t : Table(t) # None /\ Table(t)[1] = t
BY DEF Frame, Table, None

LEMMA HasSlots ==
  /\ <<"pml4", 0>> \in Slots /\ <<"pml4", 256>> \in Slots
  /\ <<"pml4", 257>> \in Slots /\ <<"pml4", 273>> \in Slots
  /\ <<"pdpte", 0>> \in Slots /\ <<"pdpte2mb", 0>> \in Slots
  /\ <<"pte", 0>> \in Slots /\ <<"pages", 0>> \in Slots /\ <<"pages", 1>> \in Slots
  /\ <<"pde", 0>> \in Slots
BY BootPagingAssumption DEF Slots

LEMMA HasPages ==
  ASSUME NEW d \in 0..(ENTRIES - 1)
  PROVE  <<"pde", d>> \in Slots /\ <<"pde2mb", d>> \in Slots
BY DEF Slots

LEMMA HasVAs ==
  /\ Low \in VAs /\ Stack \in VAs /\ LapicVA \in VAs
  /\ \A p \in {0, 256, 257}, d \in 0..(ENTRIES - 1) : <<p, d>> \in VAs
BY BootPagingAssumption DEF VAs, Low, Stack, LapicVA

\* Where the processor gets to through the tables.
LEMMA WalkLow ==
  ASSUME NEW d, entry[<<"pml4", 0>>] = None
  PROVE  Walk(<<0, d>>) = None
BY DEF Walk, Through, None, Table

LEMMA WalkHigh ==
  ASSUME NEW d, entry[<<"pml4", 256>>] = Table("pdpte2mb"),
         entry[<<"pdpte2mb", 0>>] = Table("pde2mb")
  PROVE  Walk(<<256, d>>) = IF entry[<<"pde2mb", d>>] = Table("pte") THEN None
                            ELSE entry[<<"pde2mb", d>>]
<1>1. Through(Through(entry[<<"pml4", 256>>], 0), d) = entry[<<"pde2mb", d>>]
  BY Distinct DEF Through
<1> QED BY <1>1 DEF Walk

LEMMA WalkReserved ==
  ASSUME NEW d, entry[<<"pml4", 257>>] = Table("pdpte"), entry[<<"pdpte", 0>>] = Table("pde")
  PROVE  Walk(<<257, d>>) = IF entry[<<"pde", d>>] = Table("pte") THEN entry[<<"pte", 0>>]
                            ELSE entry[<<"pde", d>>]
<1>1. Through(Through(entry[<<"pml4", 257>>], 0), d) = entry[<<"pde", d>>]
  BY Distinct DEF Through
<1> QED BY <1>1 DEF Walk

\* While the identity map exists it serves the low addresses, until its first
\* entry becomes the reserved area's table.
LEMMA WalkIdentity ==
  ASSUME entry[<<"pml4", 0>>] = Table("pdpte"), entry[<<"pdpte", 0>>] = Table("pde")
  PROVE  /\ entry[<<"pde", 0>>] = Frame(0) => Walk(Low) = Frame(0)
         /\ entry[<<"pde", 0>>] = Table("pte") => Walk(Low) = None
<1>1. Through(Through(entry[<<"pml4", 0>>], 0), 0) = entry[<<"pde", 0>>]
  BY Distinct DEF Through
<1> QED BY <1>1, Distinct DEF Walk, Low

-----------------------------------------------------------------------------
\* The tables.
LEMMA TablesInit == Init => TablesInv
BY DEF Init, PagingInit, TablesInv, Counting, HigherHalf, LowHalf, ReservedArea,
       Running, Identity, Reserved, Handed, InMain

\* A step that leaves the tables alone keeps the invariant when it goes to a
\* place that asks for no more of them than the one it leaves.
LEMMA TablesKept ==
  ASSUME TablesInv, UNCHANGED <<entry, kernel_end>>,
         \/ pc' \in Final
         \/ pc \in InMain \cup {"call"} /\ pc' \in InMain \cup Final
         \/ pc = "paging" /\ pc' = "trampoline"
         \/ pc = "trampoline" /\ pc' = "reuse_pml4"
         \/ pc = "flush" /\ pc' = "call"
         \/ pc' = pc /\ count' = count
  PROVE  TablesInv'
<1>1. npages' = npages
  BY DEF npages
<1> USE DEF Running, Identity, Reserved, Handed, InMain, Final
<1>2. (pc' \in {"start"} \cup Running \cup Final)
  BY DEF TablesInv
<1>3. Counting'
  BY <1>1 DEF TablesInv, Counting
<1>4. HigherHalf'
  BY <1>1 DEF TablesInv, HigherHalf
<1>5. LowHalf' /\ ReservedArea'
  BY DEF TablesInv, LowHalf, ReservedArea
<1> QED BY <1>2, <1>3, <1>4, <1>5 DEF TablesInv

\* One store: the slot changes and no other does, and the higher half's map
\* stays unless it is the one stored to.
LEMMA StoreOne ==
  ASSUME NEW slot \in Slots, NEW value, DOMAIN entry = Slots,
         entry' = [entry EXCEPT ![slot] = value]
  PROVE  /\ DOMAIN entry' = Slots
         /\ entry'[slot] = value
         /\ \A s \in Slots : s # slot => entry'[s] = entry[s]
OBVIOUS

LEMMA HighMapKept ==
  ASSUME NEW slot, \A s \in Slots : s # slot => entry'[s] = entry[s],
         NEW n \in 1..ENTRIES, HighMap(entry, n),
         slot # <<"pml4", 256>>, slot # <<"pdpte2mb", 0>>, \A d : slot # <<"pde2mb", d>>
  PROVE  HighMap(entry', n)
<1>1. entry'[<<"pml4", 256>>] = entry[<<"pml4", 256>>]
      /\ entry'[<<"pdpte2mb", 0>>] = entry[<<"pdpte2mb", 0>>]
  BY HasSlots
<1>2. ASSUME NEW d \in 0..(n - 1) PROVE entry'[<<"pde2mb", d>>] = entry[<<"pde2mb", d>>]
  <2>1. d \in 0..(ENTRIES - 1)
    BY BootPagingAssumption
  <2>2. <<"pde2mb", d>> \in Slots
    BY <2>1, HasPages
  <2>3. <<"pde2mb", d>> # slot
    OBVIOUS
  <2> QED BY <2>2, <2>3
<1> QED BY <1>1, <1>2 DEF HighMap

\* What the invariant says of the tables at each place of start64.S.
LEMMA TablesAt ==
  ASSUME TablesInv
  PROVE  /\ pc = "start" => count = 0
         /\ pc = "map" => count \in 0..(npages - 1)
         /\ pc = "clear" => count \in 1..(ENTRIES - 1)
         /\ npages \in 1..ENTRIES /\ ENTRIES \in Nat \ {0, 1}
BY ImageFits, BootPagingAssumption DEF TablesInv, Counting

LEMMA TablesBoot ==
  ASSUME TablesInv, BootStep
  PROVE  TablesInv'
<1>0. npages' = npages
  BY DEF npages, BootStep, Halt32, BootTables, MapPage, SetPaging, Trampoline, ReuseTables,
         Store, Unmap, ClearPage, FlushCr3, CallMain, pagingVars
<1>1. CASE Halt32
  <2>1. pc' = "halt" /\ UNCHANGED <<entry, kernel_end>>
    BY <1>1 DEF Halt32, pagingVars
  <2> QED BY <2>1, TablesKept DEF Final
<1>2. CASE BootTables
  <2>1. /\ pc = "start" /\ pc' = "map" /\ count' = count /\ kernel_end' = kernel_end
        /\ DOMAIN entry' = Slots
        /\ entry'[<<"pml4", 0>>] = Table("pdpte") /\ entry'[<<"pdpte", 0>>] = Table("pde")
        /\ entry'[<<"pml4", 256>>] = Table("pdpte2mb")
        /\ entry'[<<"pdpte2mb", 0>>] = Table("pde2mb")
    BY <1>2, HasSlots DEF BootTables, TablesInv
  <2>2. count = 0 /\ npages \in 1..ENTRIES /\ ENTRIES \in Nat
    BY <2>1, TablesAt
  <2>3. Counting'
    BY <1>0, <2>1, <2>2 DEF Counting
  <2>4. HigherHalf'
    BY <2>1, <2>2 DEF HigherHalf, HighMap
  <2>5. LowHalf'
    BY <2>1, <2>2 DEF LowHalf, Handed, InMain
  <2>6. ReservedArea'
    BY <2>1 DEF ReservedArea, Reserved, Handed, InMain
  <2> QED BY <2>1, <2>3, <2>4, <2>5, <2>6 DEF TablesInv, Running, Identity
<1>3. CASE MapPage
  <2>1. /\ pc = "map" /\ count' = count + 1
        /\ pc' = IF count + 1 = npages THEN "paging" ELSE "map"
        /\ kernel_end' = kernel_end
    BY <1>0, <1>3 DEF MapPage
  <2>2. count \in 0..(npages - 1) /\ npages \in 1..ENTRIES /\ ENTRIES \in Nat
    BY <2>1, TablesAt
  <2>3. <<"pde", count>> \in Slots /\ <<"pde2mb", count>> \in Slots
    <3>1. count \in 0..(ENTRIES - 1)
      BY <2>2
    <3> QED BY <3>1, HasPages
  <2>4. /\ DOMAIN entry' = Slots
        /\ entry'[<<"pde", count>>] = Frame(count) /\ entry'[<<"pde2mb", count>>] = Frame(count)
        /\ \A s \in Slots : s # <<"pde", count>> /\ s # <<"pde2mb", count>> => entry'[s] = entry[s]
    BY <1>3, <2>3 DEF MapPage, TablesInv
  <2>5. Counting'
    BY <1>0, <2>1, <2>2 DEF Counting
  <2>6. HigherHalf'
    <3>1. HighMap(entry, count)
      BY <2>1 DEF TablesInv, HigherHalf
    <3>2. entry'[<<"pml4", 256>>] = Table("pdpte2mb") /\ entry'[<<"pdpte2mb", 0>>] = Table("pde2mb")
      BY <2>4, <3>1, HasSlots DEF HighMap
    <3>3. ASSUME NEW d \in 0..count PROVE entry'[<<"pde2mb", d>>] = Frame(d)
      <4>1. d \in 0..(ENTRIES - 1)
        BY <2>2
      <4>2. <<"pde2mb", d>> \in Slots
        BY <4>1, HasPages
      <4>3. CASE d = count
        BY <2>4, <4>3
      <4>4. CASE d # count
        <5>1. d \in 0..(count - 1)
          BY <2>2, <4>4
        <5>2. entry[<<"pde2mb", d>>] = Frame(d)
          BY <3>1, <5>1 DEF HighMap
        <5>3. <<"pde2mb", d>> # <<"pde2mb", count>> /\ <<"pde2mb", d>> # <<"pde", count>>
          BY <4>4
        <5> QED BY <2>4, <4>2, <5>2, <5>3
      <4> QED BY <4>3, <4>4
    <3>4. HighMap(entry', count + 1)
      BY <2>1, <2>2, <3>2, <3>3 DEF HighMap
    <3> QED BY <1>0, <2>1, <3>4 DEF HigherHalf
  <2>7. LowHalf'
    <3>1. entry'[<<"pml4", 0>>] = Table("pdpte")
      BY <2>1, <2>4, HasSlots DEF TablesInv, LowHalf, Identity
    <3>2. entry'[<<"pde", 0>>] = Frame(0)
      <4>1. CASE count = 0
        BY <2>4, <4>1
      <4>2. CASE count > 0
        BY <2>1, <2>2, <2>4, <4>2, HasSlots DEF TablesInv, LowHalf, Identity
      <4> QED BY <2>2, <4>1, <4>2
    <3> QED BY <2>1, <3>1, <3>2 DEF LowHalf, Handed, InMain
  <2>8. ReservedArea'
    BY <2>1, <2>4, HasSlots DEF TablesInv, ReservedArea, Running, Identity, Reserved, Handed, InMain
  <2> QED BY <2>1, <2>4, <2>5, <2>6, <2>7, <2>8 DEF TablesInv, Running, Identity
<1>4. CASE SetPaging
  <2>1. pc = "paging" /\ pc' = "trampoline" /\ UNCHANGED <<entry, kernel_end>>
    BY <1>4 DEF SetPaging, Goto, pagingVars
  <2> QED BY <2>1, TablesKept
<1>5. CASE Trampoline
  <2>1. pc = "trampoline" /\ pc' = "reuse_pml4" /\ UNCHANGED <<entry, kernel_end>>
    BY <1>5 DEF Trampoline, Goto
  <2> QED BY <2>1, TablesKept
<1>6. CASE ReuseTables
  <2>0. HighMap(entry, npages) /\ npages \in 1..ENTRIES /\ kernel_end' = kernel_end
    <3>1. pc \in Running \ {"map"} /\ kernel_end' = kernel_end
      BY <1>6 DEF ReuseTables, Store, Goto, Running, Identity
    <3> QED BY <3>1, TablesAt DEF TablesInv, HigherHalf
  <2>1. CASE Store("reuse_pml4", <<"pml4", 257>>, Table("pdpte"), "reuse_pdpte")
    <3>1. /\ pc = "reuse_pml4" /\ pc' = "reuse_pdpte"
          /\ DOMAIN entry' = Slots /\ entry'[<<"pml4", 257>>] = Table("pdpte")
          /\ \A s \in Slots : s # <<"pml4", 257>> => entry'[s] = entry[s]
      BY <2>1, HasSlots, StoreOne DEF Store, Goto, TablesInv
    <3>2. HigherHalf'
      <4>1. HighMap(entry', npages)
        BY <2>0, <3>1, HighMapKept
      <4> QED BY <1>0, <3>1, <4>1 DEF HigherHalf
    <3>3. LowHalf' /\ ReservedArea'
      BY <3>1, TablesAt, HasSlots DEF TablesInv, LowHalf, ReservedArea, Running, Identity,
         Reserved, Handed, InMain
    <3> QED BY <2>0, <3>1, <3>2, <3>3 DEF TablesInv, Counting, Running, Identity
  <2>2. CASE Store("reuse_pdpte", <<"pdpte", 0>>, Table("pde"), "reuse_pde")
    <3>1. /\ pc = "reuse_pdpte" /\ pc' = "reuse_pde"
          /\ DOMAIN entry' = Slots /\ entry'[<<"pdpte", 0>>] = Table("pde")
          /\ \A s \in Slots : s # <<"pdpte", 0>> => entry'[s] = entry[s]
      BY <2>2, HasSlots, StoreOne DEF Store, Goto, TablesInv
    <3>2. HigherHalf'
      BY <1>0, <2>0, <3>1, HighMapKept DEF HigherHalf
    <3>3. LowHalf' /\ ReservedArea'
      BY <3>1, TablesAt, HasSlots DEF TablesInv, LowHalf, ReservedArea, Running, Identity,
         Reserved, Handed, InMain
    <3> QED BY <2>0, <3>1, <3>2, <3>3 DEF TablesInv, Counting, Running, Identity
  <2>3. CASE Store("reuse_pde", <<"pde", 0>>, Table("pte"), "unmap")
    <3>1. /\ pc = "reuse_pde" /\ pc' = "unmap"
          /\ DOMAIN entry' = Slots /\ entry'[<<"pde", 0>>] = Table("pte")
          /\ \A s \in Slots : s # <<"pde", 0>> => entry'[s] = entry[s]
      BY <2>3, HasSlots, StoreOne DEF Store, Goto, TablesInv
    <3>2. HigherHalf'
      BY <1>0, <2>0, <3>1, HighMapKept DEF HigherHalf
    <3>3. LowHalf' /\ ReservedArea'
      BY <3>1, TablesAt, HasSlots DEF TablesInv, LowHalf, ReservedArea, Running, Identity,
         Reserved, Handed, InMain
    <3> QED BY <2>0, <3>1, <3>2, <3>3 DEF TablesInv, Counting, Running, Reserved
  <2> QED BY <1>6, <2>1, <2>2, <2>3 DEF ReuseTables
<1>7. CASE Unmap
  <2>1. /\ pc = "unmap" /\ pc' = "clear" /\ count' = 1 /\ kernel_end' = kernel_end
        /\ DOMAIN entry' = Slots /\ entry'[<<"pml4", 0>>] = None
        /\ \A s \in Slots : s # <<"pml4", 0>> => entry'[s] = entry[s]
    BY <1>7, HasSlots, StoreOne DEF Unmap, Store, Goto, TablesInv
  <2>2. HigherHalf'
    <3>1. HighMap(entry, npages) /\ npages \in 1..ENTRIES
      BY <2>1, TablesAt DEF TablesInv, HigherHalf, Running, Reserved
    <3>2. HighMap(entry', npages)
      BY <2>1, <3>1, HighMapKept
    <3> QED BY <1>0, <2>1, <3>2 DEF HigherHalf
  <2>3. LowHalf' /\ ReservedArea'
    BY <2>1, TablesAt, HasSlots DEF TablesInv, LowHalf, ReservedArea, Running, Identity,
       Reserved, Handed, InMain
  <2>4. Counting'
    BY <2>1, TablesAt DEF Counting
  <2> QED BY <2>1, <2>2, <2>3, <2>4 DEF TablesInv, Running, Reserved
<1>8. CASE ClearPage
  <2>1. /\ pc = "clear" /\ count' = count + 1 /\ kernel_end' = kernel_end
        /\ pc' = IF count + 1 = ENTRIES THEN "flush" ELSE "clear"
        /\ count \in 1..(ENTRIES - 1) /\ ENTRIES \in Nat
    BY <1>8, TablesAt DEF ClearPage, Store, Goto
  <2>2. <<"pde", count>> \in Slots
    <3>1. count \in 0..(ENTRIES - 1)
      BY <2>1
    <3> QED BY <3>1, HasPages
  <2>3. /\ DOMAIN entry' = Slots /\ entry'[<<"pde", count>>] = None
        /\ \A s \in Slots : s # <<"pde", count>> => entry'[s] = entry[s]
    BY <1>8, <2>2, StoreOne DEF ClearPage, Store, TablesInv
  <2>4. HigherHalf'
    <3>1. HighMap(entry, npages) /\ npages \in 1..ENTRIES
      BY <2>1, TablesAt DEF TablesInv, HigherHalf, Running, Reserved
    <3>2. HighMap(entry', npages)
      BY <2>3, <3>1, HighMapKept
    <3> QED BY <1>0, <2>1, <3>2 DEF HigherHalf
  <2>5. LowHalf'
    BY <2>1, <2>3, HasSlots DEF TablesInv, LowHalf, Identity, Handed
  <2>6. ReservedArea'
    <3>1. /\ entry'[<<"pdpte", 0>>] = Table("pde") /\ entry'[<<"pml4", 257>>] = Table("pdpte")
          /\ entry'[<<"pde", 0>>] = Table("pte")
      BY <2>1, <2>3, HasSlots DEF TablesInv, ReservedArea, Running, Reserved
    <3>2. ASSUME NEW d \in 1..(ENTRIES - 1), pc' \in Handed \/ (pc' = "clear" /\ d < count')
          PROVE  entry'[<<"pde", d>>] = None
      <4>1. d <= count /\ d \in 0..(ENTRIES - 1)
        BY <2>1, <3>2 DEF Handed, InMain
      <4>2. CASE d = count
        BY <2>3, <4>2
      <4>3. CASE d < count
        <5>1. <<"pde", d>> \in Slots
          BY <4>1, HasPages
        <5>2. entry[<<"pde", d>>] = None
          BY <2>1, <4>3 DEF TablesInv, ReservedArea
        <5> QED BY <2>1, <2>3, <4>3, <5>1, <5>2
      <4> QED BY <2>1, <4>1, <4>2, <4>3
    <3> QED BY <3>1, <3>2 DEF ReservedArea
  <2>7. Counting'
    BY <2>1 DEF Counting
  <2> QED BY <2>1, <2>3, <2>4, <2>5, <2>6, <2>7 DEF TablesInv, Running, Reserved, Handed
<1>9. CASE FlushCr3
  <2>1. pc = "flush" /\ pc' = "call" /\ UNCHANGED <<entry, kernel_end>>
    BY <1>9 DEF FlushCr3, Goto
  <2> QED BY <2>1, TablesKept
<1>10. CASE CallMain
  <2>1. pc = "call" /\ pc' \in InMain /\ UNCHANGED <<entry, kernel_end>>
    BY <1>10 DEF CallMain, Goto, InMain
  <2> QED BY <2>1, TablesKept
<1> QED BY <1>1, <1>2, <1>3, <1>4, <1>5, <1>6, <1>7, <1>8, <1>9, <1>10 DEF BootStep

\* main stores to three entries that the hand-over has nothing to do with: the
\* APIC's page, the direct map's page, and the direct map's table.
LEMMA TablesElsewhere ==
  ASSUME TablesInv, pc \in InMain, pc' \in InMain, kernel_end' = kernel_end,
         DOMAIN entry' = Slots,
         \A s \in Slots \ {<<"pte", 0>>, <<"pages", 0>>, <<"pml4", 273>>} : entry'[s] = entry[s]
  PROVE  TablesInv'
<1>1. npages' = npages
  BY DEF npages
<1>2. HigherHalf'
  <2>1. HighMap(entry, npages) /\ npages \in 1..ENTRIES /\ ENTRIES \in Nat
    BY TablesAt DEF TablesInv, HigherHalf, Running, Identity, Reserved, Handed, InMain
  <2>2. /\ entry'[<<"pml4", 256>>] = entry[<<"pml4", 256>>]
        /\ entry'[<<"pdpte2mb", 0>>] = entry[<<"pdpte2mb", 0>>]
    BY HasSlots
  <2>3. ASSUME NEW d \in 0..(npages - 1) PROVE entry'[<<"pde2mb", d>>] = entry[<<"pde2mb", d>>]
    <3>1. d \in 0..(ENTRIES - 1)
      BY <2>1
    <3>2. <<"pde2mb", d>> \in Slots
      BY <3>1, HasPages
    <3> QED BY <3>2
  <2>4. HighMap(entry', npages)
    BY <2>1, <2>2, <2>3 DEF HighMap
  <2> QED BY <1>1, <2>4 DEF HigherHalf, InMain
<1>3. LowHalf'
  BY HasSlots DEF TablesInv, LowHalf, Identity, Handed, InMain
<1>4. ReservedArea'
  <2>1. /\ entry'[<<"pdpte", 0>>] = entry[<<"pdpte", 0>>] /\ entry'[<<"pde", 0>>] = entry[<<"pde", 0>>]
        /\ entry'[<<"pml4", 257>>] = entry[<<"pml4", 257>>]
    BY HasSlots
  <2>2. ASSUME NEW d \in 1..(ENTRIES - 1) PROVE entry'[<<"pde", d>>] = None
    <3>1. d \in 0..(ENTRIES - 1)
      BY BootPagingAssumption
    <3>2. <<"pde", d>> \in Slots
      BY <3>1, HasPages
    <3>3. entry[<<"pde", d>>] = None
      BY DEF TablesInv, ReservedArea, Handed
    <3> QED BY <3>2, <3>3
  <2> QED BY <2>1, <2>2 DEF TablesInv, ReservedArea, Running, Reserved, Handed
<1>5. Counting'
  BY DEF Counting, InMain
<1> QED BY <1>2, <1>3, <1>4, <1>5 DEF TablesInv, Running, Reserved, Handed

\* A step of main, by what it does to tables and TLB.
Quiet == /\ pc \in InMain /\ pc' \in InMain \cup Final
         /\ pc' \in AfterDirectMap => pc \in AfterDirectMap
         /\ UNCHANGED <<entry, kernel_end, m, dropped>>
         /\ \E uses : tlb' = Cached(uses)
MapsApic == /\ pc = "lapic" /\ pc' = "lapicr"
            /\ UNCHANGED <<kernel_end, m, dropped>>
            /\ entry' = [entry EXCEPT ![<<"pte", 0>>] = Device(m.apic)]
            /\ \E uses : tlb' = [Cached(uses) EXCEPT ![LapicVA] = None]

LEMMA MainSteps == MainStep => (Quiet \/ MapsApic \/ DirectMap) /\ at' = at
<1> USE DEF Quiet, Then, Goto, InMain, AfterDirectMap, Final, mainVars
<1>1. Main => Quiet /\ at' = at
  BY DEF Main
<1>2. CheckFeatures => Quiet /\ at' = at
  BY DEF CheckFeatures, Panic
<1>3. GetInfo => Quiet /\ at' = at
  BY DEF GetInfo
<1>4. SetDefType => Quiet /\ at' = at
  BY DEF SetDefType
<1>5. ClearRange => Quiet /\ at' = at
  BY DEF ClearRange
<1>6. ParseInfo => Quiet /\ at' = at
  BY DEF ParseInfo
<1>7. ParseMmap => Quiet /\ at' = at
  BY DEF ParseMmap, Panic
<1>8. VmmInit => Quiet /\ at' = at
  BY DEF VmmInit
<1>9. PageInit => Quiet /\ at' = at
  BY DEF PageInit
<1>10. IrqDisableLegacy => Quiet /\ at' = at
  BY DEF IrqDisableLegacy
<1>11. LapicInit => (Quiet \/ MapsApic) /\ at' = at
  BY DEF LapicInit, Panic, MapsApic
<1>12. ReadId => Quiet /\ at' = at
  BY DEF ReadId
<1>13. WriteSvr => Quiet /\ at' = at
  BY DEF WriteSvr
<1>14. IrqInit => Quiet /\ at' = at
  BY DEF IrqInit, Panic
<1>15. DirectMap => at' = at
  BY DEF DirectMap
<1> QED BY <1>1, <1>2, <1>3, <1>4, <1>5, <1>6, <1>7, <1>8, <1>9, <1>10, <1>11, <1>12, <1>13,
           <1>14, <1>15 DEF MainStep

LEMMA TablesNext ==
  ASSUME TablesInv, Step \/ Processor \/ Ended
  PROVE  TablesInv'
<1>1. CASE BootStep /\ UNCHANGED mainVars
  BY <1>1, TablesBoot
<1>2. CASE MainStep
  <2>1. CASE Quiet
    BY <2>1, TablesKept DEF Quiet
  <2>2. CASE MapsApic
    <3>1. DOMAIN entry' = Slots /\ \A s \in Slots : s # <<"pte", 0>> => entry'[s] = entry[s]
      BY <2>2, HasSlots, StoreOne DEF MapsApic, TablesInv
    <3> QED BY <2>2, <3>1, TablesElsewhere DEF MapsApic, InMain
  <2>3. CASE DirectMap
    <3>1. /\ DOMAIN entry' = Slots
          /\ \A s \in Slots : s # <<"pages", 0>> /\ s # <<"pml4", 273>> => entry'[s] = entry[s]
      BY <2>3 DEF DirectMap, TablesInv
    <3>2. pc \in InMain /\ pc' \in InMain /\ kernel_end' = kernel_end
      BY <2>3 DEF DirectMap, Goto, InMain
    <3> QED BY <3>1, <3>2, TablesElsewhere
  <2> QED BY <1>2, <2>1, <2>2, <2>3, MainSteps
<1>3. CASE Fault
  <2>1. pc' \in Final /\ UNCHANGED <<entry, kernel_end>>
    BY <1>3 DEF Fault, pagingVars, Final
  <2> QED BY <2>1, TablesKept
<1>4. CASE Processor
  <2>1. UNCHANGED <<pc, entry, kernel_end, count>>
    BY <1>4 DEF Processor, Load, Evict
  <2> QED BY <2>1, TablesKept
<1>5. CASE Ended
  <2>1. UNCHANGED <<pc, entry, kernel_end, count>>
    BY <1>5 DEF Ended, vars, pagingVars
  <2> QED BY <2>1, TablesKept
<1> QED BY <1>1, <1>2, <1>3, <1>4, <1>5 DEF Step

-----------------------------------------------------------------------------
\* The TLB.
LEMMA ImageThere ==
  ASSUME TablesInv, pc \in Running \ {"map"}, NEW va \in Image \cup {Stack}
  PROVE  va \in VAs /\ Walk(va) = Frame(va[2]) /\ Walk(va) # None
<1>1. HighMap(entry, npages) /\ npages \in 1..ENTRIES /\ ENTRIES \in Nat
  BY TablesAt DEF TablesInv, HigherHalf
<1>2. va = <<256, va[2]>> /\ va[2] \in 0..(npages - 1)
  BY <1>1, ImageFits DEF TablesInv, Stack
<1>3. entry[<<"pde2mb", va[2]>>] = Frame(va[2])
  BY <1>1, <1>2 DEF HighMap
<1>4. Walk(<<256, va[2]>>) = Frame(va[2])
  BY <1>1, <1>3, WalkHigh, Distinct DEF HighMap
<1>5. va[2] \in 0..(ENTRIES - 1)
  BY <1>1, <1>2
<1>6. <<256, va[2]>> \in VAs
  BY <1>5, HasVAs
<1> QED BY <1>2, <1>4, <1>6, Distinct

\* The low addresses do not need the TLB until start64 reuses their directory,
\* and cannot do without it afterwards.
LEMMA LowThere ==
  ASSUME TablesInv
  PROVE  /\ pc \in {"trampoline", "reuse_pml4", "reuse_pdpte", "reuse_pde"} => Walk(Low) # None
         /\ pc \in {"unmap", "clear"} => Walk(Low) = None
<1>1. CASE pc \in {"trampoline", "reuse_pml4", "reuse_pdpte", "reuse_pde"}
  <2>1. /\ entry[<<"pml4", 0>>] = Table("pdpte") /\ entry[<<"pde", 0>>] = Frame(0)
        /\ entry[<<"pdpte", 0>>] = Table("pde")
    BY <1>1 DEF TablesInv, LowHalf, ReservedArea, Identity, Running
  <2>2. Walk(Low) = Frame(0)
    BY <2>1, WalkIdentity
  <2> QED BY <1>1, <2>2, Distinct
<1>2. CASE pc = "unmap"
  <2>1. /\ entry[<<"pml4", 0>>] = Table("pdpte") /\ entry[<<"pde", 0>>] = Table("pte")
        /\ entry[<<"pdpte", 0>>] = Table("pde")
    BY <1>2 DEF TablesInv, LowHalf, ReservedArea, Reserved, Running
  <2> QED BY <1>2, <2>1, WalkIdentity
<1>3. CASE pc = "clear"
  <2>1. entry[<<"pml4", 0>>] = None
    BY <1>3 DEF TablesInv, LowHalf
  <2> QED BY <1>3, <2>1, WalkLow DEF Low
<1> QED BY <1>1, <1>2, <1>3

LEMMA CachedCoherent ==
  ASSUME NEW uses, tlb' = Cached(uses), UNCHANGED <<entry, m>>
  PROVE  DOMAIN tlb' = VAs /\ (Coherent => Coherent')
<1>1. ASSUME NEW va \in VAs PROVE Walk(va)' = Walk(va)
  BY DEF Walk, Through
<1>2. \A va \in VAs : tlb'[va] = IF va \in uses THEN Translation(va) ELSE tlb[va]
  BY DEF Cached
<1> QED BY <1>1, <1>2 DEF Cached, Coherent, Translation

\* Mapping the APIC changes what one address leads to, and invlpg takes care of
\* that one.
LEMMA ApicCoherent ==
  ASSUME TablesInv, TlbInv, MapsApic
  PROVE  DOMAIN tlb' = VAs /\ Coherent'
<1>1. PICK uses : tlb' = [Cached(uses) EXCEPT ![LapicVA] = None]
  BY DEF MapsApic
<1>2. /\ \A va \in VAs : va # LapicVA =>
           tlb'[va] = IF va \in uses THEN Translation(va) ELSE tlb[va]
      /\ tlb'[LapicVA] = None
      /\ DOMAIN tlb' = VAs
  BY <1>1, HasVAs DEF Cached
<1>3. /\ pc \in InMain \cap AfterDirectMap /\ m' = m
      /\ \A s \in Slots : s # <<"pte", 0>> => entry'[s] = entry[s]
  BY HasSlots, StoreOne DEF MapsApic, TablesInv, InMain, AfterDirectMap
<1>4. ASSUME NEW va \in VAs, va # LapicVA PROVE Walk(va)' = Walk(va)
  <2> DEFINE d == va[2]
  <2>1. CASE va[1] = 273
    <3>1. entry[<<"pml4", 273>>] = Table("pages") /\ entry'[<<"pml4", 273>>] = Table("pages")
      BY <1>3, HasSlots DEF TlbInv
    <3>2. d \in {0, 1}
      BY <2>1 DEF VAs
    <3>3. entry'[<<"pages", d>>] = entry[<<"pages", d>>]
      BY <1>3, <3>2, HasSlots
    <3> QED BY <1>3, <2>1, <3>1, <3>3, Distinct DEF Walk, Through
  <2>2. CASE va[1] = 0
    <3>1. entry[<<"pml4", 0>>] = None /\ entry'[<<"pml4", 0>>] = None
      BY <1>3, HasSlots DEF TablesInv, LowHalf, Handed
    <3> QED BY <2>2, <3>1 DEF Walk, Through, None, Table
  <2>3. CASE va[1] = 256
    <3>1. HighMap(entry, npages)
      BY <1>3 DEF TablesInv, HigherHalf, Running, Reserved, Handed, InMain
    <3>2. /\ entry[<<"pml4", 256>>] = Table("pdpte2mb") /\ entry'[<<"pml4", 256>>] = Table("pdpte2mb")
          /\ entry[<<"pdpte2mb", 0>>] = Table("pde2mb") /\ entry'[<<"pdpte2mb", 0>>] = Table("pde2mb")
      BY <1>3, <3>1, HasSlots DEF HighMap
    <3>3. d \in 0..(ENTRIES - 1)
      BY <2>3 DEF VAs
    <3>4. entry'[<<"pde2mb", d>>] = entry[<<"pde2mb", d>>]
      BY <1>3, <3>3, HasPages
    <3> QED BY <2>3, <3>2, <3>4, Distinct DEF Walk, Through
  <2>4. CASE va[1] = 257
    <3>1. /\ entry[<<"pml4", 257>>] = Table("pdpte") /\ entry'[<<"pml4", 257>>] = Table("pdpte")
          /\ entry[<<"pdpte", 0>>] = Table("pde") /\ entry'[<<"pdpte", 0>>] = Table("pde")
      BY <1>3, HasSlots DEF TablesInv, ReservedArea, Running, Reserved, Handed
    <3>2. d \in 1..(ENTRIES - 1) /\ d \in 0..(ENTRIES - 1)
      <4>1. d \in 0..(ENTRIES - 1) /\ va = <<257, d>>
        BY <2>4 DEF VAs
      <4>2. d # 0
        BY <1>4, <4>1 DEF LapicVA
      <4> QED BY <4>1, <4>2, BootPagingAssumption
    <3>3. entry[<<"pde", d>>] = None
      BY <1>3, <3>2 DEF TablesInv, ReservedArea, Handed
    <3>4. entry'[<<"pde", d>>] = None
      BY <1>3, <3>2, <3>3, HasPages
    <3> QED BY <2>4, <3>1, <3>3, <3>4, Distinct DEF Walk, Through
  <2> QED BY <2>1, <2>2, <2>3, <2>4 DEF VAs
<1>5. Coherent
  BY <1>3 DEF TlbInv
<1> QED BY <1>2, <1>4, <1>5 DEF Coherent, Translation

\* What start64 uses at each place; Goto asks for all of it.
LEMMA UsesOfStart64 ==
  /\ \A here \in {"trampoline", "reuse_pml4", "reuse_pdpte", "reuse_pde", "unmap", "clear"} :
       Low \in BootUses(here)
  /\ \A here \in Start64 : Uses(here) \subseteq Image \cup {Stack, Low}
  /\ \A here \in {"flush", "call"} : Uses(here) \subseteq Image \cup {Stack}
BY DEF Uses, BootUses, Start64

\* A fault in start64 takes a dropped translation.
LEMMA FaultTakesDrop ==
  ASSUME TablesInv, TlbInv, Fault, pc \in Start64
  PROVE  dropped
<1>1. PICK va \in Uses(pc) : Translation(va) = None
  BY DEF Fault, Start64
<1>2. pc \in Running \ {"map"}
  BY DEF Start64, Running, Identity, Reserved, Handed
<1>3. Walk(va) = None /\ tlb[va] = None
  BY <1>1 DEF Translation
<1>4. va \notin Image \cup {Stack}
  BY <1>2, <1>3, ImageThere
<1>5. va = Low /\ pc \notin {"flush", "call"}
  BY <1>1, <1>4, UsesOfStart64
<1>6. pc \in {"unmap", "clear"}
  BY <1>3, <1>5, LowThere DEF Start64
<1> QED BY <1>3, <1>5, <1>6 DEF TlbInv

LEMMA TlbInit == Init => TlbInv
BY DEF Init, PagingInit, TlbInv, InMain, Start64, AfterDirectMap

LEMMA TlbBoot ==
  ASSUME TablesInv, TlbInv, BootStep, at' = at
  PROVE  TlbInv'
<1> USE DEF TlbInv, InMain, AfterDirectMap
<1>1. CASE Halt32
  BY <1>1 DEF Halt32, pagingVars
<1>2. CASE BootTables
  BY <1>2 DEF BootTables
<1>3. CASE MapPage
  BY <1>3 DEF MapPage
<1>4. CASE SetPaging
  BY <1>4 DEF SetPaging, Goto, pagingVars
<1>5. CASE Trampoline
  BY <1>5 DEF Trampoline, Goto, Cached
<1>6. ASSUME NEW here \in {"reuse_pml4", "reuse_pdpte", "reuse_pde", "unmap", "clear"},
             NEW slot, NEW value,
             NEW there \in {"reuse_pdpte", "reuse_pde", "unmap", "clear", "flush"},
             Store(here, slot, value, there)
      PROVE  TlbInv'
  <2>1. Low \in BootUses(here) /\ Low \in VAs
    BY UsesOfStart64, HasVAs
  <2>2. tlb'[Low] # None
    BY <1>6, <2>1 DEF Store, Goto, Cached
  <2>3. DOMAIN tlb' = VAs /\ pc' = there /\ dropped' = dropped
    BY <1>6 DEF Store, Goto, Cached
  <2> QED BY <2>2, <2>3
<1>7. CASE ReuseTables
  BY <1>6, <1>7 DEF ReuseTables
<1>8. CASE Unmap
  BY <1>6, <1>8 DEF Unmap
<1>9. CASE ClearPage
  BY <1>6, <1>9 DEF ClearPage
<1>10. CASE FlushCr3
  <2>1. /\ pc' = "call" /\ dropped' = dropped
        /\ DOMAIN tlb' = VAs /\ \A va \in VAs : tlb'[va] = None
    BY <1>10 DEF FlushCr3, Goto, FlushTlb
  <2> QED BY <2>1 DEF Coherent
<1>11. CASE CallMain
  <2>1. /\ pc = "call" /\ pc' = "main" /\ UNCHANGED <<entry, m, dropped>>
        /\ tlb' = Cached(BootUses("call"))
    BY <1>11 DEF CallMain, Goto
  <2>2. DOMAIN tlb' = VAs /\ Coherent'
    BY <2>1, CachedCoherent
  <2> QED BY <2>1, <2>2
<1> QED BY <1>1, <1>2, <1>3, <1>4, <1>5, <1>7, <1>8, <1>9, <1>10, <1>11 DEF BootStep

LEMMA TlbMain ==
  ASSUME TablesInv, TlbInv, MainStep
  PROVE  TlbInv'
<1>0. (Quiet \/ MapsApic \/ DirectMap) /\ at' = at
  BY MainSteps
<1>1. CASE Quiet
  <2>1. Coherent /\ pc' \notin {"unmap", "clear"} /\ UNCHANGED <<entry, m, dropped>>
    BY <1>1 DEF Quiet, TlbInv, InMain, Final
  <2>2. DOMAIN tlb' = VAs /\ Coherent'
    BY <1>1, <2>1, CachedCoherent DEF Quiet
  <2> QED BY <1>0, <1>1, <2>1, <2>2 DEF Quiet, TlbInv
<1>2. CASE MapsApic
  <2>1. DOMAIN tlb' = VAs /\ Coherent'
    BY <1>2, ApicCoherent
  <2> QED BY <1>0, <1>2, <2>1 DEF MapsApic, TlbInv, AfterDirectMap
<1>3. CASE DirectMap
  <2>1. /\ pc' = "vmm" /\ dropped' = dropped
        /\ DOMAIN tlb' = VAs /\ \A va \in VAs : tlb'[va] = None
        /\ entry'[<<"pml4", 273>>] = Table("pages")
    BY <1>3, HasSlots DEF DirectMap, Goto, FlushTlb, TablesInv
  <2> QED BY <1>0, <2>1 DEF TlbInv, Coherent
<1> QED BY <1>0, <1>1, <1>2, <1>3

\* The processor may drop the translation start64 lives on, and is then found
\* out by the history variable.
LEMMA TlbProcessor ==
  ASSUME TablesInv, TlbInv, Processor
  PROVE  TlbInv'
<1>0. PICK va \in VAs : Load(va) \/ Evict(va)
  BY DEF Processor
<1>1. UNCHANGED <<pc, at, entry, m>>
  BY <1>0 DEF Processor, Load, Evict, mainVars
<1>2. ASSUME NEW a \in VAs PROVE Walk(a)' = Walk(a)
  BY <1>1 DEF Walk, Through
<1>3. CASE Load(va)
  BY <1>1, <1>2, <1>3 DEF Load, TlbInv, Coherent
<1>4. CASE Evict(va)
  <2>1. /\ DOMAIN tlb' = VAs /\ tlb'[va] = None
        /\ \A a \in VAs : a # va => tlb'[a] = tlb[a]
        /\ dropped' = (dropped \/ Walk(va) # tlb[va])
        /\ tlb[va] # None
    BY <1>4 DEF Evict, TlbInv
  <2>2. Coherent => Coherent'
    BY <1>2, <2>1 DEF Coherent
  <2>3. dropped' \in BOOLEAN /\ (dropped => dropped')
    BY <2>1 DEF TlbInv
  <2>4. pc \in {"unmap", "clear"} => dropped' \/ tlb'[Low] # None
    <3>1. CASE va = Low
      BY <2>1, <3>1, LowThere
    <3>2. CASE va # Low
      BY <2>1, <2>3, <3>2, HasVAs DEF TlbInv
    <3> QED BY <3>1, <3>2
  <2> QED BY <1>1, <2>1, <2>2, <2>3, <2>4 DEF TlbInv
<1> QED BY <1>0, <1>3, <1>4

LEMMA BootNext == BootInv /\ [Step \/ Processor \/ Ended]_vars => BootInv'
<1> SUFFICES ASSUME TablesInv, TlbInv, [Step \/ Processor \/ Ended]_vars
             PROVE  TablesInv' /\ TlbInv'
  BY DEF BootInv
<1>1. CASE BootStep /\ UNCHANGED mainVars
  BY <1>1, TablesNext, TlbBoot DEF Step, mainVars
<1>2. CASE MainStep
  BY <1>2, TablesNext, TlbMain DEF Step
<1>3. CASE Fault
  <2>1. pc' = "fault" /\ at' = pc /\ UNCHANGED <<tlb, dropped>>
    BY <1>3 DEF Fault, pagingVars
  <2>2. at' \in Start64 => dropped
    BY <1>3, <2>1, FaultTakesDrop
  <2>3. TlbInv'
    BY <2>1, <2>2 DEF TlbInv, InMain, AfterDirectMap
  <2> QED BY <1>3, <2>3, TablesNext DEF Step
<1>4. CASE Processor
  BY <1>4, TablesNext, TlbProcessor
<1>5. CASE UNCHANGED vars
  <2>1. UNCHANGED <<pc, entry, kernel_end, count, tlb, m, dropped, at>>
    BY <1>5 DEF vars, pagingVars, mainVars
  <2>2. TablesInv'
    BY <2>1, TablesKept
  <2>3. ASSUME NEW a \in VAs PROVE Walk(a)' = Walk(a)
    BY <2>1 DEF Walk, Through
  <2>4. TlbInv'
    BY <2>1, <2>3 DEF TlbInv, Coherent
  <2> QED BY <2>2, <2>4
<1> QED BY <1>1, <1>2, <1>3, <1>4, <1>5 DEF Step, Ended

LEMMA BootInit == Init => BootInv
BY TablesInit, TlbInit DEF BootInv

-----------------------------------------------------------------------------
LEMMA InvHandsOver == BootInv => HandsOver
<1> SUFFICES ASSUME TablesInv, TlbInv, pc \in InMain
             PROVE  /\ \A va \in Image : Translation(va) = Frame(va[2])
                    /\ \A d \in 0..(ENTRIES - 1) :
                         /\ Translation(<<0, d>>) = None
                         /\ Translation(<<257, d>>) = IF d = 0 THEN entry[<<"pte", 0>>] ELSE None
  BY DEF BootInv, HandsOver
<1>1. \A va \in VAs : Translation(va) = Walk(va)
  BY DEF TlbInv, Coherent, Translation
<1>2. ASSUME NEW va \in Image PROVE Translation(va) = Frame(va[2])
  <2>1. pc \in Running \ {"map"}
    BY DEF Running, Reserved, Handed, InMain
  <2> QED BY <1>1, <2>1, ImageThere
<1>3. ASSUME NEW d \in 0..(ENTRIES - 1) PROVE Translation(<<0, d>>) = None
  <2>1. entry[<<"pml4", 0>>] = None
    BY DEF TablesInv, LowHalf, Handed
  <2> QED BY <1>1, <2>1, WalkLow, HasVAs
<1>4. ASSUME NEW d \in 0..(ENTRIES - 1)
      PROVE  Translation(<<257, d>>) = IF d = 0 THEN entry[<<"pte", 0>>] ELSE None
  <2>1. /\ entry[<<"pml4", 257>>] = Table("pdpte") /\ entry[<<"pdpte", 0>>] = Table("pde")
        /\ entry[<<"pde", 0>>] = Table("pte")
    BY DEF TablesInv, ReservedArea, Running, Reserved, Handed
  <2>2. Translation(<<257, d>>) = IF entry[<<"pde", d>>] = Table("pte") THEN entry[<<"pte", 0>>]
                                  ELSE entry[<<"pde", d>>]
    BY <1>1, <2>1, WalkReserved, HasVAs
  <2>3. CASE d = 0
    BY <2>1, <2>2, <2>3
  <2>4. CASE d # 0
    <3>1. d \in 1..(ENTRIES - 1)
      BY <2>4, BootPagingAssumption
    <3>2. entry[<<"pde", d>>] = None
      BY <3>1 DEF TablesInv, ReservedArea, Handed
    <3> QED BY <2>2, <2>4, <3>2, Distinct
  <2> QED BY <2>3, <2>4
<1> QED BY <1>2, <1>3, <1>4

\* start64.S hands over the image in the higher half, empty low addresses and
\* an empty reserved area, in tables of any size, for an image of any length
\* the directory holds, whatever the processor keeps in its TLB.
THEOREM MainFindsTheMap == Spec => []HandsOver
<1>1. Spec => []BootInv
  BY BootInit, BootNext, PTL DEF Spec
<1> QED BY <1>1, InvHandsOver, PTL

\* The stores of start64.S into the identity map they take away fault only if
\* the processor drops the translation of the low addresses in between.
THEOREM StoresNeedTheTlbOnly == Spec => []FaultsOnlyIfDropped
<1>1. BootInv => FaultsOnlyIfDropped
  BY DEF BootInv, TlbInv, FaultsOnlyIfDropped
<1> QED BY <1>1, BootInit, BootNext, PTL DEF Spec

-----------------------------------------------------------------------------
\* The memory types.  cpu_setupmem clears the pairs from the first one on.
Untouched == {"start", "main", "features", "getinfo"} \cup (Running \ InMain)
Ranges(first) == first..(m.pairs - 1)
WriteBack(first) == [on |-> 1, fixed |-> 0, type |-> 6, ranges |-> Ranges(first)]
MtrrInv ==
  /\ m \in Machines
  /\ pc \in Untouched => mtrr = [on |-> 1, fixed |-> 1, type |-> 0, ranges |-> Ranges(0)]
  /\ pc = "mtrr" =>
       \/ count = 0 /\ mtrr = [on |-> 1, fixed |-> 1, type |-> 0, ranges |-> Ranges(0)]
       \/ count \in 1..10 /\ mtrr = WriteBack(count - 1)
  /\ PatDecides

LEMMA WriteBackType ==
  ASSUME NEW r
  PROVE  DefType(MTRR_ENABLE_WB, r) = [on |-> 1, fixed |-> 0, type |-> 6, ranges |-> r]
<1>1. 2054 \div 2048 = 1 /\ 2054 \div 1024 = 2 /\ 2054 % 256 = 6 /\ 1 % 2 = 1 /\ 2 % 2 = 0
  OBVIOUS
<1> QED BY <1>1 DEF DefType, Bit, MTRR_ENABLE_WB

LEMMA MtrrInit == Init => MtrrInv
BY DEF Init, PagingInit, MtrrInv, Untouched, Ranges, PatDecides, InMain

\* The steps of main other than the two that write MTRRs.
LEMMA MtrrSteps ==
  ASSUME MainStep
  PROVE  /\ pc \in InMain /\ m' = m
         /\ \/ mtrr' = mtrr /\ pc = "getinfo" /\ pc' = "mtrr" /\ count' = 0
            \/ mtrr' = mtrr /\ pc \in {"main", "features"} /\ pc' \in {"features", "getinfo"} \cup Final
            \/ mtrr' = mtrr /\ pc \notin {"main", "features", "getinfo", "mtrr"}
               /\ pc' \in (InMain \ {"main", "features", "getinfo", "mtrr"}) \cup Final
            \/ SetDefType \/ ClearRange
<1> USE DEF Then, Goto, InMain, Final, mainVars
<1>1. CASE Main \/ CheckFeatures
  BY <1>1 DEF Main, CheckFeatures, Panic
<1>2. CASE GetInfo
  BY <1>2 DEF GetInfo
<1>3. CASE SetDefType \/ ClearRange
  BY <1>3 DEF SetDefType, ClearRange
<1>4. CASE ParseInfo \/ ParseMmap
  BY <1>4 DEF ParseInfo, ParseMmap, Panic
<1>5. CASE DirectMap \/ VmmInit \/ PageInit
  BY <1>5 DEF DirectMap, VmmInit, PageInit
<1>6. CASE IrqDisableLegacy \/ ReadId \/ WriteSvr
  BY <1>6 DEF IrqDisableLegacy, ReadId, WriteSvr
<1>7. CASE LapicInit \/ IrqInit
  BY <1>7 DEF LapicInit, IrqInit, Panic
<1> QED BY <1>1, <1>2, <1>3, <1>4, <1>5, <1>6, <1>7 DEF MainStep

LEMMA MtrrMain ==
  ASSUME \A x \in Machines : x.pairs \in 0..10,
         MtrrInv, MainStep
  PROVE  MtrrInv'
<1>1. pc \in InMain /\ m' = m /\ m.pairs \in 0..10
  BY MtrrSteps DEF MtrrInv
<1>2. CASE mtrr' = mtrr /\ pc = "getinfo" /\ pc' = "mtrr" /\ count' = 0
  BY <1>1, <1>2 DEF MtrrInv, Untouched, InMain, Ranges, PatDecides, Running, Identity, Reserved, Handed
<1>3. CASE mtrr' = mtrr /\ pc \in {"main", "features"} /\ pc' \in {"features", "getinfo"} \cup Final
  BY <1>1, <1>3 DEF MtrrInv, Untouched, InMain, Final, Ranges, PatDecides
<1>4. CASE /\ mtrr' = mtrr /\ pc \notin {"main", "features", "getinfo", "mtrr"}
           /\ pc' \in (InMain \ {"main", "features", "getinfo", "mtrr"}) \cup Final
  BY <1>1, <1>4 DEF MtrrInv, Untouched, InMain, Final, PatDecides, Running, Identity, Reserved, Handed
<1>5. CASE SetDefType
  <2>1. pc = "mtrr" /\ pc' = "mtrr" /\ count = 0 /\ count' = 1
        /\ mtrr' = DefType(MTRR_ENABLE_WB, mtrr.ranges)
    BY <1>5 DEF SetDefType, Then, Goto
  <2>2. mtrr.ranges = Ranges(0)
    BY <2>1 DEF MtrrInv
  <2>3. mtrr' = [on |-> 1, fixed |-> 0, type |-> 6, ranges |-> Ranges(0)]
    BY <2>1, <2>2, WriteBackType
  <2> QED BY <1>1, <2>1, <2>3
          DEF MtrrInv, WriteBack, Ranges, Untouched, InMain, PatDecides, Running, Identity, Reserved, Handed
<1>6. CASE ClearRange
  <2>1. /\ pc = "mtrr" /\ pc' = (IF count = 10 THEN "info" ELSE "mtrr")
        /\ count > 0 /\ count - 1 < m.pairs /\ count' = count + 1
        /\ mtrr' = [mtrr EXCEPT !.ranges = @ \ {count - 1}]
    BY <1>6 DEF ClearRange, Then, Goto
  <2>2. count \in 1..10 /\ mtrr = WriteBack(count - 1)
    BY <2>1 DEF MtrrInv
  <2>3. Ranges(count - 1) \ {count - 1} = Ranges(count)
    BY <1>1, <2>1, <2>2 DEF Ranges
  <2>4. mtrr' = WriteBack(count)
    BY <2>1, <2>2, <2>3 DEF WriteBack
  <2>5. CASE count = 10
    <3>1. Ranges(count) = {}
      BY <1>1, <2>5 DEF Ranges
    <3> QED BY <1>1, <2>1, <2>4, <2>5, <3>1
            DEF MtrrInv, WriteBack, Untouched, InMain, PatDecides, Running, Identity, Reserved, Handed
  <2>6. CASE count # 10
    <3>1. count' \in 1..10 /\ count' - 1 = count
      BY <2>1, <2>2, <2>6
    <3> QED BY <1>1, <2>1, <2>4, <2>6, <3>1
            DEF MtrrInv, WriteBack, Ranges, Untouched, InMain, PatDecides, Running, Identity, Reserved, Handed
  <2> QED BY <2>5, <2>6
<1> QED BY <1>2, <1>3, <1>4, <1>5, <1>6, MtrrSteps

LEMMA MtrrNext ==
  ASSUME \A x \in Machines : x.pairs \in 0..10,
         MtrrInv, [Step \/ Processor \/ Ended]_vars
  PROVE  MtrrInv'
<1> USE DEF MtrrInv, Ranges, WriteBack, PatDecides
<1>1. CASE BootStep /\ UNCHANGED mainVars
  <2>1. pc \in Untouched /\ UNCHANGED <<m, mtrr>> /\ pc' \in Untouched \cup Final
    <3>1. UNCHANGED <<m, mtrr>>
      BY <1>1 DEF mainVars, BootStep, Halt32, BootTables, MapPage, SetPaging, Trampoline,
         ReuseTables, Store, Unmap, ClearPage, FlushCr3, CallMain, pagingVars
    <3>2. pc \in Untouched /\ pc' \in Untouched \cup Final
      BY <1>1 DEF BootStep, Halt32, BootTables, MapPage, SetPaging, Trampoline, ReuseTables,
         Store, Goto, Unmap, ClearPage, FlushCr3, CallMain, Untouched, Running, Identity,
         Reserved, Handed, InMain, Final
    <3> QED BY <3>1, <3>2
  <2>2. pc' \notin InMain \ {"main", "features", "getinfo"}
    BY <2>1 DEF Untouched, InMain, Final, Running, Identity, Reserved, Handed
  <2> QED BY <2>1, <2>2 DEF Untouched, Final, InMain
<1>2. CASE MainStep
  BY <1>2, MtrrMain
<1>3. CASE Fault
  BY <1>3 DEF Fault, pagingVars, Untouched, InMain, Running, Identity, Reserved, Handed
<1>4. CASE Processor
  <2>1. UNCHANGED <<pc, m, mtrr, count>>
    BY <1>4 DEF Processor, Load, Evict, mainVars
  <2> QED BY <2>1
<1>5. CASE UNCHANGED vars
  <2>1. UNCHANGED <<pc, m, mtrr, count>>
    BY <1>5 DEF vars, pagingVars, mainVars
  <2> QED BY <2>1
<1> QED BY <1>1, <1>2, <1>3, <1>4, <1>5 DEF Step, Ended

\* On every processor with up to ten pairs of MTRRs (with fewer it faults
\* before), nothing but the page tables decides about memory types once
\* cpu_setupmem is through.
THEOREM PageTablesDecide ==
  ASSUME \A x \in Machines : x.pairs \in 0..10
  PROVE  Spec => []PatDecides
<1>1. MtrrInv /\ [Step \/ Processor \/ Ended]_vars => MtrrInv'
  BY MtrrNext
<1>2. MtrrInv => PatDecides
  BY DEF MtrrInv
<1> QED BY <1>1, <1>2, MtrrInit, PTL DEF Spec

-----------------------------------------------------------------------------
\* What main's own steps rely on.  The mask of lapic_init covers every address
\* bit the processor has; the direct map has its first page; the APIC's page is
\* mapped by the time its registers are touched.
Late == {"lapicr", "lapicw", "irqret"}
Explained ==
  \/ m.pairs # 10 \/ ~m.huge
  \/ (at \in {"info", "mmap"} /\ \E d \in m.info : d >= npages)
  \/ (at = "pages" /\ m.memory # {0})

MainInv ==
  /\ m \in Machines
  /\ pc \in InMain \ {"main", "features", "getinfo"} => pmax = m.pmax
  /\ pc = "mtrr" => count \in 0..10
  /\ pc \in AfterDirectMap => entry[<<"pages", 0>>] = Frame(0)
  /\ pc \in {"lapic"} \cup Late => pic = "masked"
  /\ pc \in Late => m.apic = ApicBase /\ entry[<<"pte", 0>>] = Device(m.apic)
  /\ at \in {"none", "mtrr", "info", "mmap", "pages"} \cup Start64
  /\ at \in InMain => Explained

LEMMA MainInit == Init => MainInv
BY DEF Init, PagingInit, MainInv, InMain, AfterDirectMap, Late

\* lapic_init compares all of the address: no bit above 4 GiB escapes it.
LEMMA MaskCoversAddress ==
  ASSUME m \in Machines, pmax = m.pmax, AcceptedAddress = ApicBase
  PROVE  m.apic = ApicBase
<1>1. m.apic.low = "FEE00" /\ m.apic.high \cap Mask = {}
  BY DEF AcceptedAddress, ApicBase
<1>2. \A b \in m.apic.high : b \in 0..31 /\ 32 + b < pmax /\ pmax \in Nat
  BY MachinesAssumption
<1>3. ASSUME NEW b \in m.apic.high PROVE b \in Mask
  BY <1>2 DEF Mask, Rounds
<1>4. m.apic.high = {}
  BY <1>1, <1>3
<1> QED BY <1>1, <1>4, MachinesAssumption DEF ApicBase

\* boot.S and start64.S leave alone what MainInv is about.
LEMMA MainBoot ==
  ASSUME MainInv, BootStep, UNCHANGED mainVars
  PROVE  MainInv'
<1>1. m' = m /\ kernel_end' = kernel_end
  BY DEF BootStep, Halt32, BootTables, MapPage, SetPaging, Trampoline, ReuseTables,
         Store, Unmap, ClearPage, FlushCr3, CallMain, pagingVars
<1>2. pc' \notin InMain \ {"main"}
  BY DEF BootStep, Halt32, BootTables, MapPage, SetPaging, Trampoline, ReuseTables,
         Store, Goto, Unmap, ClearPage, FlushCr3, CallMain, InMain
<1> QED BY <1>1, <1>2 DEF MainInv, mainVars, Explained, npages, InMain, AfterDirectMap, Late

LEMMA MainMain ==
  ASSUME TablesInv, MainInv, MainStep
  PROVE  MainInv'
<1>0. m' = m /\ npages' = npages /\ at' = at
  <2>1. m' = m /\ kernel_end' = kernel_end
    BY MainSteps DEF Quiet, MapsApic, DirectMap
  <2> QED BY <2>1, MainSteps DEF npages
<1> USE DEF MainInv, Explained, InMain, AfterDirectMap, Late, Final, Then, Goto, mainVars
<1>1. CASE Main
  BY <1>0, <1>1 DEF Main
<1>2. CASE CheckFeatures
  BY <1>0, <1>2 DEF CheckFeatures, Panic
<1>3. CASE GetInfo
  BY <1>0, <1>3 DEF GetInfo
<1>4. CASE SetDefType
  BY <1>0, <1>4 DEF SetDefType
<1>5. CASE ClearRange
  BY <1>0, <1>5 DEF ClearRange
<1>6. CASE ParseInfo
  BY <1>0, <1>6 DEF ParseInfo
<1>7. CASE ParseMmap
  BY <1>0, <1>7 DEF ParseMmap, Panic
<1>8. CASE DirectMap
  <2>1. entry'[<<"pages", 0>>] = Frame(0)
    BY <1>8, HasSlots DEF DirectMap, TablesInv
  <2> QED BY <1>0, <1>8, <2>1 DEF DirectMap
<1>9. CASE VmmInit
  BY <1>0, <1>9 DEF VmmInit
<1>10. CASE PageInit
  BY <1>0, <1>10 DEF PageInit
<1>11. CASE IrqDisableLegacy
  BY <1>0, <1>11 DEF IrqDisableLegacy
<1>12. CASE LapicInit
  <2>1. CASE AcceptedAddress # ApicBase
    BY <1>0, <1>12, <2>1 DEF LapicInit, Panic
  <2>2. CASE AcceptedAddress = ApicBase
    <3>1. pc = "lapic" /\ pc' = "lapicr" /\ UNCHANGED <<pmax, pic, why>>
          /\ entry' = [entry EXCEPT ![<<"pte", 0>>] = Device(m.apic)]
      BY <1>12, <2>2 DEF LapicInit, Panic
    <3>2. entry'[<<"pte", 0>>] = Device(m.apic)
      BY <3>1, HasSlots DEF TablesInv
    <3>3. m.apic = ApicBase
      BY <2>2, <3>1, MaskCoversAddress
    <3> QED BY <1>0, <3>1, <3>2, <3>3
  <2> QED BY <2>1, <2>2
<1>13. CASE ReadId
  BY <1>0, <1>13 DEF ReadId
<1>14. CASE WriteSvr
  BY <1>0, <1>14 DEF WriteSvr
<1>15. CASE IrqInit
  BY <1>0, <1>15 DEF IrqInit, Panic
<1> QED BY <1>1, <1>2, <1>3, <1>4, <1>5, <1>6, <1>7, <1>8, <1>9, <1>10, <1>11, <1>12, <1>13,
           <1>14, <1>15 DEF MainStep

\* Which accesses of main can fault: through the tables, the image and the stack
\* are always there.
LEMMA MainFaults ==
  ASSUME BootInv, MainInv, Fault, pc \in InMain
  PROVE  pc \in {"mtrr", "info", "mmap", "pages"} /\ Explained'
<1>1. UNCHANGED <<m, kernel_end, entry>> /\ at' = pc /\ npages' = npages
  BY DEF Fault, pagingVars, npages
<1>2. TablesInv /\ TlbInv /\ \A va \in VAs : Translation(va) = Walk(va)
  BY DEF BootInv, TlbInv, Coherent, Translation
<1>3. \A va \in Image \cup {Stack} : Translation(va) # None
  BY <1>2, ImageThere DEF Running, Reserved, Handed, InMain
<1>4. CASE pc = "mtrr" /\ count > 0 /\ count - 1 >= m.pairs
  <2>1. m.pairs # 10
    BY <1>4 DEF MainInv
  <2> QED BY <1>1, <1>4, <2>1 DEF Explained
<1>5. ASSUME NEW va \in Uses(pc), Translation(va) = None
      PROVE  pc \in {"mtrr", "info", "mmap", "pages"} /\ Explained'
  <2>1. va \notin Image \cup {Stack}
    BY <1>3, <1>5
  <2>2. CASE pc \in {"info", "mmap"}
    <3>1. PICK d \in m.info : va = <<256, d>>
      BY <1>5, <2>1, <2>2 DEF Uses
    <3>2. d \in Nat
      BY <3>1, MachinesAssumption DEF MainInv
    <3>3. ASSUME d < npages PROVE FALSE
      <4>1. HighMap(entry, npages) /\ npages \in 1..ENTRIES /\ ENTRIES \in Nat
        BY <1>2, <2>2, TablesAt DEF TablesInv, HigherHalf, Running, Identity, Reserved, Handed, InMain
      <4>2. d \in 0..(npages - 1) /\ d \in 0..(ENTRIES - 1)
        BY <3>2, <3>3, <4>1
      <4>3. Walk(va) = Frame(d)
        <5>1. /\ entry[<<"pml4", 256>>] = Table("pdpte2mb")
              /\ entry[<<"pdpte2mb", 0>>] = Table("pde2mb")
              /\ entry[<<"pde2mb", d>>] = Frame(d)
          BY <4>1, <4>2 DEF HighMap
        <5>2. Frame(d) # Table("pte")
          BY Distinct
        <5> QED BY <3>1, <5>1, <5>2, WalkHigh
      <4>4. va \in VAs
        BY <3>1, <4>2, HasVAs
      <4> QED BY <1>2, <1>5, <4>3, <4>4, Distinct
    <3>4. npages \in Nat
      BY <1>2, TablesAt
    <3> QED BY <1>1, <2>2, <3>2, <3>3, <3>4 DEF Explained
  <2>3. CASE pc = "pages"
    <3>1. PICK g \in m.memory : va = <<273, g>>
      BY <1>5, <2>1, <2>3 DEF Uses
    <3>2. ASSUME m.memory = {0}, m.huge PROVE FALSE
      <4>1. va = <<273, 0>> /\ va \in VAs
        BY <3>1, <3>2 DEF VAs
      <4>2. entry[<<"pml4", 273>>] = Table("pages") /\ entry[<<"pages", 0>>] = Frame(0)
        BY <1>2, <2>3 DEF TlbInv, MainInv, AfterDirectMap
      <4>3. Walk(va) = Frame(0)
        BY <3>2, <4>1, <4>2, Distinct DEF Walk, Through
      <4> QED BY <1>2, <1>5, <4>1, <4>3, Distinct
    <3> QED BY <1>1, <2>3, <3>2 DEF Explained
  <2>4. CASE pc \in {"lapicr", "lapicw"}
    <3>1. va = <<257, 0>> /\ va \in VAs
      BY <1>5, <2>1, <2>4, HasVAs DEF Uses, LapicVA
    <3>2. /\ entry[<<"pml4", 257>>] = Table("pdpte") /\ entry[<<"pdpte", 0>>] = Table("pde")
          /\ entry[<<"pde", 0>>] = Table("pte") /\ entry[<<"pte", 0>>] = Device(m.apic)
      BY <1>2, <2>4 DEF TablesInv, ReservedArea, MainInv, Running, Reserved, Handed, InMain, Late
    <3>3. Walk(va) = Device(m.apic)
      BY <3>1, <3>2, WalkReserved
    <3> QED BY <1>2, <1>5, <3>1, <3>3 DEF Device, None
  <2>5. CASE pc \notin {"info", "mmap", "pages", "lapicr", "lapicw"}
    <3>1. Uses(pc) \subseteq Image \cup {Stack}
      BY <2>5 DEF Uses, InMain
    <3> QED BY <1>5, <2>1, <3>1
  <2> QED BY <2>2, <2>3, <2>4, <2>5
<1> QED BY <1>4, <1>5 DEF Fault

LEMMA MainNext ==
  ASSUME BootInv, MainInv, [Step \/ Processor \/ Ended]_vars
  PROVE  MainInv'
<1>0. TablesInv /\ pc \in {"start"} \cup Running \cup Final
  BY DEF BootInv, TablesInv
<1>1. CASE BootStep /\ UNCHANGED mainVars
  BY <1>1, MainBoot
<1>2. CASE MainStep
  BY <1>0, <1>2, MainMain
<1>3. CASE Fault
  <2>1. /\ pc' = "fault" /\ at' = pc /\ UNCHANGED <<m, kernel_end, entry, pmax, pic, count>>
    BY <1>3 DEF Fault, pagingVars
  <2>2. pc \in InMain => pc \in {"mtrr", "info", "mmap", "pages"} /\ Explained'
    BY <1>3, MainFaults
  <2>3. pc \in InMain \cup Start64
    <3>1. pc \notin {"start", "map", "paging"} \cup Final
      BY <1>3 DEF Fault, Uses, BootUses, Final
    <3> QED BY <1>0, <3>1 DEF Running, Identity, Reserved, Handed, Start64
  <2> QED BY <2>1, <2>2, <2>3 DEF MainInv, InMain, AfterDirectMap, Late
<1>4. CASE Processor
  <2>1. UNCHANGED <<pc, m, kernel_end, entry, pmax, pic, count, at>>
    BY <1>4 DEF Processor, Load, Evict, mainVars
  <2> QED BY <2>1 DEF MainInv, Explained, npages
<1>5. CASE UNCHANGED vars
  <2>1. UNCHANGED <<pc, m, kernel_end, entry, pmax, pic, count, at>>
    BY <1>5 DEF vars, pagingVars, mainVars
  <2> QED BY <2>1 DEF MainInv, Explained, npages
<1> QED BY <1>1, <1>2, <1>3, <1>4, <1>5 DEF Step, Ended

LEMMA AlwaysMainInv == Spec => [](BootInv /\ MainInv)
BY BootInit, BootNext, MainInit, MainNext, PTL DEF Spec

\* For page tables and images of any size, on any machine with ten pairs of MTRRs
\* and pages of 1 GiB, main faults only on boot information behind the image's
\* map and on areas beyond the direct map.
THEOREM MainFaultsForAReason == Spec => []FaultsOnlyOnOthers
<1>1. MainInv => FaultsOnlyOnOthers
  BY DEF MainInv, Explained, FaultsOnlyOnOthers, InMain
<1> QED BY <1>1, AlwaysMainInv, PTL

\* Whatever the width of physical addresses and wherever the APIC is: lapic_init
\* goes on only with an APIC at the architectural address, and its registers
\* are reached through an uncached page.
THEOREM ApicAtItsAddress == Spec => []RegistersReached
<1>1. ASSUME BootInv, MainInv PROVE RegistersReached
  <2>1. SUFFICES ASSUME pc \in Late
                 PROVE  m.apic = ApicBase /\ Translation(LapicVA) = Device(ApicBase) /\ pic = "masked"
    BY DEF RegistersReached, Late
  <2>2. m.apic = ApicBase /\ entry[<<"pte", 0>>] = Device(m.apic) /\ pic = "masked"
    BY <1>1, <2>1 DEF MainInv
  <2>3. HandsOver
    BY <1>1, InvHandsOver
  <2>4. Translation(<<257, 0>>) = entry[<<"pte", 0>>]
    <3>1. pc \in InMain
      BY <2>1 DEF InMain, Late
    <3>2. 0 \in 0..(ENTRIES - 1)
      BY BootPagingAssumption
    <3> QED BY <2>3, <3>1, <3>2 DEF HandsOver
  <2> QED BY <2>2, <2>4 DEF LapicVA
<1> QED BY <1>1, AlwaysMainInv, PTL

-----------------------------------------------------------------------------
\* Types.  Each slot leads to one kind of thing only: that is what keeps the
\* processor's walks, and with them the TLB, from taking a table for a page.
Contents == Pages \cup {Table(t) : t \in {"pdpte", "pdpte2mb", "pde", "pde2mb", "pte", "pages"}}
Targets(s) ==
  CASE s \in {<<"pml4", 0>>, <<"pml4", 257>>} -> {None, Table("pdpte")}
    [] s = <<"pml4", 256>> -> {None, Table("pdpte2mb")}
    [] s = <<"pml4", 273>> -> {None, Table("pages")}
    [] s = <<"pdpte", 0>> -> {None, Table("pde")}
    [] s = <<"pdpte2mb", 0>> -> {None, Table("pde2mb")}
    [] s[1] = "pde" -> Pages \cup {Table("pte")}
    [] OTHER -> Pages

TypedTables == entry \in [Slots -> Contents] /\ \A s \in Slots : entry[s] \in Targets(s)
TypedMain ==
  /\ count \in 0..(ENTRIES + 10)
  /\ why \in {"none", "cpu", "memory", "lapic", "interrupts"}
  /\ pmax \in Nat /\ svr \in 0..255 /\ pic \in {"unmasked", "masked"}
  /\ mtrr.ranges \subseteq 0..(m.pairs - 1)
TypeInv == TypedTables /\ tlb \in [VAs -> Pages] /\ TypedMain

\* What the slots may hold, kind by kind.
LEMMA TargetsOf ==
  /\ Targets(<<"pml4", 0>>) = {None, Table("pdpte")}
  /\ Targets(<<"pml4", 257>>) = {None, Table("pdpte")}
  /\ Targets(<<"pml4", 256>>) = {None, Table("pdpte2mb")}
  /\ Targets(<<"pml4", 273>>) = {None, Table("pages")}
  /\ Targets(<<"pdpte", 0>>) = {None, Table("pde")}
  /\ Targets(<<"pdpte2mb", 0>>) = {None, Table("pde2mb")}
  /\ \A d : Targets(<<"pde", d>>) = Pages \cup {Table("pte")}
  /\ \A d : Targets(<<"pde2mb", d>>) = Pages
  /\ \A d : Targets(<<"pages", d>>) = Pages
  /\ Targets(<<"pte", 0>>) = Pages
BY DEF Targets

LEMMA TargetsTyped ==
  ASSUME NEW s \in Slots
  PROVE  None \in Targets(s) /\ None \in Pages /\ Targets(s) \subseteq Contents
BY DEF Targets, Contents, Pages

\* One store of a thing of the kind.
LEMMA StoreTyped ==
  ASSUME TypedTables, NEW slot \in Slots, NEW value \in Targets(slot), m' = m,
         entry' = [entry EXCEPT ![slot] = value]
  PROVE  TypedTables'
<1>1. Pages' = Pages
  BY DEF Pages
<1>2. Contents' = Contents /\ \A s : Targets(s)' = Targets(s)
  BY <1>1 DEF Contents, Targets
<1>3. value \in Contents
  BY TargetsTyped
<1>4. entry' \in [Slots -> Contents]
  BY <1>3 DEF TypedTables
<1>5. \A s \in Slots : entry'[s] \in Targets(s)
  BY DEF TypedTables
<1> QED BY <1>2, <1>4, <1>5 DEF TypedTables

LEMMA TablesUntouched ==
  ASSUME TypedTables, entry' = entry, m' = m
  PROVE  TypedTables'
BY DEF TypedTables, Contents, Targets, Pages

\* The processor finds pages only.
LEMMA WalkTyped ==
  ASSUME TypedTables, NEW va \in VAs
  PROVE  Walk(va) \in Pages
<1>0. None \in Pages /\ None # Table("pte")
  BY Distinct DEF Pages
<1>1. CASE va[1] = 273
  <2>1. entry[<<"pml4", 273>>] \in {None, Table("pages")}
    BY HasSlots, TargetsOf DEF TypedTables
  <2>2. va[2] \in {0, 1}
    BY <1>1 DEF VAs
  <2>3. entry[<<"pages", va[2]>>] \in Pages
    BY <2>2, HasSlots, TargetsOf DEF TypedTables
  <2> QED BY <1>0, <1>1, <2>1, <2>3, Distinct DEF Walk, Through
<1>2. CASE va[1] # 273
  <2> DEFINE d == va[2]
  <2>1. va[1] \in {0, 256, 257} /\ d \in 0..(ENTRIES - 1)
    BY <1>2 DEF VAs
  <2>2. entry[<<"pml4", va[1]>>] \in {None, Table("pdpte"), Table("pdpte2mb")}
    BY <2>1, HasSlots, TargetsOf DEF TypedTables
  <2>3. Through(entry[<<"pml4", va[1]>>], 0) \in {None, Table("pde"), Table("pde2mb")}
    BY <2>2, HasSlots, TargetsOf, Distinct DEF TypedTables, Through
  <2>4. Through(Through(entry[<<"pml4", va[1]>>], 0), d) \in Pages \cup {Table("pte")}
    <3>1. <<"pde", d>> \in Slots /\ <<"pde2mb", d>> \in Slots
      BY <2>1, HasPages
    <3>2. entry[<<"pde", d>>] \in Pages \cup {Table("pte")} /\ entry[<<"pde2mb", d>>] \in Pages
      BY <3>1, TargetsOf DEF TypedTables
    <3> QED BY <1>0, <2>3, <3>2, Distinct DEF Through
  <2>5. entry[<<"pte", 0>>] \in Pages
    BY HasSlots, TargetsOf DEF TypedTables
  <2> QED BY <1>0, <1>2, <2>4, <2>5 DEF Walk
<1> QED BY <1>1, <1>2

LEMMA TlbTyped ==
  ASSUME TypedTables, tlb \in [VAs -> Pages]
  PROVE  /\ \A uses : Cached(uses) \in [VAs -> Pages]
         /\ FlushTlb \in [VAs -> Pages]
         /\ None \in Pages
<1>1. \A va \in VAs : Translation(va) \in Pages
  BY WalkTyped DEF Translation
<1>2. None \in Pages
  BY DEF Pages
<1> QED BY <1>1, <1>2 DEF Cached, FlushTlb

LEMMA FramesArePages ==
  ASSUME NEW n \in 0..(ENTRIES - 1)
  PROVE  Frame(n) \in Pages
BY DEF Pages

LEMMA TypesInit == Init => TypeInv
<1> SUFFICES ASSUME Init PROVE TypeInv
  OBVIOUS
<1>1. None \in Pages
  BY DEF Pages
<1>2. TypedTables
  BY <1>1, TargetsTyped DEF Init, PagingInit, TypedTables, Contents
<1>3. TypedMain
  BY BootPagingAssumption DEF Init, PagingInit, TypedMain
<1> QED BY <1>1, <1>2, <1>3 DEF Init, PagingInit, TypeInv

\* boot.S and start64.S.
LEMMA TypesBoot ==
  ASSUME TablesInv, TypeInv, BootStep, UNCHANGED mainVars
  PROVE  TypeInv'
<1> USE DEF TypeInv
<1>1. m' = m
  BY DEF BootStep, Halt32, BootTables, MapPage, SetPaging, Trampoline, ReuseTables,
         Store, Unmap, ClearPage, FlushCr3, CallMain, pagingVars
<1>2. Pages' = Pages
  BY <1>1 DEF Pages
<1>3. count' \in 0..(ENTRIES + 10) => TypedMain'
  BY <1>1 DEF TypedMain, mainVars
<1>4. count \in 0..(ENTRIES + 10) /\ ENTRIES \in Nat \ {0, 1}
  BY BootPagingAssumption DEF TypedMain
<1>5. CASE Halt32 \/ SetPaging
  BY <1>1, <1>2, <1>3, <1>4, <1>5, TablesUntouched DEF Halt32, SetPaging, pagingVars
<1>6. CASE BootTables
  <2> DEFINE e1 == [entry EXCEPT ![<<"pml4", 0>>] = Table("pdpte")]
             e2 == [e1 EXCEPT ![<<"pml4", 256>>] = Table("pdpte2mb")]
             e3 == [e2 EXCEPT ![<<"pdpte", 0>>] = Table("pde")]
  <2>1. UNCHANGED <<tlb, count>>
        /\ entry' = [e3 EXCEPT ![<<"pdpte2mb", 0>>] = Table("pde2mb")]
    BY <1>6 DEF BootTables
  <2>2. TypedTables'
    <3>1. \A s : Targets(s)' = Targets(s)
      BY <1>2 DEF Targets
    <3>2. Contents' = Contents
      BY <1>2 DEF Contents
    <3>3. /\ Table("pdpte") \in Contents /\ Table("pdpte2mb") \in Contents
          /\ Table("pde") \in Contents /\ Table("pde2mb") \in Contents
      BY DEF Contents
    <3>4. entry \in [Slots -> Contents] /\ \A s \in Slots : entry[s] \in Targets(s)
      BY DEF TypedTables
    <3>5. entry' \in [Slots -> Contents]
      BY <2>1, <3>3, <3>4
    <3>6. ASSUME NEW s \in Slots PROVE entry'[s] \in Targets(s)
      BY <2>1, <3>4, HasSlots, TargetsOf
    <3> QED BY <3>1, <3>2, <3>5, <3>6 DEF TypedTables
  <2> QED BY <1>2, <1>3, <1>4, <2>1, <2>2
<1>7. CASE MapPage
  <2>1. /\ pc = "map" /\ count' = count + 1 /\ tlb' = tlb
        /\ entry' = [entry EXCEPT ![<<"pde", count>>] = Frame(count),
                                  ![<<"pde2mb", count>>] = Frame(count)]
    BY <1>7 DEF MapPage
  <2>2. count \in 0..(ENTRIES - 1)
    BY <2>1, TablesAt
  <2>3. TypedTables'
    <3>1. \A s : Targets(s)' = Targets(s)
      BY <1>2 DEF Targets
    <3>2. Contents' = Contents
      BY <1>2 DEF Contents
    <3>3. Frame(count) \in Pages /\ Pages \subseteq Contents
      BY <2>2, FramesArePages DEF Contents
    <3>4. entry \in [Slots -> Contents] /\ \A s \in Slots : entry[s] \in Targets(s)
      BY DEF TypedTables
    <3>5. <<"pde", count>> \in Slots /\ <<"pde2mb", count>> \in Slots
      BY <2>2, HasPages
    <3>6. entry' \in [Slots -> Contents]
      BY <2>1, <3>3, <3>4
    <3>7. ASSUME NEW s \in Slots PROVE entry'[s] \in Targets(s)
      BY <2>1, <3>3, <3>4, <3>5, TargetsOf
    <3> QED BY <3>1, <3>2, <3>6, <3>7 DEF TypedTables
  <2> QED BY <1>2, <1>3, <1>4, <2>1, <2>2, <2>3
<1>8. CASE Trampoline \/ CallMain
  <2>1. entry' = entry /\ count' = count /\ \E uses : tlb' = Cached(uses)
    BY <1>8 DEF Trampoline, CallMain
  <2> QED BY <1>1, <1>2, <1>3, <1>4, <2>1, TlbTyped, TablesUntouched
<1>9. ASSUME NEW here, NEW slot \in Slots, NEW value \in Targets(slot), NEW there,
             Store(here, slot, value, there), count' \in 0..(ENTRIES + 10)
      PROVE  TypeInv'
  <2>1. entry' = [entry EXCEPT ![slot] = value] /\ tlb' = Cached(BootUses(here))
    BY <1>9 DEF Store
  <2>2. TypedTables'
    BY <1>1, <2>1, StoreTyped
  <2> QED BY <1>2, <1>3, <1>9, <2>1, <2>2, TlbTyped
<1>10. /\ Table("pdpte") \in Targets(<<"pml4", 257>>) /\ None \in Targets(<<"pml4", 0>>)
       /\ Table("pde") \in Targets(<<"pdpte", 0>>) /\ Table("pte") \in Targets(<<"pde", 0>>)
       /\ \A d : None \in Targets(<<"pde", d>>)
  BY TargetsOf DEF Pages
<1>11. CASE ReuseTables
  BY <1>4, <1>9, <1>10, <1>11, HasSlots DEF ReuseTables
<1>12. CASE Unmap
  BY <1>4, <1>9, <1>10, <1>12, HasSlots DEF Unmap
<1>13. CASE ClearPage
  <2>1. pc = "clear" /\ count' = count + 1
    BY <1>13 DEF ClearPage, Store, Goto
  <2>2. count \in 1..(ENTRIES - 1) /\ count' \in 0..(ENTRIES + 10)
    BY <2>1, TablesAt
  <2>3. <<"pde", count>> \in Slots
    <3>1. count \in 0..(ENTRIES - 1)
      BY <1>4, <2>2
    <3> QED BY <3>1, HasPages
  <2>4. PICK there : Store("clear", <<"pde", count>>, None, there)
    BY <1>13 DEF ClearPage
  <2> QED BY <1>9, <1>10, <2>2, <2>3, <2>4
<1>14. CASE FlushCr3
  BY <1>1, <1>2, <1>3, <1>4, <1>14, TlbTyped, TablesUntouched DEF FlushCr3
<1> QED BY <1>5, <1>6, <1>7, <1>8, <1>11, <1>12, <1>13, <1>14 DEF BootStep

\* The variables of main that are no tables.
LEMMA TypesOfMain ==
  ASSUME MainInv, TypedMain, MainStep
  PROVE  TypedMain'
<1> USE DEF TypedMain, Then
<1>1. m' = m /\ ENTRIES \in Nat \ {0, 1}
  BY MainSteps, BootPagingAssumption DEF Quiet, MapsApic, DirectMap
<1>2. CASE Main
  BY <1>1, <1>2 DEF Main, mainVars
<1>3. CASE CheckFeatures
  BY <1>1, <1>3 DEF CheckFeatures, Panic
<1>4. CASE GetInfo
  <2>1. m.pmax \in Nat
    BY MachinesAssumption DEF MainInv
  <2> QED BY <1>1, <1>4, <2>1 DEF GetInfo
<1>5. CASE SetDefType
  <2>1. mtrr'.ranges = mtrr.ranges
    BY <1>5 DEF SetDefType, DefType
  <2> QED BY <1>1, <1>5, <2>1 DEF SetDefType
<1>6. CASE ClearRange
  <2>1. mtrr' = [mtrr EXCEPT !.ranges = @ \ {count - 1}] /\ count' = count + 1
        /\ UNCHANGED <<why, pmax, pic, svr>>
    BY <1>6 DEF ClearRange
  <2>2. count \in 0..10
    BY <1>6 DEF ClearRange, Goto, MainInv
  <2>3. mtrr'.ranges \subseteq mtrr.ranges
    BY <2>1
  <2> QED BY <1>1, <2>1, <2>2, <2>3
<1>7. CASE ParseInfo \/ VmmInit \/ PageInit \/ ReadId
  BY <1>1, <1>7 DEF ParseInfo, VmmInit, PageInit, ReadId, mainVars
<1>8. CASE ParseMmap
  BY <1>1, <1>8 DEF ParseMmap, Panic
<1>9. CASE DirectMap
  BY <1>1, <1>9 DEF DirectMap, mainVars
<1>10. CASE IrqDisableLegacy
  BY <1>1, <1>10 DEF IrqDisableLegacy
<1>11. CASE LapicInit
  BY <1>1, <1>11 DEF LapicInit, Panic
<1>12. CASE WriteSvr
  <2>1. svr' \in 0..255
    BY <1>12 DEF WriteSvr, ENABLE, T_IRQ0, IRQ_SPURIOUS
  <2> QED BY <1>1, <1>12, <2>1 DEF WriteSvr
<1>13. CASE IrqInit
  BY <1>1, <1>13 DEF IrqInit, Panic
<1> QED BY <1>2, <1>3, <1>4, <1>5, <1>6, <1>7, <1>8, <1>9, <1>10, <1>11, <1>12, <1>13 DEF MainStep

LEMMA TypesMain ==
  ASSUME TypeInv, MainStep
  PROVE  TypedTables' /\ tlb' \in [VAs -> Pages]'
<1> USE DEF TypeInv
<1>1. m' = m
  BY MainSteps DEF Quiet, MapsApic, DirectMap
<1>2. Pages' = Pages
  BY <1>1 DEF Pages
<1>3. CASE Quiet
  BY <1>1, <1>2, <1>3, TlbTyped, TablesUntouched DEF Quiet
<1>4. CASE MapsApic
  <2>1. Device(m.apic) \in Targets(<<"pte", 0>>)
    BY TargetsOf DEF Pages
  <2>2. TypedTables'
    BY <1>1, <1>4, <2>1, HasSlots, StoreTyped DEF MapsApic
  <2>3. PICK uses : tlb' = [Cached(uses) EXCEPT ![LapicVA] = None]
    BY <1>4 DEF MapsApic
  <2>4. tlb' \in [VAs -> Pages]
    BY <2>3, TlbTyped
  <2> QED BY <1>2, <2>2, <2>4
<1>5. CASE DirectMap
  <2>1. /\ entry' = [entry EXCEPT ![<<"pages", 0>>] = Frame(0), ![<<"pml4", 273>>] = Table("pages")]
        /\ tlb' = FlushTlb
    BY <1>5 DEF DirectMap
  <2>2. TypedTables'
    <3>1. \A s : Targets(s)' = Targets(s)
      BY <1>2 DEF Targets
    <3>2. Contents' = Contents
      BY <1>2 DEF Contents
    <3>3. Frame(0) \in Pages
      BY BootPagingAssumption, FramesArePages
    <3>4. Frame(0) \in Contents /\ Table("pages") \in Contents
      BY <3>3 DEF Contents
    <3>5. entry \in [Slots -> Contents] /\ \A s \in Slots : entry[s] \in Targets(s)
      BY DEF TypedTables
    <3>6. entry' \in [Slots -> Contents]
      BY <2>1, <3>4, <3>5
    <3>7. ASSUME NEW s \in Slots PROVE entry'[s] \in Targets(s)
      BY <2>1, <3>3, <3>5, HasSlots, TargetsOf
    <3> QED BY <3>1, <3>2, <3>6, <3>7 DEF TypedTables
  <2> QED BY <1>2, <2>1, <2>2, TlbTyped
<1> QED BY <1>3, <1>4, <1>5, MainSteps

LEMMA TypesNext ==
  ASSUME BootInv, MainInv, TypeInv, [Step \/ Processor \/ Ended]_vars
  PROVE  TypeInv'
<1>1. CASE BootStep /\ UNCHANGED mainVars
  BY <1>1, TypesBoot DEF BootInv
<1>2. CASE MainStep
  BY <1>2, TypesOfMain, TypesMain DEF TypeInv
<1>3. CASE Fault \/ UNCHANGED vars
  <2>1. UNCHANGED <<entry, tlb, count, m, why, pmax, mtrr, pic, svr>>
    BY <1>3 DEF Fault, vars, pagingVars, mainVars
  <2>2. Pages' = Pages
    BY <2>1 DEF Pages
  <2> QED BY <2>1, <2>2, TablesUntouched DEF TypeInv, TypedMain
<1>4. CASE Processor
  <2>1. UNCHANGED <<entry, count, m, why, pmax, mtrr, pic, svr>>
        /\ \E va \in VAs : tlb' = [tlb EXCEPT ![va] = Walk(va)] \/ tlb' = [tlb EXCEPT ![va] = None]
    BY <1>4 DEF Processor, Load, Evict, mainVars
  <2>2. Pages' = Pages
    BY <2>1 DEF Pages
  <2>3. tlb' \in [VAs -> Pages]
    BY <2>1, WalkTyped, TlbTyped DEF TypeInv
  <2> QED BY <2>1, <2>2, <2>3, TablesUntouched DEF TypeInv, TypedMain
<1> QED BY <1>1, <1>2, <1>3, <1>4 DEF Step, Ended

\* Every variable keeps its type; in particular the processor only ever holds
\* translations to pages, although it walks tables that are being rebuilt.
THEOREM BootTypes == Spec => []TypeOK
<1>1. ASSUME BootInv, MainInv, TypeInv PROVE TypeOK
  <2>1. pc \in {"start", "map", "paging"} \cup Start64 \cup InMain \cup Final
    BY <1>1 DEF BootInv, TablesInv, Running, Identity, Reserved, Handed, Start64
  <2>2. entry \in [Slots -> Pages \cup {Table(t) : t \in {"pdpte", "pdpte2mb", "pde", "pde2mb", "pte", "pages"}}]
    BY <1>1 DEF TypeInv, TypedTables, Contents
  <2>3. kernel_end \in KernelEnds /\ m \in Machines /\ dropped \in BOOLEAN
    BY <1>1 DEF BootInv, TablesInv, TlbInv, MainInv
  <2>4. at \in {"none", "mtrr", "info", "mmap", "pages"} \cup Start64
    BY <1>1 DEF MainInv
  <2> QED BY <1>1, <2>1, <2>2, <2>3, <2>4 DEF TypeInv, TypedMain, TypeOK
<1>2. Spec => []TypeInv
  BY TypesInit, TypesNext, AlwaysMainInv, PTL DEF Spec
<1> QED BY <1>1, <1>2, AlwaysMainInv, PTL
=============================================================================
