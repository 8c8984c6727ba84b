----------------------------- MODULE VmmProofs -----------------------------
(***************************************************************************)
(* The reserved page table of any size: no store leaves it, the latest     *)
(* mapping of a page is in force, and as long as drivers map single pages  *)
(* all of their mappings stay.                                             *)
(* Then VmmBits: addresses lead to the entries a call has filled, and the  *)
(* processor finds in an entry what was asked for.                         *)
(***************************************************************************)
EXTENDS VmmBits, NatLemmas, TLAPS

LEMMA EntryTyped ==
  ASSUME NEW page \in Nat, NEW type
  PROVE  Entry(page, type) \in Nat \X {"uc", "wt", "wb"}
<1>1. Caching(type) \in {"uc", "wt", "wb"}
  BY DEF Caching
<1> QED BY <1>1 DEF Entry

\* What one call does when there is room, spelled out.
LEMMA Mapped ==
  ASSUME NEW page \in Pages, NEW n \in Lengths, NEW type \in Types,
         0 \notin Lengths, mmap_physical_area(page, n, type), ~Panic(n)
  PROVE  /\ pc = "run" /\ ~Full(n)
         /\ size' = size + 1
         /\ Assign(size, n, page, type)
         /\ maps' = Append(maps, [first |-> size, n |-> n, page |-> page, type |-> type])
<1>1. n # 0
  OBVIOUS
<1> QED BY <1>1 DEF mmap_physical_area

LEMMA TypeInit == Init => TypeOK /\ NoOverrun
BY VmmAssumption DEF Init, TypeOK, NoOverrun, Entries

LEMMA TypeNext ==
  ASSUME 0 \notin Lengths, TypeOK, NoOverrun, [Next]_vars
  PROVE  TypeOK' /\ NoOverrun'
<1>1. CASE UNCHANGED vars
  BY <1>1 DEF vars, TypeOK, NoOverrun
<1>2. CASE \E v \in Entries : Load(v) \/ Evict(v)
  BY <1>2 DEF Load, Evict, TypeOK, NoOverrun
<1>3. ASSUME NEW page \in Pages, NEW n \in Lengths, NEW type \in Types,
             mmap_physical_area(page, n, type)
      PROVE  TypeOK' /\ NoOverrun'
  <2>1. CASE Panic(n)
    BY <2>1 DEF Panic, TypeOK, NoOverrun
  <2>2. CASE ~Panic(n)
    <3>1. /\ pc = "run" /\ ~Full(n)
          /\ size' = size + 1
          /\ Assign(size, n, page, type)
          /\ maps' = Append(maps, [first |-> size, n |-> n, page |-> page, type |-> type])
      BY <1>3, <2>2, Mapped
    <3>2. page \in Nat /\ n \in Nat /\ size \in Nat
      BY VmmAssumption DEF TypeOK
    <3>3. size..(size + n - 1) \subseteq Entries
      BY <3>1, <3>2, VmmAssumption DEF Full, Entries
    <3>4. pc' = "run"
      BY <3>1, <3>3 DEF Assign
    <3>5. pt' \in [Entries -> (Nat \X {"uc", "wt", "wb"}) \cup {NONE}]
      <4>1. \A v \in Entries : v \in size..(size + n - 1) =>
              Entry(page + (v - size), type) \in Nat \X {"uc", "wt", "wb"}
        <5> TAKE v \in Entries
        <5> HAVE v \in size..(size + n - 1)
        <5>1. page + (v - size) \in Nat
          BY <3>2 DEF Entries
        <5> QED BY <5>1, EntryTyped
      <4> QED BY <3>1, <4>1 DEF Assign, TypeOK
    <3>6. tlb' \in [Entries -> (Nat \X {"uc", "wt", "wb"}) \cup {NONE}]
      BY <3>1 DEF Assign, TypeOK
    <3>7. maps' \in Seq([first : Nat, n : Nat, page : Nat, type : Types])
      BY <3>1, <3>2 DEF TypeOK
    <3> QED BY <3>1, <3>2, <3>4, <3>5, <3>6, <3>7 DEF TypeOK, NoOverrun
  <2> QED BY <2>1, <2>2
<1> QED BY <1>1, <1>2, <1>3 DEF Next

\* For a table of any length, and areas of any length but 0, vmm_fetch_map's
\* check against VM_AREA_MAX keeps vmm_assign_map inside the table.
THEOREM StoresStayInTable ==
  ASSUME 0 \notin Lengths
  PROVE  Spec => [](TypeOK /\ NoOverrun)
<1>1. TypeOK /\ NoOverrun /\ [Next]_vars => TypeOK' /\ NoOverrun'
  BY TypeNext
<1> QED BY <1>1, TypeInit, PTL DEF Spec

\* The entries of the kernel's table, what the TLB caches of them and the
\* record of the calls keep their types.
THEOREM VmmTypes ==
  ASSUME 0 \notin Lengths
  PROVE  Spec => []TypeOK
BY StoresStayInTable, PTL

-----------------------------------------------------------------------------
\* The k-th call starts at entry k - 1, and the table holds, for every entry,
\* what the latest call covering it stored.
Record == [first : Nat, n : Nat, page : Nat, type : Types]
Stored(k, v) == Entry(maps[k].page + (v - maps[k].first), maps[k].type)

LatestInv ==
  /\ Len(maps) = size
  /\ \A k \in 1..Len(maps) :
       /\ maps[k].first = k - 1 /\ maps[k].n \in Lengths
       /\ PagesOf(maps[k]) \subseteq Entries
  /\ \A k \in 1..Len(maps) : \A v \in PagesOf(maps[k]) :
       (\A l \in (k + 1)..Len(maps) : v \notin PagesOf(maps[l])) => pt[v] = Stored(k, v)
  /\ TlbCoherent

LEMMA LatestInit == Init => LatestInv
BY DEF Init, LatestInv, TlbCoherent

LEMMA LatestNext ==
  ASSUME 0 \notin Lengths, TypeOK, LatestInv, [Next]_vars
  PROVE  LatestInv'
<1>1. CASE UNCHANGED vars
  BY <1>1 DEF vars, LatestInv, TlbCoherent, Stored
<1>2. CASE \E v \in Entries : Load(v) \/ Evict(v)
  BY <1>2 DEF Load, Evict, LatestInv, TypeOK, TlbCoherent, Stored
<1>3. ASSUME NEW page \in Pages, NEW n \in Lengths, NEW type \in Types,
             mmap_physical_area(page, n, type)
      PROVE  LatestInv'
  <2>1. CASE Panic(n)
    BY <2>1 DEF Panic, LatestInv, TlbCoherent, Stored
  <2>2. CASE ~Panic(n)
    <3> DEFINE new == [first |-> size, n |-> n, page |-> page, type |-> type]
    <3>1. ~Full(n) /\ size' = size + 1 /\ Assign(size, n, page, type) /\ maps' = Append(maps, new)
      BY <1>3, <2>2, Mapped
    <3>2. /\ page \in Nat /\ n \in Nat /\ size \in Nat /\ Len(maps) = size
          /\ maps \in Seq(Record) /\ new \in Record
      BY VmmAssumption DEF TypeOK, LatestInv, Record
    <3>3. /\ Len(maps') = size + 1 /\ maps'[size + 1] = new
          /\ \A k \in 1..size : maps'[k] = maps[k]
      <4> HIDE DEF new, Record
      <4> QED BY <3>1, <3>2
    <3>4. PagesOf(new) = size..(size + n - 1) /\ PagesOf(new) \subseteq Entries
      BY <3>1, <3>2, VmmAssumption DEF PagesOf, Full, Entries
    <3>5. \A v \in Entries :
            /\ pt'[v] = IF v \in PagesOf(new) THEN Entry(page + (v - size), type) ELSE pt[v]
            /\ tlb'[v] = IF v \in PagesOf(new) THEN NONE ELSE tlb[v]
      BY <3>1, <3>4 DEF Assign
    <3>6. TlbCoherent'
      BY <3>5 DEF LatestInv, TlbCoherent
    <3>7. \A k \in 1..Len(maps') :
            /\ maps'[k].first = k - 1 /\ maps'[k].n \in Lengths
            /\ PagesOf(maps'[k]) \subseteq Entries
      <4> TAKE k \in 1..Len(maps')
      <4>1. CASE k = size + 1
        BY <3>2, <3>3, <3>4, <4>1
      <4>2. CASE k # size + 1
        <5>1. k \in 1..size
          BY <3>2, <3>3, <4>2
        <5> QED BY <3>2, <3>3, <5>1 DEF LatestInv
      <4> QED BY <4>1, <4>2
    <3>8. ASSUME NEW k \in 1..Len(maps'), NEW v \in PagesOf(maps'[k]),
                 \A l \in (k + 1)..Len(maps') : v \notin PagesOf(maps'[l])
          PROVE  pt'[v] = Entry(maps'[k].page + (v - maps'[k].first), maps'[k].type)
      <4>1. v \in Entries
        BY <3>7
      <4>2. CASE k = size + 1
        <5>1. maps'[k] = new /\ v \in PagesOf(new)
          BY <3>3, <3>8, <4>2
        <5> QED BY <3>5, <4>1, <5>1
      <4>3. CASE k # size + 1
        <5>1. k \in 1..size /\ maps'[k] = maps[k] /\ size + 1 \in (k + 1)..Len(maps')
          BY <3>2, <3>3, <4>3
        <5>2. v \notin PagesOf(new)
          BY <3>3, <3>8, <5>1
        <5>3. \A l \in (k + 1)..Len(maps) : v \notin PagesOf(maps[l])
          <6> TAKE l \in (k + 1)..Len(maps)
          <6>1. l \in 1..size /\ l \in (k + 1)..Len(maps')
            BY <3>2, <3>3, <5>1
          <6> QED BY <3>3, <3>8, <6>1
        <5>4. pt[v] = Entry(maps[k].page + (v - maps[k].first), maps[k].type)
          BY <3>2, <3>8, <5>1, <5>3 DEF LatestInv, Stored
        <5> QED BY <3>5, <4>1, <5>1, <5>2, <5>4
      <4> QED BY <4>2, <4>3
    <3>9. Len(maps') = size'
      BY <3>1, <3>3
    <3> QED BY <3>6, <3>7, <3>8, <3>9 DEF LatestInv, Stored
  <2> QED BY <2>1, <2>2
<1> QED BY <1>1, <1>2, <1>3 DEF Next

LEMMA LatestSeen == LatestInv => LatestMapped
<1> SUFFICES ASSUME LatestInv, NEW k \in 1..Len(maps), NEW v \in PagesOf(maps[k]),
                    \A l \in (k + 1)..Len(maps) : v \notin PagesOf(maps[l])
             PROVE  Sees(v) = Entry(maps[k].page + (v - maps[k].first), maps[k].type)
  BY DEF LatestMapped
<1>1. v \in Entries /\ pt[v] = Stored(k, v)
  BY DEF LatestInv
<1>2. Sees(v) = pt[v]
  BY <1>1 DEF Sees, LatestInv, TlbCoherent
<1> QED BY <1>1, <1>2 DEF Stored

\* The latest mapping of a virtual page is the one in force, for a table of any
\* length and areas of any length but 0, whatever the TLB keeps or drops: calls
\* store what was asked for, and no stale translation survives them.
THEOREM LatestMappingHolds ==
  ASSUME 0 \notin Lengths
  PROVE  Spec => []LatestMapped
<1>1. Spec => [](TypeOK /\ NoOverrun)
  BY StoresStayInTable
<1>2. TypeOK /\ LatestInv /\ [Next]_vars => LatestInv'
  BY LatestNext
<1> QED BY <1>1, <1>2, LatestInit, LatestSeen, PTL DEF Spec

-----------------------------------------------------------------------------
\* Calls for single pages take an entry each: nothing is mapped over.
LEMMA PagesStay == Lengths = {1} /\ TypeOK /\ LatestInv => MappingsStay
<1> SUFFICES ASSUME Lengths = {1}, TypeOK, LatestInv,
                    NEW k \in 1..Len(maps), NEW v \in PagesOf(maps[k])
             PROVE  Sees(v) = Entry(maps[k].page + (v - maps[k].first), maps[k].type)
  BY DEF MappingsStay
<1>1. \A l \in 1..Len(maps) : maps[l].first = l - 1 /\ maps[l].n = 1
  BY DEF LatestInv
<1>2. \A l \in 1..Len(maps) : PagesOf(maps[l]) = {l - 1}
  BY <1>1 DEF PagesOf
<1>3. Len(maps) \in Nat
  BY DEF TypeOK
<1>4. \A l \in (k + 1)..Len(maps) : v \notin PagesOf(maps[l])
  BY <1>2, <1>3
<1> QED BY <1>4, LatestSeen DEF LatestMapped

\* A driver that was given a page keeps it, as "fetch the first free map"
\* promises: with calls for single pages only, every mapping ever made is in
\* force, for a table of any length.
THEOREM PageMappingsStay ==
  ASSUME Lengths = {1}
  PROVE  Spec => []MappingsStay
<1>1. 0 \notin Lengths
  OBVIOUS
<1>2. Spec => [](TypeOK /\ NoOverrun)
  BY <1>1, StoresStayInTable
<1>3. TypeOK /\ LatestInv /\ [Next]_vars => LatestInv'
  BY <1>1, LatestNext
<1>4. TypeOK /\ LatestInv => MappingsStay
  BY PagesStay
<1> QED BY <1>2, <1>3, <1>4, LatestInit, PTL DEF Spec

-----------------------------------------------------------------------------
\* Powers of two: Power is a function as its definition asks for.
Exponents == 0..(4 * IndexBits + SignBits + FrameBits)

LEMMA PowerDoubles ==
  \E n \in Nat : n = 4 * IndexBits + SignBits + FrameBits /\ Doubles(Power, n)
<1>1. PICK n \in Nat : n = 4 * IndexBits + SignBits + FrameBits
  BY BitsAssumption
<1>2. \E f : f = [k \in 0..n |-> IF k = 0 THEN 1 ELSE 2 * f[k - 1]]
  BY DoublesExists DEF Doubles
<1>3. Power = CHOOSE f : f = [k \in 0..n |-> IF k = 0 THEN 1 ELSE 2 * f[k - 1]]
  BY <1>1 DEF Power
<1>4. Doubles(Power, n)
  BY <1>2, <1>3, Zenon DEF Doubles
<1> QED BY <1>1, <1>4

LEMMA PowerSteps ==
  \A k \in Exponents : Power[k] = IF k = 0 THEN 1 ELSE 2 * Power[k - 1]
BY PowerDoubles, DoublesSteps DEF Exponents

LEMMA PowerTyped == \A k \in Exponents : Power[k] \in Nat \ {0}
BY PowerDoubles, DoublesTyped DEF Exponents

LEMMA PowerSum ==
  ASSUME NEW a \in Exponents, NEW b \in Nat, a + b \in Exponents
  PROVE  Power[a + b] = Power[a] * Power[b]
<1>1. PICK n \in Nat : n = 4 * IndexBits + SignBits + FrameBits /\ Doubles(Power, n)
  BY PowerDoubles
<1>2. a \in Nat /\ b \in Nat /\ a + b <= n
  BY <1>1 DEF Exponents
<1> QED BY <1>1, <1>2, DoublesSum

-----------------------------------------------------------------------------
\* A multiple is no smaller.
LEMMA Multiple ==
  ASSUME NEW x \in Nat \ {0}, NEW y \in Nat \ {0}
  PROVE  x <= x * y /\ x * y \in Nat \ {0}
<1>1. y - 1 \in Nat /\ x * y = x + x * (y - 1) /\ x * (y - 1) \in Nat
  OBVIOUS
<1> QED BY <1>1

\* The digits of an address, to base b.
LEMMA Digits ==
  ASSUME NEW b \in Nat \ {0}, NEW q \in Nat, NEW c \in 0..(b - 1)
  PROVE  LET a == ((b * b) * b) * q + c
         IN  /\ a \in Nat /\ a \div ((b * b) * b) = q /\ (a \div (b * b)) % b = 0
             /\ (a \div b) % b = 0 /\ a % b = c
<1> DEFINE b2 == b * b
           b3 == b2 * b
           a == b3 * q + c
<1>1. b2 \in Nat \ {0} /\ b3 \in Nat \ {0} /\ b <= b2 /\ b2 <= b3
  <2>1. b2 \in Nat \ {0} /\ b <= b2
    BY Multiple
  <2> HIDE DEF b2
  <2> QED BY <2>1, Multiple
<1>2. \A x, y, z \in Nat : x * (y * z) = (x * y) * z /\ x * y = y * x
  OBVIOUS
<1>3. b3 = b * b2 /\ b3 * q = b2 * (b * q) /\ b3 * q = b * (b2 * q) /\ b2 * q = b * (b * q)
  BY <1>1, <1>2
<1>4. b * q \in Nat /\ b2 * q \in Nat /\ b3 * q \in Nat
  BY <1>1
<1>5. a = b3 * q + c
  OBVIOUS
<1> HIDE DEF a, b2, b3
<1>6. a \in Nat /\ c \in 0..(b2 - 1) /\ c \in 0..(b3 - 1) /\ 0 \in 0..(b - 1)
  BY <1>1, <1>4, <1>5
<1>7. a \div b3 = q
  BY <1>1, <1>5, <1>6, QuotientOf
<1>8. (a \div b2) % b = 0
  <2>1. a \div b2 = b * q + 0
    BY <1>1, <1>3, <1>4, <1>5, <1>6, QuotientOf
  <2> QED BY <1>4, <1>6, <2>1, Modulo
<1>9. (a \div b) % b = 0
  <2>1. b * (b * q) \in Nat /\ a = b * (b * (b * q)) + c
    BY <1>1, <1>3, <1>4, <1>5
  <2>2. a \div b = b * (b * q) + 0
    <3>1. PICK r \in Nat : r = b * (b * q)
      BY <2>1
    <3>2. a \div b = r
      BY <2>1, <3>1, QuotientOf
    <3>3. r = r + 0
      OBVIOUS
    <3> QED BY <3>1, <3>2, <3>3, Zenon
  <2>3. PICK s \in Nat : s = b * q
    BY <1>4
  <2>4. PICK d : d = a \div b
    OBVIOUS
  <2>5. d = b * s + 0
    BY <2>2, <2>3, <2>4, Zenon
  <2>6. d % b = 0
    BY <1>6, <2>3, <2>5, Modulo
  <2> QED BY <2>4, <2>6
<1>10. a % b = c
  BY <1>3, <1>4, <1>5, Modulo
<1> QED BY <1>6, <1>7, <1>8, <1>9, <1>10 DEF a, b2, b3

\* The sizes of the tables, as far as the addresses need them.
LEMMA Tables ==
  /\ Power[IndexBits] \in Nat \ {0} /\ Power[IndexBits] = 2 * Half /\ Half \in Nat /\ Half >= 2
  /\ Power[2 * IndexBits] = Power[IndexBits] * Power[IndexBits]
  /\ Power[3 * IndexBits] = Power[2 * IndexBits] * Power[IndexBits]
  /\ Power[4 * IndexBits] = Power[3 * IndexBits] * Power[IndexBits]
  /\ Power[2 * IndexBits] \in Nat /\ Power[3 * IndexBits] \in Nat
  /\ Power[SignBits] - 1 \in Nat
  /\ Power[0 * IndexBits] = 1
<1> DEFINE i == IndexBits
<1>1. /\ i \in Nat /\ i >= 2 /\ 0 \in Exponents /\ 0 * i = 0 /\ 1 * i = i
      /\ i \in Exponents /\ i - 1 \in Exponents /\ i - 1 - 1 \in Exponents
      /\ 2 * i \in Exponents /\ 3 * i \in Exponents /\ 4 * i \in Exponents /\ SignBits \in Exponents
      /\ 2 * i = i + i /\ 3 * i = 2 * i + i /\ 4 * i = 3 * i + i
  BY BitsAssumption DEF Exponents
<1> HIDE DEF i
<1>2. Power[i] = 2 * Power[i - 1] /\ Power[i - 1] = 2 * Power[i - 1 - 1] /\ Power[0] = 1
  BY <1>1, PowerSteps
<1>3. /\ Power[i] \in Nat \ {0} /\ Power[i - 1] \in Nat \ {0} /\ Power[i - 1 - 1] \in Nat \ {0}
      /\ Power[2 * i] \in Nat \ {0} /\ Power[3 * i] \in Nat \ {0} /\ Power[SignBits] \in Nat \ {0}
  BY <1>1, PowerTyped
<1>4. Power[i + i] = Power[i] * Power[i]
  BY <1>1, PowerSum
<1>5. Power[2 * i + i] = Power[2 * i] * Power[i]
  BY <1>1, PowerSum
<1>6. Power[3 * i + i] = Power[3 * i] * Power[i]
  BY <1>1, PowerSum
<1> QED BY <1>1, <1>2, <1>3, <1>4, <1>5, <1>6 DEF i, Half

LEMMA AddressOf ==
  ASSUME NEW f \in Nat, NEW k \in Nat, f + k < Power[IndexBits]
  PROVE  LET address == vaddr(fetched(f)) + k
         IN  /\ address2tables(address) = fetched(f + k)
             /\ tables2address(address2tables(address)) = address
<1> DEFINE b == Power[IndexBits]
           b2 == Power[2 * IndexBits]
           b3 == Power[3 * IndexBits]
           s == Power[SignBits] - 1
           t == Half + 1
           q == b * s + t
           a == vaddr(fetched(f)) + k
<1>1. /\ b \in Nat \ {0} /\ b2 \in Nat /\ b3 \in Nat /\ s \in Nat /\ t \in Nat /\ t < b
      /\ b2 = b * b /\ b3 = b2 * b /\ Sign = (b3 * b) * s /\ Half \in Nat
  BY Tables DEF Sign
<1>2. vaddr(fetched(f)) = Sign + t * b3 + 0 * b2 + 0 * b + f
  BY DEF vaddr, fetched
<1> HIDE DEF b, b2, b3, s, t
<1>3. q \in Nat /\ q = b * s + t /\ b3 * q = (b3 * b) * s + t * b3 /\ (b3 * b) * s \in Nat /\ t * b3 \in Nat
  <2>1. \A x, y, z, w \in Nat : x * (y * z + w) = (x * y) * z + w * x /\ x * y \in Nat
    OBVIOUS
  <2> QED BY <1>1, <2>1
<1>4. a = b3 * q + (f + k) /\ f + k \in 0..(b - 1) /\ 0 * b2 = 0 /\ 0 * b = 0
  BY <1>1, <1>2, <1>3, BitsAssumption DEF b
<1> HIDE DEF q, a
<1>5. /\ a \in Nat
      /\ (a \div b3) % b = t /\ (a \div b2) % b = 0 /\ (a \div b) % b = 0
      /\ a % b = f + k /\ a \div 1 = a
  <2>1. /\ (b3 * q + (f + k)) \div b3 = q /\ ((b3 * q + (f + k)) \div b2) % b = 0
        /\ ((b3 * q + (f + k)) \div b) % b = 0 /\ (b3 * q + (f + k)) % b = f + k
        /\ b3 * q + (f + k) \in Nat
    BY <1>1, <1>3, <1>4, Digits
  <2>2. q % b = t
    BY <1>1, <1>3, Modulo
  <2> QED BY <1>4, <2>1, <2>2
<1>6. address2tables(a) = [pml4 |-> t, pdpte |-> 0, pde |-> 0, pte |-> f + k]
  <2>1. 1 * IndexBits = IndexBits /\ Power[0 * IndexBits] = 1
    BY Tables, BitsAssumption
  <2> QED BY <1>5, <2>1 DEF address2tables, b, b2, b3
<1>7. tables2address([pml4 |-> t, pdpte |-> 0, pde |-> 0, pte |-> f + k]) = a
  <2>1. t > Half - 1
    BY <1>1 DEF t
  <2> QED BY <1>1, <1>3, <1>4, <2>1 DEF tables2address, b, b2, b3
<1> QED BY <1>6, <1>7 DEF a, t, fetched

\* The address of a page of an area, k pages on from the one a driver got, has the
\* indices of the k-th entry its call has filled, for tables of any size, and is
\* found again from them: the fields of the address do not run into each other.
THEOREM AddressesLeadToEntries ==
  ASSUME 0 \notin Lengths
  PROVE  Spec => []AddressesCountOn
<1>1. ASSUME TypeOK, LatestInv PROVE AddressesCountOn
  <2>1. SUFFICES ASSUME NEW j \in DOMAIN maps, NEW k \in 0..(maps[j].n - 1)
                 PROVE  LET address == vaddr(fetched(maps[j].first)) + k
                        IN  /\ address2tables(address) = fetched(maps[j].first + k)
                            /\ tables2address(address2tables(address)) = address
    BY DEF AddressesCountOn
  <2>2. j \in 1..Len(maps) /\ maps[j].first \in Nat /\ maps[j].n \in Nat
    <3>1. maps \in Seq(Record)
      BY <1>1 DEF TypeOK, Record
    <3>2. DOMAIN maps = 1..Len(maps) /\ maps[j] \in Record
      BY <3>1
    <3> QED BY <3>2 DEF Record
  <2>3. maps[j].first + k \in PagesOf(maps[j])
    BY <2>2 DEF PagesOf
  <2>4. maps[j].first + k \in Entries
    BY <1>1, <2>2, <2>3 DEF LatestInv
  <2>5. maps[j].first + k < Power[IndexBits]
    BY <2>4, Tables, BitsAssumption, VmmAssumption DEF Entries
  <2> QED BY <2>2, <2>5, AddressOf
<1>2. TypeOK /\ LatestInv /\ [Next]_vars => LatestInv'
  BY LatestNext
<1> QED BY <1>1, <1>2, StoresStayInTable, LatestInit, PTL DEF Spec

-----------------------------------------------------------------------------
\* The bits of a number add up to the number: taking one more bit into account
\* is to take the remainder by the next power of two.
LEMMA NextBit ==
  ASSUME NEW n \in Nat, NEW p \in Nat \ {0}
  PROVE  n % (2 * p) = (n % p) + (IF (n \div p) % 2 = 1 THEN p ELSE 0)
<1> DEFINE q == n \div p
           r == n % p
           h == q \div 2
           b == q % 2
<1>1. q \in Nat /\ r \in 0..(p - 1) /\ n = p * q + r
  OBVIOUS
<1>2. h \in Nat /\ b \in 0..1 /\ q = 2 * h + b
  BY <1>1
<1> HIDE DEF q, r, h, b
<1>3. p * q = (2 * p) * h + p * b
  <2>1. \A x, y, z \in Nat : x * (2 * y + z) = (2 * x) * y + x * z
    OBVIOUS
  <2> QED BY <1>1, <1>2, <2>1
<1>4. p * b = IF b = 1 THEN p ELSE 0
  BY <1>2
<1>5. 2 * p \in Nat \ {0} /\ p * b + r \in 0..(2 * p - 1) /\ (2 * p) * h \in Nat
  BY <1>1, <1>2, <1>4
<1>6. n = (2 * p) * h + (p * b + r)
  <2>1. \A x, y, z \in Nat : (x + y) + z = x + (y + z)
    OBVIOUS
  <2>2. p * b \in Nat /\ r \in Nat
    BY <1>1, <1>2, <1>4
  <2> QED BY <1>1, <1>3, <1>5, <2>1, <2>2
<1>7. n % (2 * p) = p * b + r
  BY <1>2, <1>5, <1>6, Modulo
<1> QED BY <1>1, <1>4, <1>7 DEF q, r, b

LEMMA NumberOfBits ==
  ASSUME NEW n \in Nat, n < Power[FrameBits]
  PROVE  Number(Bits(n)) = n
<1> DEFINE B == Bits(n)
           F == FrameBits
           Sum(g) == g = [k \in 0..F |->
                            IF k = 0 THEN 0 ELSE g[k - 1] + (IF k - 1 \in B THEN Power[k - 1] ELSE 0)]
           f == [k \in 0..F |-> n % Power[k]]
<1>1. F \in Nat /\ 0..F \subseteq Exponents /\ 0 \in 0..F /\ F \in 0..F
  BY BitsAssumption DEF Exponents
<1>2. f[0] = 0
  <2>1. Power[0] = 1
    BY <1>1, PowerSteps
  <2>2. n % 1 = 0
    OBVIOUS
  <2> QED BY <1>1, <2>1, <2>2
<1>3. ASSUME NEW k \in 0..F, k # 0
      PROVE  /\ k - 1 \in 0..F
             /\ f[k] = f[k - 1] + (IF k - 1 \in B THEN Power[k - 1] ELSE 0)
  <2>1. k \in Exponents /\ k - 1 \in 0..F /\ k - 1 \in Exponents /\ k - 1 \in 0..(F - 1)
    BY <1>1, <1>3
  <2>2. Power[k] = 2 * Power[k - 1] /\ Power[k - 1] \in Nat \ {0}
    BY <1>3, <2>1, PowerSteps, PowerTyped
  <2>3. k - 1 \in B <=> (n \div Power[k - 1]) % 2 = 1
    BY <2>1 DEF Bits
  <2>4. n % Power[k] = (n % Power[k - 1]) + (IF (n \div Power[k - 1]) % 2 = 1 THEN Power[k - 1] ELSE 0)
    BY <2>2, NextBit
  <2> QED BY <2>1, <2>3, <2>4
<1>4. f = [k \in 0..F |-> f[k]]
  OBVIOUS
<1>5. f[F] = n
  <2>1. Power[F] \in Nat \ {0} /\ n < Power[F]
    BY <1>1, PowerTyped
  <2>2. n % Power[F] = n
    BY <2>1
  <2> QED BY <1>1, <2>2
<1> HIDE DEF f, B
<1>6. Sum(f)
  BY <1>2, <1>3, <1>4
<1> DEFINE g == CHOOSE h : Sum(h)
<1>7. Sum(g)
  <2>1. \E h : Sum(h)
    BY <1>6
  <2> HIDE DEF Sum
  <2> QED BY <2>1, Zenon
<1>8. Number(B) = g[F]
  BY DEF Number
<1> HIDE DEF g
<1>9. \A k \in 0..F : g[k] = IF k = 0 THEN 0 ELSE g[k - 1] + (IF k - 1 \in B THEN Power[k - 1] ELSE 0)
  BY <1>7
<1> HIDE DEF Sum
<1>10. g[F] = f[F]
  <2> DEFINE Bad == {k \in 0..F : g[k] # f[k]}
  <2>1. SUFFICES ASSUME Bad # {} PROVE FALSE
    BY <1>1
  <2>2. PICK k \in Bad : \A j \in Bad : k <= j
    <3>1. Bad \in SUBSET Nat
      BY <1>1
    <3> HIDE DEF Bad
    <3> QED BY <2>1, <3>1, LeastNatural
  <2>3. k \in 0..F /\ g[k] # f[k]
    BY <2>2
  <2>4. k # 0
    BY <1>2, <1>9, <2>3
  <2>5. k - 1 \in 0..F /\ ~(k <= k - 1)
    BY <1>1, <2>3, <2>4
  <2>6. g[k - 1] = f[k - 1]
    BY <2>2, <2>5
  <2> QED BY <1>3, <1>9, <2>3, <2>4, <2>5, <2>6
<1> QED BY <1>5, <1>8, <1>10 DEF B

\* The fields of an entry do not run into each other.
LEMMA BitCount ==
  ASSUME NEW x, NEW E
  PROVE  Cardinality({x} \cap E) = IF x \in E THEN 1 ELSE 0
<1>1. CASE x \in E
  <2>1. {x} \cap E = {x}
    BY <1>1
  <2> QED BY <1>1, <2>1, FS_Singleton
<1>2. CASE x \notin E
  <2>1. {x} \cap E = {}
    BY <1>2
  <2> QED BY <1>2, <2>1, FS_EmptySet
<1> QED BY <1>1, <1>2

LEMMA EntryDecoded ==
  ASSUME NEW page \in Nat, page < Power[FrameBits], NEW type
  PROVE  Decoded(pte_t(page, type)) = Entry(page, type)
<1> DEFINE E == pte_t(page, type)
           frame == {FRAME + k : k \in Bits(page)}
           flags == CASE type = "PPT_UC" -> {PWT, PCD, PAT} [] type = "PPT_WT" -> {PWT} [] OTHER -> {}
<1>1. E = {PRESENT, RW} \cup frame \cup flags
  BY DEF pte_t
<1>2. \A k \in Bits(page) : k \in 0..(FrameBits - 1)
  BY DEF Bits
<1>3. flags \subseteq {3, 4, 7}
  BY DEF PWT, PCD, PAT
<1>4. \A k \in 0..(FrameBits - 1) : 12 + k \in frame <=> k \in Bits(page)
  BY <1>2, BitsAssumption DEF FRAME
<1>5. \A x \in {3, 4, 7} : x \notin frame
  BY <1>2, BitsAssumption DEF FRAME
<1>6. /\ 3 \in flags <=> type \in {"PPT_UC", "PPT_WT"}
      /\ 4 \in flags <=> type = "PPT_UC"
      /\ 7 \in flags <=> type = "PPT_UC"
  BY DEF PWT, PCD, PAT
<1> HIDE DEF frame, flags, E
<1>7. /\ 3 \in E <=> type \in {"PPT_UC", "PPT_WT"}
      /\ 4 \in E <=> type = "PPT_UC"
      /\ 7 \in E <=> type = "PPT_UC"
  BY <1>1, <1>5, <1>6 DEF PRESENT, RW
<1>8. {k \in 0..(FrameBits - 1) : 12 + k \in E} = Bits(page)
  <2>1. \A k \in 0..(FrameBits - 1) : 12 + k \in E <=> k \in Bits(page)
    BY <1>1, <1>3, <1>4, BitsAssumption DEF PRESENT, RW
  <2> QED BY <1>2, <2>1
<1>9. Number({k \in 0..(FrameBits - 1) : 12 + k \in E}) = page
  BY <1>8, NumberOfBits
<1>10. AttributeTable[1 + Cardinality({3} \cap E) + 2 * Cardinality({4} \cap E)
                        + 4 * Cardinality({7} \cap E)] = Caching(type)
  <2>1. /\ Cardinality({3} \cap E) = IF 3 \in E THEN 1 ELSE 0
        /\ Cardinality({4} \cap E) = IF 4 \in E THEN 1 ELSE 0
        /\ Cardinality({7} \cap E) = IF 7 \in E THEN 1 ELSE 0
    BY BitCount
  <2>2. AttributeTable[1] = "wb" /\ AttributeTable[2] = "wt" /\ AttributeTable[8] = "uc"
    BY DEF AttributeTable
  <2>3. CASE type = "PPT_UC"
    BY <1>7, <2>1, <2>2, <2>3 DEF Caching
  <2>4. CASE type = "PPT_WT"
    BY <1>7, <2>1, <2>2, <2>4 DEF Caching
  <2>5. CASE type \notin {"PPT_UC", "PPT_WT"}
    BY <1>7, <2>1, <2>2, <2>5 DEF Caching
  <2> QED BY <2>3, <2>4, <2>5
<1> QED BY <1>9, <1>10 DEF Decoded, Entry, E

\* What is in the table has been put there by a call, for a page asked for.
Covered ==
  /\ \A k \in 1..Len(maps) : maps[k].page \in Pages
  /\ \A v \in Entries : pt[v] # NONE => \E k \in 1..Len(maps) : v \in PagesOf(maps[k])

LEMMA CoveredNext ==
  ASSUME 0 \notin Lengths, TypeOK, Covered, [Next]_vars
  PROVE  Covered'
<1>1. CASE UNCHANGED <<pt, maps>>
  BY <1>1 DEF Covered
<1>2. CASE \E v \in Entries : Load(v) \/ Evict(v)
  BY <1>1, <1>2 DEF Load, Evict
<1>3. ASSUME NEW page \in Pages, NEW n \in Lengths, NEW type \in Types,
             mmap_physical_area(page, n, type)
      PROVE  Covered'
  <2>1. CASE Panic(n)
    BY <1>1, <2>1 DEF Panic
  <2>2. CASE ~Panic(n)
    <3> DEFINE new == [first |-> size, n |-> n, page |-> page, type |-> type]
               last == Len(maps) + 1
    <3>1. Assign(size, n, page, type) /\ maps' = Append(maps, new)
      BY <1>3, <2>2, Mapped
    <3>2. maps \in Seq(Record) /\ new \in Record /\ new.page \in Pages
      BY VmmAssumption DEF TypeOK, Record
    <3>3. /\ Len(maps') = last /\ maps'[last] = new /\ Len(maps) \in Nat
          /\ \A k \in 1..Len(maps) : maps'[k] = maps[k]
      <4> HIDE DEF new, Record
      <4> QED BY <3>1, <3>2
    <3>4. PagesOf(new) = size..(size + n - 1)
      BY DEF PagesOf
    <3> HIDE DEF new
    <3>5. \A k \in 1..Len(maps') : maps'[k].page \in Pages
      <4> TAKE k \in 1..Len(maps')
      <4>1. k \in 1..Len(maps) \/ k = last
        BY <3>3
      <4> QED BY <3>2, <3>3, <4>1 DEF Covered
    <3>6. ASSUME NEW v \in Entries, pt'[v] # NONE
          PROVE  \E k \in 1..Len(maps') : v \in PagesOf(maps'[k])
      <4>1. CASE v \in PagesOf(new)
        BY <3>3, <4>1
      <4>2. CASE v \notin PagesOf(new)
        <5>1. pt[v] # NONE
          BY <3>1, <3>4, <3>6, <4>2 DEF Assign
        <5>2. PICK k \in 1..Len(maps) : v \in PagesOf(maps[k])
          BY <5>1 DEF Covered
        <5> QED BY <3>3, <5>2
      <4> QED BY <4>1, <4>2
    <3> QED BY <3>5, <3>6 DEF Covered
  <2> QED BY <2>1, <2>2
<1>4. CASE UNCHANGED vars
  BY <1>1, <1>4 DEF vars
<1> QED BY <1>2, <1>3, <1>4 DEF Next

\* Of the calls that cover a page there is a latest one.
LEMMA LatestCall ==
  ASSUME NEW n \in Nat, NEW S \in SUBSET (1..n), S # {}
  PROVE  \E k \in S : \A l \in (k + 1)..n : l \notin S
<1> DEFINE D == {n - k : k \in S}
<1>1. PICK d \in D : \A e \in D : d <= e
  <2>1. D \in SUBSET Nat /\ D # {}
    <3>1. \A k \in S : n - k \in Nat
      OBVIOUS
    <3> QED BY <3>1
  <2> HIDE DEF D
  <2> QED BY <2>1, LeastNatural
<1>2. PICK k \in S : d = n - k
  BY <1>1
<1>3. ASSUME NEW l \in (k + 1)..n, l \in S PROVE FALSE
  <2>1. n - l \in D /\ l \in Int /\ k \in Int
    BY <1>3
  <2>2. n - k <= n - l
    BY <1>1, <1>2, <2>1
  <2> QED BY <1>3, <2>1, <2>2
<1> QED BY <1>3

LEMMA EntriesDecoded == TypeOK /\ LatestInv /\ Covered => EntriesMeanWhatWasAsked
<1> SUFFICES ASSUME TypeOK, LatestInv, Covered, NEW v \in Entries, pt[v] # NONE
             PROVE  \E m \in {maps[k] : k \in DOMAIN maps} :
                      /\ v \in PagesOf(m)
                      /\ Decoded(pte_t(m.page + (v - m.first), m.type)) = Sees(v)
  BY DEF EntriesMeanWhatWasAsked
<1> DEFINE S == {k \in 1..Len(maps) : v \in PagesOf(maps[k])}
<1>1. maps \in Seq(Record) /\ Len(maps) \in Nat /\ DOMAIN maps = 1..Len(maps)
  BY DEF TypeOK, Record
<1>2. PICK k \in S : \A l \in (k + 1)..Len(maps) : l \notin S
  <2>1. S \in SUBSET (1..Len(maps)) /\ S # {}
    BY DEF Covered
  <2> HIDE DEF S
  <2> QED BY <1>1, <2>1, LatestCall
<1>3. k \in 1..Len(maps) /\ v \in PagesOf(maps[k])
  BY <1>2
<1>4. \A l \in (k + 1)..Len(maps) : v \notin PagesOf(maps[l])
  BY <1>1, <1>2, <1>3
<1> DEFINE m == maps[k]
<1>5. Sees(v) = Entry(m.page + (v - m.first), m.type)
  BY <1>3, <1>4, LatestSeen DEF LatestMapped
<1>6. /\ m.page \in Pages /\ m.page \in Nat /\ m.n \in Lengths /\ m.n \in Nat /\ m.first \in Nat
      /\ v \in m.first..(m.first + m.n - 1)
  <2>1. m \in Record
    BY <1>1, <1>3
  <2> QED BY <1>3, <2>1, VmmAssumption DEF Record, Covered, LatestInv, PagesOf
<1> HIDE DEF m, S
<1>7. m.page + (v - m.first) \in Nat /\ m.page + (v - m.first) < Power[FrameBits]
  <2>1. m.page + m.n <= Power[FrameBits]
    BY <1>6, BitsAssumption
  <2>2. Power[FrameBits] \in Nat
    BY PowerTyped, BitsAssumption DEF Exponents
  <2> QED BY <1>6, <2>1, <2>2
<1>8. Decoded(pte_t(m.page + (v - m.first), m.type)) = Sees(v)
  BY <1>5, <1>7, EntryDecoded
<1> QED BY <1>1, <1>3, <1>8 DEF m

\* For entries of any width, the bits vmm_assign_map sets decode (Decoded) to what
\* the table has for the entry, the frame and the memory type that a call covering
\* it has asked for: the bits of the number and the three of the type do not
\* disturb each other.
THEOREM EntriesAreDecoded ==
  ASSUME 0 \notin Lengths
  PROVE  Spec => []EntriesMeanWhatWasAsked
<1>1. TypeOK /\ LatestInv /\ [Next]_vars => LatestInv'
  BY LatestNext
<1>2. TypeOK /\ Covered /\ [Next]_vars => Covered'
  BY CoveredNext
<1>3. Init => Covered
  BY DEF Init, Covered
<1> QED BY <1>1, <1>2, <1>3, StoresStayInTable, LatestInit, EntriesDecoded, PTL DEF Spec
=============================================================================
