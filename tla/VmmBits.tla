------------------------------ MODULE VmmBits ------------------------------
(***************************************************************************)
(* What Vmm leaves out of vmm.c: the virtual addresses that are put        *)
(* together from table indices, and the bits of a page table entry.        *)
(*                                                                         *)
(* Addresses and indices are numbers.  A table has 2^IndexBits entries     *)
(* (the kernel's have 2^9), and an address is counted in pages: the offset *)
(* in the page goes through unchanged.  An entry is the set of its bits.   *)
(***************************************************************************)
EXTENDS Vmm, FiniteSets

CONSTANTS
  IndexBits,   \* 9
  SignBits,    \* 16: the bits above an address, all of them equal
  FrameBits    \* 40: the bits of a physical page number in an entry

\* The number with bit n set, of the numbers that occur.
Power[n \in 0..(4 * IndexBits + SignBits + FrameBits)] == IF n = 0 THEN 1 ELSE 2 * Power[n - 1]
Half == Power[IndexBits - 1]             \* index 256: the higher half
Sign == Power[4 * IndexBits] * (Power[SignBits] - 1)

\* There is an index above the one of the higher half, and physical page numbers
\* fit in an entry.
ASSUME BitsAssumption ==
  /\ IndexBits \in Nat /\ IndexBits >= 2
  /\ SignBits \in Nat /\ FrameBits \in Nat
  /\ VM_AREA_MAX <= Power[IndexBits]
  /\ \A page \in Pages, n \in Lengths : page + n <= Power[FrameBits]

-----------------------------------------------------------------------------
\* The map vmm_fetch_map returns for entry v: pml4 257, first page table there.
fetched(v) == [pml4 |-> Half + 1, pdpte |-> 0, pde |-> 0, pte |-> v]

\* vmm_assign_map: the address of a map.
vaddr_shifted(map) ==   \* faulty: a level too far
  Sign + map.pml4 * Power[3 * IndexBits] + map.pdpte * Power[2 * IndexBits]
       + map.pde * Power[IndexBits] + map.pte * 2
vaddr(map) ==
  Sign + map.pml4 * Power[3 * IndexBits] + map.pdpte * Power[2 * IndexBits]
       + map.pde * Power[IndexBits] + map.pte

\* scripts/address2tables.lua and scripts/tables2address.lua.
address2tables(a) ==
  LET index(level) == (a \div Power[level * IndexBits]) % Power[IndexBits]
  IN  [pml4 |-> index(3), pdpte |-> index(2), pde |-> index(1), pte |-> index(0)]
tables2address(t) ==
  LET address == t.pml4 * Power[3 * IndexBits] + t.pdpte * Power[2 * IndexBits]
                   + t.pde * Power[IndexBits] + t.pte
  IN  IF t.pml4 > Half - 1 THEN address + Sign ELSE address

\* pte_t: the places of its fields.
PRESENT == 0
RW == 1
PWT == 3
PCD == 4
PAT_12 == 12   \* faulty: where the entries for large pages have it
PAT == 7
FRAME == 12

\* vmm_assign_map: the entry for a page and a type.
Bits(n) == {k \in 0..(FrameBits - 1) : (n \div Power[k]) % 2 = 1}
pte_t(page, type) ==
  {PRESENT, RW} \cup {FRAME + k : k \in Bits(page)} \cup
  (CASE type = "PPT_UC" -> {PWT, PCD, PAT} [] type = "PPT_WT" -> {PWT} [] OTHER -> {})

\* What the processor makes of an entry: the frame in bits 12 to 51, and bits 7,
\* 4 and 3 as an index to the page attribute table, which nobody changes after
\* reset.
AttributeTable == <<"wb", "wt", "uc-", "uc", "wb", "wt", "uc-", "uc">>
Number(bits) ==
  LET sum[k \in 0..FrameBits] ==
        IF k = 0 THEN 0 ELSE sum[k - 1] + (IF k - 1 \in bits THEN Power[k - 1] ELSE 0)
  IN  sum[FrameBits]
Decoded(entry) ==
  <<Number({k \in 0..(FrameBits - 1) : 12 + k \in entry}),
    AttributeTable[1 + Cardinality({3} \cap entry) + 2 * Cardinality({4} \cap entry)
                     + 4 * Cardinality({7} \cap entry)]>>

-----------------------------------------------------------------------------
\* A driver counts on from the address it was given: k pages further on the
\* processor, and the developers' script, come to the k-th entry the call has
\* filled, in the area hung in at boot; the other script leads back.
AddressesCountOn ==
  \A m \in {maps[k] : k \in DOMAIN maps} : \A k \in 0..(m.n - 1) :
    LET address == vaddr(fetched(m.first)) + k
    IN  /\ address2tables(address) = fetched(m.first + k)
        /\ tables2address(address2tables(address)) = address

\* An entry has the meaning Vmm gives it (Entry): the processor finds in the
\* bits the page and the memory type the driver asked for, unchanged by
\* one another.
EntriesMeanWhatWasAsked ==
  \A v \in Entries : pt[v] # NONE =>
    \E m \in {maps[k] : k \in DOMAIN maps} :
      /\ v \in PagesOf(m)
      /\ Decoded(pte_t(m.page + (v - m.first), m.type)) = Sees(v)
=============================================================================
