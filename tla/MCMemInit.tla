----------------------------- MODULE MCMemInit -----------------------------
(***************************************************************************)
(* Memory maps of up to three usable areas with a hole between the first   *)
(* two, in one tag or in two, with tags of other kinds around them.        *)
(***************************************************************************)
EXTENDS MemInit

CONSTANTS Lens0, Addrs1, Lens1, Addrs2, Lens2, KernelEnds

MCBuddyStructs == <<8, 32, 16>>

Area(a, l, u) == [addr |-> a, len |-> l, usable |-> u]
Other == [mmap |-> FALSE, entries |-> <<>>]
Mmap(entries) == [mmap |-> TRUE, entries |-> entries]

\* A sequence of entries: low memory, a hole, and the memory above it.
Low(l0, a1, l1) == <<Area(0, l0, TRUE), Area(l0, a1 - l0, FALSE), Area(a1, l1, TRUE)>>
Maps ==
  {Low(l0, a1, l1) : l0 \in Lens0, a1 \in Addrs1, l1 \in Lens1} \cup
  {Append(Low(l0, a1, l1), Area(a2, l2, TRUE)) :
     l0 \in Lens0, a1 \in Addrs1, l1 \in Lens1, a2 \in Addrs2, l2 \in Lens2}

TagLists ==
  {<<Other, Mmap(m)>> : m \in Maps} \cup
  {<<Mmap(SubSeq(m, 1, 2)), Other, Mmap(SubSeq(m, 3, Len(m)))>> : m \in Maps}

MCBootInfos == [tags : TagLists, kernel_end : KernelEnds]
=============================================================================
