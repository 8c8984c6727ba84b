---------------------------- MODULE BuddyProofs ----------------------------
(***************************************************************************)
(* What holds of buddy.c for every size of the area, every base address,   *)
(* every direct map and every set of callers: the tree is used within its  *)
(* bounds and the blocks handed out lie inside the area.  And what holds   *)
(* for one caller at a time: everything else one expects of an allocator.  *)
(***************************************************************************)
EXTENDS Buddy, NatLemmas, TLAPS

\* Sizes: bucket k has Shl[k] blocks of BlockSize(k) pages.
LEMMA Sizes ==
  \A k \in Buckets :
    /\ Shl[k] \in Nat \ {0}
    /\ Shl[k + 1] = 2 * Shl[k]
    /\ BlockSize(k) \in Nat \ {0}
    /\ Shl[k] * BlockSize(k) = Max
    /\ Max \in Nat \ {0}
<1> TAKE k \in Buckets
<1>1. /\ k \in 0..(Levels - 1) /\ k \in 0..Levels /\ k + 1 \in 0..Levels
      /\ Levels - 1 - k \in 0..Levels /\ Levels - 1 \in 0..Levels
      /\ k + (Levels - 1 - k) = Levels - 1
  BY BuddyAssumption DEF Buckets
<1>2. Shl[k] \in Nat \ {0} /\ Shl[Levels - 1 - k] \in Nat \ {0} /\ Shl[Levels - 1] \in Nat \ {0}
  BY <1>1, ShlAssumption
<1>3. Shl[k + 1] = 2 * Shl[k]
  BY <1>1, ShlAssumption
<1>4. Shl[k + (Levels - 1 - k)] = Shl[k] * Shl[Levels - 1 - k]
  <2>1. k + (Levels - 1 - k) <= Levels
    BY <1>1
  <2> QED BY <1>1, <2>1, ShlAssumption
<1> QED BY <1>1, <1>2, <1>3, <1>4 DEF BlockSize, Max

\* A factor is at most the product, and multiplication is monotone.
LEMMA Factor ==
  ASSUME NEW x \in Nat, NEW y \in Nat \ {0}
  PROVE  x <= x * y
OBVIOUS

LEMMA Monotone ==
  ASSUME NEW i \in Nat, NEW n \in Nat, i <= n, NEW b \in Nat
  PROVE  i * b <= n * b
<1>1. PICK d \in Nat : n = i + d
  <2>1. n - i \in Nat /\ n = i + (n - i)
    OBVIOUS
  <2> QED BY <2>1
<1>2. n * b = i * b + d * b
  BY <1>1
<1>3. d * b \in Nat /\ i * b \in Nat
  OBVIOUS
<1> QED BY <1>2, <1>3

LEMMA Multiple ==
  ASSUME NEW i \in Nat, NEW b \in Nat \ {0}
  PROVE  (i * b) % b = 0
OBVIOUS

LEMMA Quotient ==
  ASSUME NEW a \in Nat, NEW b \in Nat \ {0}, NEW s \in Nat, a < s * b
  PROVE  a \div b \in Nat /\ a \div b < s
<1> DEFINE q == a \div b
<1>1. q \in Nat /\ q * b <= a
  OBVIOUS
<1>2. CASE q < s
  BY <1>1, <1>2
<1>3. CASE s <= q
  <2> HIDE DEF q
  <2>1. s * b <= q * b
    BY <1>1, <1>3, Monotone
  <2>2. s * b \in Nat /\ q * b \in Nat
    BY <1>1
  <2> QED BY <1>1, <2>1, <2>2
<1> QED BY <1>1, <1>2, <1>3

\* The nodes of every bucket are nodes of the tree.
LEMMA NodesOfTree == \A k \in Buckets : NodesOf(k) \subseteq Nodes
<1> TAKE k \in Buckets
<1> DEFINE d == Levels - (k + 1)
<1>1. k + 1 \in 0..Levels /\ d \in 0..Levels /\ (k + 1) + d = Levels
  BY BuddyAssumption DEF Buckets
<1> HIDE DEF d
<1>2. Shl[Levels] = Shl[k + 1] * Shl[d]
  <2>1. (k + 1) + d <= Levels
    BY <1>1, BuddyAssumption
  <2>2. Shl[(k + 1) + d] = Shl[k + 1] * Shl[d]
    BY <1>1, <2>1, ShlAssumption
  <2> QED BY <1>1, <2>2
<1>3. Shl[k + 1] \in Nat \ {0} /\ Shl[d] \in Nat \ {0}
  BY <1>1, ShlAssumption
<1>4. Shl[k + 1] <= Shl[k + 1] * Shl[d]
  BY <1>3, Factor
<1>5. Shl[k] \in Nat \ {0} /\ Shl[k + 1] = 2 * Shl[k]
  BY Sizes
<1>6. Shl[Levels] \in Nat
  BY ShlAssumption, BuddyAssumption
<1>7. 2 * Shl[k] <= Shl[Levels]
  BY <1>2, <1>4, <1>5
<1> QED BY <1>5, <1>6, <1>7 DEF NodesOf, Nodes

\* Moving around the tree.
LEMMA Children ==
  \A k \in Buckets : k + 1 \in Buckets =>
    \A n \in NodesOf(k) : node_left(n) \in NodesOf(k + 1) /\ node_right(n) \in NodesOf(k + 1)
BY Sizes, BuddyAssumption DEF NodesOf, node_left, node_right, Buckets

LEMMA Relatives ==
  \A k \in Buckets : \A n \in NodesOf(k) : n # 0 =>
    /\ k - 1 \in Buckets
    /\ node_parent(n) \in NodesOf(k - 1)
    /\ node_sibling(n) \in NodesOf(k)
<1> SUFFICES ASSUME NEW k \in Buckets, NEW n \in NodesOf(k), n # 0
             PROVE  k - 1 \in Buckets /\ node_parent(n) \in NodesOf(k - 1)
                    /\ node_sibling(n) \in NodesOf(k)
  OBVIOUS
<1>1. k \in Nat /\ k # 0
  BY ShlAssumption, BuddyAssumption DEF NodesOf, Buckets
<1>2. k - 1 \in Buckets
  BY <1>1, BuddyAssumption DEF Buckets
<1>3. Shl[k - 1] \in Nat \ {0} /\ Shl[k] = 2 * Shl[k - 1]
  BY <1>1, <1>2, Sizes
<1> QED BY <1>2, <1>3 DEF NodesOf, node_parent, node_sibling

\* A node of bucket k stands for an aligned block inside the area, and an
\* address of the area stands for a node of bucket k.
LEMMA BlockOfNode ==
  \A k \in Buckets : \A n \in NodesOf(k) :
    /\ node2ptr(n, k) \in PageFrames
    /\ node2ptr(n, k) + BlockSize(k) <= Base + Max
    /\ (node2ptr(n, k) - Base) % BlockSize(k) = 0
<1> TAKE k \in Buckets
<1> TAKE n \in NodesOf(k)
<1> DEFINE s == Shl[k]  b == BlockSize(k)  i == n - Shl[k] + 1
<1>1. s \in Nat \ {0} /\ b \in Nat \ {0} /\ s * b = Max /\ Max \in Nat \ {0}
  BY Sizes
<1>2. i \in Nat /\ i + 1 <= s
  BY <1>1 DEF NodesOf
<1>3. node2ptr(n, k) = Base + i * b
  BY DEF node2ptr
<1> HIDE DEF s, b, i
<1>4. (i + 1) * b <= s * b
  BY <1>1, <1>2, Monotone
<1>5. i * b \in Nat /\ (i + 1) * b = i * b + b
  BY <1>1, <1>2
<1>6. (i * b) % b = 0
  BY <1>1, <1>2, Multiple
<1>7. Base + i * b \in PageFrames /\ Base + i * b + b <= Base + Max
  BY <1>1, <1>4, <1>5, BuddyAssumption DEF PageFrames
<1>8. (Base + i * b) - Base = i * b
  BY <1>5, BuddyAssumption
<1> QED BY <1>3, <1>6, <1>7, <1>8 DEF b

LEMMA NodeOfAddress ==
  \A k \in Buckets : \A p \in PageFrames : ptr2node(p, k) \in NodesOf(k)
<1> TAKE k \in Buckets
<1> TAKE p \in PageFrames
<1> DEFINE s == Shl[k]  b == BlockSize(k)
<1>1. s \in Nat \ {0} /\ b \in Nat \ {0} /\ s * b = Max /\ Max \in Nat \ {0}
  BY Sizes
<1>2. p - Base \in Nat /\ p - Base < s * b
  BY <1>1, BuddyAssumption DEF PageFrames
<1>3. (p - Base) \div b \in Nat /\ (p - Base) \div b < s
  BY <1>1, <1>2, Quotient
<1> QED BY <1>1, <1>3 DEF ptr2node, NodesOf
-----------------------------------------------------------------------------
\* The list operations keep every cell a pair of pointers, as long as the
\* pointers they store through are cells.
LEMMA HeadIsCell == \A k \in Buckets : Head(k) \in Cells
BY DEF Cells, Heads

LEMMA FrameIsCell == \A p \in PageFrames : vmm_phys2virt(p) \in Cells
BY DEF Cells

LEMMA FollowOk == \A p, q \in Cells \cup {NULL, Unknown} :
  Follow(p, q) = "ok" => p \in Cells /\ q \in Cells
<1> SUFFICES ASSUME NEW p \in Cells \cup {NULL, Unknown}, NEW q \in Cells \cup {NULL, Unknown},
                    Follow(p, q) = "ok"
             PROVE  p \in Cells /\ q \in Cells
  OBVIOUS
<1>1. p # NULL
  BY DEF Follow
<1>2. Unknown \notin {p, q}
  BY <1>1 DEF Follow
<1>3. p \in Cells
  BY <1>1, <1>2
<1>4. q # NULL
  BY <1>1, <1>2, <1>3 DEF Follow
<1> QED BY <1>2, <1>3, <1>4

LEMMA StoreTyped ==
  ASSUME NEW m \in [Cells -> ListT], NEW c \in Cells, NEW v \in Cells
  PROVE  /\ [m EXCEPT ![c].next = v] \in [Cells -> ListT]
         /\ [m EXCEPT ![c].prev = v] \in [Cells -> ListT]
BY DEF ListT

LEMMA PushbackTyped ==
  ASSUME NEW m \in [Cells -> ListT], NEW h \in Cells, NEW e \in Cells, m[h].prev \in Cells
  PROVE  list_pushback(m, h, e) \in [Cells -> ListT]
<1> DEFINE p == m[h].prev
           m1 == [m EXCEPT ![p].next = e]
           m2 == [m1 EXCEPT ![h].prev = e]
           m3 == [m2 EXCEPT ![e].prev = p]
           m4 == [m3 EXCEPT ![e].next = h]
<1>1. list_pushback(m, h, e) = m4
  BY DEF list_pushback
<1>2. m1 \in [Cells -> ListT]
  BY StoreTyped
<1> HIDE DEF m1
<1>3. m2 \in [Cells -> ListT]
  BY <1>2, StoreTyped
<1> HIDE DEF m2
<1>4. m3 \in [Cells -> ListT]
  BY <1>3, StoreTyped
<1> HIDE DEF m3
<1>5. m4 \in [Cells -> ListT]
  BY <1>4, StoreTyped
<1> QED BY <1>1, <1>5

LEMMA RemoveTyped ==
  ASSUME NEW m \in [Cells -> ListT], NEW e \in Cells, m[e].prev \in Cells, m[e].next \in Cells
  PROVE  list_remove(m, e) \in [Cells -> ListT]
<1> DEFINE p == m[e].prev
           n == m[e].next
           m1 == [m EXCEPT ![p].next = n]
           m2 == [m1 EXCEPT ![n].prev = p]
           m3 == [m2 EXCEPT ![e].next = e]
           m4 == [m3 EXCEPT ![e].prev = e]
<1>1. list_remove(m, e) = m4
  BY DEF list_remove
<1>2. m1 \in [Cells -> ListT]
  BY StoreTyped
<1> HIDE DEF m1
<1>3. m2 \in [Cells -> ListT]
  BY <1>2, StoreTyped
<1> HIDE DEF m2
<1>4. m3 \in [Cells -> ListT]
  BY <1>3, StoreTyped
<1> HIDE DEF m3
<1>5. m4 \in [Cells -> ListT]
  BY <1>4, StoreTyped
<1> QED BY <1>1, <1>5

LEMMA ZeroTyped ==
  ASSUME NEW m \in [Cells -> ListT], NEW e
  PROVE  [m EXCEPT ![e] = Zeroed] \in [Cells -> ListT]
BY DEF ListT, Zeroed

\* Granting a block of the area keeps the types.
LEMMA GrantTyped ==
  ASSUME TypeOK, NEW m \in [Cells -> ListT], NEW p \in PageFrames, NEW k \in Buckets,
         Grant(m, p, k)
  PROVE  /\ mem' \in [Cells -> ListT]
         /\ order' \in [PageFrames -> Buckets]
         /\ live' \in [Handles -> Block \cup {NoBlock}]
         /\ pc' = "idle" /\ node' = 0 /\ walker' = 0 /\ bkt' = 0 /\ ptr' = NULL
<1>1. mem' \in [Cells -> ListT]
  BY DEF Grant, ListT, Foreign
<1>2. order' \in [PageFrames -> Buckets]
  BY DEF Grant, TypeOK
<1>3. [ptr |-> p, bkt |-> k] \in Block
  BY DEF Block
<1>4. live' \in [Handles -> Block \cup {NoBlock}]
  BY <1>3 DEF Grant, TypeOK
<1> QED BY <1>1, <1>2, <1>4 DEF Grant, Return
-----------------------------------------------------------------------------
\* The bounds of the tree are kept by every step; the types with them.
Ind == TypeOK /\ TreeInBounds

LEMMA IndInit == Init => Ind
<1> SUFFICES ASSUME Init PROVE Ind
  OBVIOUS
<1> DEFINE lists == [c \in Cells |-> IF c \in Heads THEN [prev |-> c, next |-> c] ELSE Foreign]
<1>1. 0 \in Buckets /\ Base \in PageFrames /\ Max \in Nat
  <2>1. 0 \in Buckets
    BY BuddyAssumption DEF Buckets
  <2> QED BY <2>1, Sizes, BuddyAssumption DEF PageFrames
<1>2. lists \in [Cells -> ListT]
  BY DEF ListT, Foreign, Cells
<1>3. Head(0) \in Cells /\ vmm_phys2virt(Base) \in Cells /\ Head(0) \in Heads
  BY <1>1, HeadIsCell, FrameIsCell DEF Heads
<1>4. lists[Head(0)].prev \in Cells
  BY <1>3
<1>5. mem = list_pushback(lists, Head(0), vmm_phys2virt(Base))
  BY DEF Init, buddy_pushback
<1>6. mem \in [Cells -> ListT]
  <2> HIDE DEF lists
  <2> QED BY <1>2, <1>3, <1>4, <1>5, PushbackTyped
<1>7. TypeOK
  BY <1>1, <1>6 DEF Init, TypeOK
<1>8. TreeInBounds
  BY DEF Init, TreeInBounds
<1> QED BY <1>7, <1>8 DEF Ind

\* A crash leaves everything but the counter alone, and no loop is running.
LEMMA CrashInd ==
  ASSUME Ind, NEW outcome \in {"fault", "wild"}, Crash(outcome), available' \in Nat
  PROVE  Ind'
BY DEF Ind, TypeOK, TreeInBounds, Crash, locals

LEMMA FollowValues ==
  ASSUME NEW p, NEW q
  PROVE  Follow(p, q) \in {"ok", "fault", "wild"}
BY DEF Follow

LEMMA LinksValues ==
  ASSUME NEW m, NEW c
  PROVE  FollowLinks(m, c) \in {"ok", "fault", "wild"}
BY FollowValues DEF FollowLinks

\* A return from a call keeps the bounds.
LEMMA IdleInBounds == pc' = "idle" => TreeInBounds'
BY DEF TreeInBounds

LEMMA RequestTyped ==
  ASSUME TypeOK, NEW r, NEW k \in Buckets, Request(r, k)
  PROVE  available' \in Nat
BY Sizes DEF TypeOK, Request

\* buddy_alloc: the starts of a walk, and a block off a free list.
LEMMA AllocInd ==
  ASSUME Ind, NEW r \in Requests, AllocBeyondMax(r) \/ AllocWalk(r) \/ AllocPop(r)
  PROVE  Ind'
<1>1. TypeOK /\ TreeInBounds
  BY DEF Ind
<1>2. CASE AllocBeyondMax(r)
  <2>1. -1 + 1 \in 0..Levels /\ Levels - 1 - (-1) = Levels
    BY BuddyAssumption
  <2>2. Shl[Levels] \in Nat \ {0} /\ BlockSize(-1) = Shl[Levels]
    BY <2>1, ShlAssumption, BuddyAssumption DEF BlockSize
  <2>3. available' \in Nat
    BY <1>1, <1>2, <2>2 DEF AllocBeyondMax, Request, TypeOK
  <2> QED BY <1>2, <2>3, CrashInd DEF AllocBeyondMax
<1>3. CASE AllocWalk(r)
  <2>1. PICK k \in Buckets : Request(r, k) /\ pc' = "walk" /\ node' = 0 /\ walker' = 1
                             /\ bkt' = k /\ UNCHANGED <<mem, tree, order, live, ptr>>
    BY <1>3 DEF AllocWalk
  <2>2. available' \in Nat
    BY <1>1, <2>1, RequestTyped
  <2>3. TypeOK'
    BY <1>1, <2>1, <2>2, BuddyAssumption DEF TypeOK, Buckets
  <2>4. 0 \in Buckets /\ Shl[0] = 1 /\ 0 \in NodesOf(0)
    BY ShlAssumption, BuddyAssumption DEF Buckets, NodesOf
  <2>5. TreeInBounds'
    BY <2>1, <2>4 DEF TreeInBounds
  <2> QED BY <2>3, <2>5 DEF Ind
<1>4. CASE AllocPop(r)
  <2> DEFINE entry(k) == list_back(mem, Head(k))
             links(k) == FollowLinks(mem, entry(k))
             n(k) == ptr2node(entry(k), k)
  <2>1. PICK k \in Buckets :
          /\ Request(r, k)
          /\ \/ links(k) # "ok" /\ Crash(links(k))
             \/ links(k) = "ok" /\ ~HasPage(entry(k)) /\ Crash("fault")
             \/ /\ links(k) = "ok"
                /\ HasPage(entry(k))
                /\ tree' = IF n(k) = 0 THEN tree ELSE node_parent_flip(tree, n(k))
                /\ Grant(buddy_pop(mem, k), entry(k), k)
    BY <1>4 DEF AllocPop
  <2>2. available' \in Nat
    BY <1>1, <2>1, RequestTyped
  <2>3. CASE links(k) # "ok" /\ Crash(links(k))
    BY <2>2, <2>3, LinksValues, CrashInd
  <2>4. CASE links(k) = "ok" /\ ~HasPage(entry(k)) /\ Crash("fault")
    BY <2>2, <2>4, CrashInd
  <2>5. CASE /\ links(k) = "ok"
             /\ HasPage(entry(k))
             /\ tree' = IF n(k) = 0 THEN tree ELSE node_parent_flip(tree, n(k))
             /\ Grant(buddy_pop(mem, k), entry(k), k)
    <3>1. entry(k) \in PageFrames
      BY <2>5 DEF HasPage
    <3>2. entry(k) \in Cells \cup {NULL, Unknown}
      BY <1>1, HeadIsCell DEF list_back, TypeOK, ListT
    <3>3. entry(k) \in Cells
      BY <2>5, <3>2, FollowOk DEF FollowLinks
    <3>4. mem[entry(k)].prev \in Cells /\ mem[entry(k)].next \in Cells
      <4>1. mem[entry(k)].prev \in Cells \cup {NULL, Unknown}
            /\ mem[entry(k)].next \in Cells \cup {NULL, Unknown}
        BY <1>1, <3>3 DEF TypeOK, ListT
      <4> QED BY <2>5, <3>3, <4>1, FollowOk DEF FollowLinks
    <3>5. buddy_pop(mem, k) \in [Cells -> ListT]
      <4>1. list_remove(mem, entry(k)) \in [Cells -> ListT]
        BY <1>1, <3>3, <3>4, RemoveTyped DEF TypeOK
      <4> QED BY <4>1, ZeroTyped DEF buddy_pop, list_pop
    <3>6. tree' \in [Nodes -> BOOLEAN]
      BY <1>1, <2>5 DEF TypeOK, node_parent_flip
    <3>7. /\ mem' \in [Cells -> ListT]
          /\ order' \in [PageFrames -> Buckets]
          /\ live' \in [Handles -> Block \cup {NoBlock}]
          /\ pc' = "idle" /\ node' = 0 /\ walker' = 0 /\ bkt' = 0 /\ ptr' = NULL
      <4> HIDE DEF entry
      <4> QED BY <1>1, <2>5, <3>1, <3>5, GrantTyped
    <3>8. TypeOK'
      BY <2>2, <3>6, <3>7 DEF TypeOK
    <3> QED BY <3>7, <3>8, IdleInBounds DEF Ind
  <2> QED BY <2>1, <2>3, <2>4, <2>5
<1> QED BY <1>2, <1>3, <1>4

\* A walk goes one level down in every iteration.
LEMMA WalkInd ==
  ASSUME Ind, WalkFull \/ WalkSplit \/ WalkFails
  PROVE  Ind'
<1>1. TypeOK /\ TreeInBounds
  BY DEF Ind
<1>2. pc = "walk"
  BY DEF WalkFull, WalkSplit, WalkFails
<1>3. bkt \in Buckets /\ walker \in Nat /\ walker >= 1
  BY <1>1, <1>2 DEF TreeInBounds, TypeOK
<1>4. walker <= bkt => /\ walker - 1 \in Buckets /\ walker \in Buckets
                       /\ node \in NodesOf(walker - 1)
                       /\ node_left(node) \in NodesOf(walker)
                       /\ node_right(node) \in NodesOf(walker)
  <2> SUFFICES ASSUME walker <= bkt
               PROVE  /\ walker - 1 \in Buckets /\ walker \in Buckets
                      /\ node \in NodesOf(walker - 1)
                      /\ node_left(node) \in NodesOf(walker)
                      /\ node_right(node) \in NodesOf(walker)
    OBVIOUS
  <2>1. walker - 1 \in Buckets /\ walker \in Buckets /\ (walker - 1) + 1 = walker
    BY <1>3, BuddyAssumption DEF Buckets
  <2>2. node \in NodesOf(walker - 1)
    BY <1>1, <1>2 DEF TreeInBounds
  <2> QED BY <2>1, <2>2, Children
<1>5. CASE WalkFull
  <2>1. walker <= bkt /\ walker' = walker + 1 /\ node' = node_left(node)
    BY <1>5 DEF WalkFull
  <2>2. node' \in Nat /\ walker' \in Nat
    BY <1>1, <2>1 DEF TypeOK, node_left
  <2>3. TypeOK'
    BY <1>1, <1>5, <2>2 DEF TypeOK, WalkFull
  <2>4. walker' - 1 = walker
    BY <1>3, <2>1
  <2>5. TreeInBounds'
    BY <1>2, <1>3, <1>4, <1>5, <2>1, <2>4 DEF TreeInBounds, WalkFull
  <2> QED BY <2>3, <2>5 DEF Ind
<1>6. CASE WalkSplit
  <2> DEFINE left == node2ptr(node_left(node), walker)
             right == node2ptr(node_right(node), walker)
             prev == list_back(mem, Head(walker))
             m == buddy_pushback(mem, walker, left)
  <2>1. walker <= bkt /\ available' = available
    BY <1>6 DEF WalkSplit
  <2>2. prev \in Cells \cup {NULL, Unknown}
    BY <1>1, <1>4, <2>1, HeadIsCell DEF TypeOK, ListT, list_back
  <2>3. CASE Follow(prev, prev) # "ok" /\ Crash(Follow(prev, prev))
    <3>1. available' \in Nat
      BY <1>1, <2>1 DEF TypeOK
    <3> QED BY <2>3, <3>1, FollowValues, CrashInd
  <2>4. CASE /\ Follow(prev, prev) = "ok"
             /\ tree' = [tree EXCEPT ![node] = TRUE]
             /\ \/ walker = bkt /\ Grant(m, right, bkt)
                \/ /\ walker < bkt
                   /\ mem' = m
                   /\ node' = node_right(node)
                   /\ walker' = walker + 1
                   /\ UNCHANGED <<order, live, pc, bkt, ptr>>
    <3>1. left \in PageFrames /\ right \in PageFrames
      BY <1>4, <2>1, BlockOfNode
    <3>2. prev \in Cells
      BY <2>2, <2>4, FollowOk
    <3>3. m \in [Cells -> ListT]
      <4>1. vmm_phys2virt(left) \in Cells /\ Head(walker) \in Cells
        BY <1>4, <2>1, <3>1, FrameIsCell, HeadIsCell
      <4> QED BY <1>1, <3>2, <4>1, PushbackTyped DEF TypeOK, buddy_pushback, list_back
    <3>4. tree' \in [Nodes -> BOOLEAN]
      BY <1>1, <2>4 DEF TypeOK
    <3>5. CASE walker = bkt /\ Grant(m, right, bkt)
      <4> HIDE DEF m, right
      <4>1. /\ mem' \in [Cells -> ListT]
            /\ order' \in [PageFrames -> Buckets]
            /\ live' \in [Handles -> Block \cup {NoBlock}]
            /\ pc' = "idle" /\ node' = 0 /\ walker' = 0 /\ bkt' = 0 /\ ptr' = NULL
        BY <1>1, <1>3, <3>1, <3>3, <3>5, GrantTyped
      <4>2. TypeOK'
        BY <1>1, <2>1, <3>4, <4>1 DEF TypeOK
      <4> QED BY <4>1, <4>2, IdleInBounds DEF Ind
    <3>6. CASE /\ walker < bkt
               /\ mem' = m
               /\ node' = node_right(node)
               /\ walker' = walker + 1
               /\ UNCHANGED <<order, live, pc, bkt, ptr>>
      <4>1. node' \in Nat /\ walker' \in Nat
        BY <1>1, <3>6 DEF TypeOK, node_right
      <4>2. TypeOK'
        <5> HIDE DEF m
        <5> QED BY <1>1, <2>1, <3>3, <3>4, <3>6, <4>1 DEF TypeOK
      <4>3. walker' - 1 = walker
        BY <1>3, <3>6
      <4>4. TreeInBounds'
        BY <1>2, <1>3, <1>4, <2>1, <3>6, <4>3 DEF TreeInBounds
      <4> QED BY <4>2, <4>4 DEF Ind
    <3> QED BY <2>4, <3>5, <3>6
  <2> QED BY <1>6, <2>3, <2>4 DEF WalkSplit
<1>7. CASE WalkFails
  <2>1. TypeOK'
    BY <1>1, <1>7 DEF TypeOK, WalkFails, Return
  <2> QED BY <1>7, <2>1, IdleInBounds DEF Ind, WalkFails, Return
<1> QED BY <1>5, <1>6, <1>7

\* A merge goes one level up in every iteration, and stops at the root.
LEMMA FreeInd ==
  ASSUME Ind, (\E h \in Handles : Free(h)) \/ FreeMerge \/ FreeDone
  PROVE  Ind'
<1>1. TypeOK /\ TreeInBounds
  BY DEF Ind
<1>2. CASE \E h \in Handles : Free(h)
  <2>1. PICK h \in Handles : Free(h)
    BY <1>2
  <2>2. live[h].ptr \in PageFrames
    BY <1>1, <2>1 DEF Free, TypeOK, Block
  <2>3. order[live[h].ptr] \in Buckets
    BY <1>1, <2>2 DEF TypeOK
  <2>4. node' \in NodesOf(bkt') /\ bkt' \in Buckets /\ ptr' \in PageFrames /\ ptr' # NULL
    BY <2>1, <2>2, <2>3, NodeOfAddress, BuddyAssumption DEF Free, PageFrames, NULL
  <2>5. node' \in Nat /\ bkt' \in Nat
    BY <2>4, Sizes, BuddyAssumption DEF NodesOf, Buckets
  <2>6. TypeOK'
    BY <1>1, <2>1, <2>4, <2>5 DEF TypeOK, Free
  <2>7. TreeInBounds'
    BY <2>1, <2>4 DEF TreeInBounds, Free
  <2> QED BY <2>6, <2>7 DEF Ind
<1>3. ASSUME pc = "merge"
      PROVE  bkt \in Buckets /\ ptr \in PageFrames /\ node \in NodesOf(bkt)
  BY <1>1, <1>3 DEF TreeInBounds, TypeOK
<1>4. CASE FreeMerge
  <2> DEFINE sibling == node2ptr(node_sibling(node), bkt)
             links == FollowLinks(mem, vmm_phys2virt(sibling))
  <2>1. pc = "merge" /\ node # 0 /\ available' = available
    BY <1>4 DEF FreeMerge
  <2>2. /\ bkt - 1 \in Buckets
        /\ node_parent(node) \in NodesOf(bkt - 1)
        /\ node_sibling(node) \in NodesOf(bkt)
    BY <1>3, <2>1, Relatives
  <2>3. vmm_phys2virt(sibling) \in Cells
    BY <1>3, <2>1, <2>2, BlockOfNode, FrameIsCell
  <2>4. CASE links # "ok" /\ Crash(links)
    <3>1. available' \in Nat
      BY <1>1, <2>1 DEF TypeOK
    <3> QED BY <2>4, <3>1, LinksValues, CrashInd
  <2>5. CASE /\ links = "ok"
             /\ tree' = node_parent_flip(tree, node)
             /\ mem' = buddy_remove(mem, sibling)
             /\ bkt' = bkt - 1
             /\ node' = node_parent(node)
             /\ UNCHANGED <<order, live, pc, walker, ptr>>
    <3> HIDE DEF sibling
    <3>1. LET c == vmm_phys2virt(sibling) IN mem[c].prev \in Cells /\ mem[c].next \in Cells
      <4>1. LET c == vmm_phys2virt(sibling)
            IN  mem[c].prev \in Cells \cup {NULL, Unknown} /\ mem[c].next \in Cells \cup {NULL, Unknown}
        BY <1>1, <2>3 DEF TypeOK, ListT
      <4> QED BY <2>3, <2>5, <4>1, FollowOk DEF FollowLinks
    <3>2. mem' \in [Cells -> ListT]
      <4>1. list_remove(mem, vmm_phys2virt(sibling)) \in [Cells -> ListT]
        BY <1>1, <2>3, <3>1, RemoveTyped DEF TypeOK
      <4> QED BY <2>5, <4>1, ZeroTyped DEF buddy_remove
    <3>3. tree' \in [Nodes -> BOOLEAN]
      BY <1>1, <2>5 DEF TypeOK, node_parent_flip
    <3>4. node' \in Nat /\ bkt' \in Nat
      BY <2>2, <2>5, Sizes, BuddyAssumption DEF NodesOf, Buckets
    <3>5. TypeOK'
      BY <1>1, <2>1, <2>5, <3>2, <3>3, <3>4 DEF TypeOK
    <3>6. TreeInBounds'
      BY <1>1, <2>1, <2>2, <2>5 DEF TreeInBounds
    <3> QED BY <3>5, <3>6 DEF Ind
  <2> QED BY <1>4, <2>4, <2>5 DEF FreeMerge
<1>5. CASE FreeDone
  <2> DEFINE prev == list_back(mem, Head(bkt))
             block == node2ptr(node, bkt)
  <2>1. pc = "merge"
    BY <1>5 DEF FreeDone
  <2>2. available' \in Nat
    BY <1>1, <1>3, <1>5, <2>1, Sizes DEF FreeDone, TypeOK
  <2>3. prev \in Cells \cup {NULL, Unknown}
    BY <1>1, <1>3, <2>1, HeadIsCell DEF TypeOK, ListT, list_back
  <2>4. CASE Follow(prev, prev) # "ok" /\ Crash(Follow(prev, prev))
    BY <2>2, <2>4, FollowValues, CrashInd
  <2>5. CASE /\ Follow(prev, prev) = "ok"
             /\ tree' = IF node = 0 THEN tree ELSE node_parent_flip(tree, node)
             /\ mem' = buddy_pushback(mem, bkt, block)
             /\ order' = [order EXCEPT ![ptr] = 0]
             /\ Return
             /\ UNCHANGED live
    <3>1. vmm_phys2virt(block) \in Cells /\ Head(bkt) \in Cells
      BY <1>3, <2>1, BlockOfNode, FrameIsCell, HeadIsCell
    <3>2. prev \in Cells
      BY <2>3, <2>5, FollowOk
    <3>3. mem' \in [Cells -> ListT]
      BY <1>1, <2>5, <3>1, <3>2, PushbackTyped DEF TypeOK, buddy_pushback, list_back
    <3>4. tree' \in [Nodes -> BOOLEAN]
      BY <1>1, <2>5 DEF TypeOK, node_parent_flip
    <3>5. order' \in [PageFrames -> Buckets]
      <4>1. 0 \in Buckets
        BY BuddyAssumption DEF Buckets
      <4> QED BY <1>1, <2>5, <4>1 DEF TypeOK
    <3>6. TypeOK'
      BY <1>1, <2>2, <2>5, <3>3, <3>4, <3>5 DEF TypeOK, Return
    <3> QED BY <2>5, <3>6, IdleInBounds DEF Ind, Return
  <2> QED BY <1>5, <2>4, <2>5 DEF FreeDone
<1> QED BY <1>2, <1>4, <1>5

LEMMA NextInd == Ind /\ [Next]_vars => Ind'
<1> SUFFICES ASSUME Ind, [Next]_vars PROVE Ind'
  OBVIOUS
<1>1. CASE UNCHANGED vars
  BY <1>1 DEF vars, Ind, TypeOK, TreeInBounds
<1>2. CASE Call
  BY <1>2, AllocInd, FreeInd DEF Call
<1>3. CASE Iteration
  BY <1>3, WalkInd, FreeInd DEF Iteration
<1> QED BY <1>1, <1>2, <1>3 DEF Next

\* However wrong the free lists and the tree become, buddy.c never touches a
\* bit outside its tree, never lets bkt-- wrap below bucket 0, stores list_t's
\* only where blocks of its area begin, and hands out page frames of its area.
THEOREM TreeStaysInBounds == Spec => [](TypeOK /\ TreeInBounds)
<1>1. Ind => TypeOK /\ TreeInBounds
  BY DEF Ind
<1> QED BY <1>1, IndInit, NextInd, PTL DEF Spec

\* The tree, the links in free memory and the locals of buddy_alloc's and
\* buddy_free's loops keep their types, however wrong their contents become.
THEOREM BuddyTypes == Spec => []TypeOK
BY TreeStaysInBounds, PTL

-----------------------------------------------------------------------------
\* In the kernel a block comes from a split only: what the free lists return
\* is a virtual address, above the area.
LEMMA PopsCrash ==
  ASSUME DM_START # 0
  PROVE  Cells \cap PageFrames = {}
<1>1. Heads \cap PageFrames = {}
  BY AddressAssumption
<1>2. ASSUME NEW p \in PageFrames
      PROVE  vmm_phys2virt(p) \notin PageFrames
  <2>1. 0 \in Buckets
    BY BuddyAssumption DEF Buckets
  <2>2. Max \in Nat \ {0}
    BY <2>1, Sizes
  <2>3. DM_START >= Base + Max
    BY AddressAssumption
  <2> QED BY <1>2, <2>2, <2>3, BuddyAssumption DEF vmm_phys2virt, PageFrames
<1> QED BY <1>1, <1>2 DEF Cells

LEMMA GrantInArea ==
  ASSUME TypeOK, GrantsInArea, NEW m, NEW k \in Buckets, NEW n \in NodesOf(k),
         Grant(m, node2ptr(n, k), k)
  PROVE  GrantsInArea'
<1> DEFINE p == node2ptr(n, k)
           b == [ptr |-> p, bkt |-> k]
<1>1. p \in PageFrames /\ p + BlockSize(k) <= Base + Max /\ (p - Base) % BlockSize(k) = 0
  BY BlockOfNode
<1>2. BlockSize(k) \in Nat \ {0} /\ Max \in Nat \ {0}
  BY Sizes
<1>3. Frames(b) = p..(p + BlockSize(k) - 1)
  BY <1>1, BuddyAssumption DEF Frames, NoBlock, PageFrames, NULL
<1>4. p..(p + BlockSize(k) - 1) \subseteq PageFrames
  <2> HIDE DEF p
  <2> QED BY <1>1, <1>2, BuddyAssumption DEF PageFrames
<1>5. Frames(b) \subseteq PageFrames /\ (b.ptr - Base) % BlockSize(b.bkt) = 0
  BY <1>1, <1>3, <1>4
<1>6. \A h \in Handles : live'[h] = live[h] \/ live'[h] = b
  BY DEF Grant, TypeOK
<1> QED BY <1>5, <1>6 DEF GrantsInArea

LEMMA AreaInit == Init => GrantsInArea
BY DEF Init, GrantsInArea

LEMMA AreaNext == DM_START # 0 /\ Ind /\ GrantsInArea /\ [Next]_vars => GrantsInArea'
<1> SUFFICES ASSUME DM_START # 0, Ind, GrantsInArea, [Next]_vars PROVE GrantsInArea'
  OBVIOUS
<1>1. TypeOK /\ TreeInBounds
  BY DEF Ind
<1>2. CASE UNCHANGED live
  BY <1>2 DEF GrantsInArea
<1>3. ASSUME NEW r \in Requests, AllocPop(r) PROVE UNCHANGED live
  <2>1. PICK k \in Buckets :
          \/ UNCHANGED live
          \/ LET entry == list_back(mem, Head(k))
             IN  FollowLinks(mem, entry) = "ok" /\ HasPage(entry)
    BY <1>3 DEF AllocPop, Crash
  <2> DEFINE entry == list_back(mem, Head(k))
  <2>2. entry \in Cells \cup {NULL, Unknown}
    BY <1>1, HeadIsCell DEF list_back, TypeOK, ListT
  <2>3. FollowLinks(mem, entry) = "ok" => entry \in Cells
    BY <2>2, FollowOk DEF FollowLinks
  <2> QED BY <2>1, <2>3, PopsCrash DEF HasPage
<1>4. CASE WalkSplit
  <2>1. \/ UNCHANGED live
        \/ /\ pc = "walk" /\ walker <= bkt /\ walker = bkt
           /\ Grant(buddy_pushback(mem, walker, node2ptr(node_left(node), walker)),
                    node2ptr(node_right(node), walker), bkt)
    BY <1>4 DEF WalkSplit, Crash
  <2>2. ASSUME pc = "walk", walker <= bkt, walker = bkt
        PROVE  bkt \in Buckets /\ node_right(node) \in NodesOf(bkt)
    <3>1. /\ bkt - 1 \in Buckets /\ bkt \in Buckets /\ (bkt - 1) + 1 = bkt
          /\ node \in NodesOf(bkt - 1)
      BY <1>1, <2>2, BuddyAssumption DEF TreeInBounds, Buckets
    <3> QED BY <3>1, Children
  <2> QED BY <1>1, <1>2, <2>1, <2>2, GrantInArea
<1>5. ASSUME NEW h \in Handles, Free(h) PROVE GrantsInArea'
  BY <1>1, <1>5 DEF Free, GrantsInArea, TypeOK
<1> QED
  BY <1>2, <1>3, <1>4, <1>5 DEF Next, Call, Iteration, AllocBeyondMax, AllocWalk, Crash,
     WalkFull, WalkFails, FreeMerge, FreeDone, vars

\* With the kernel's direct map, every block a caller gets is a whole and
\* aligned block of the area, whatever was allocated and freed before.
THEOREM BlocksStayInArea ==
  ASSUME DM_START # 0
  PROVE  Spec => []GrantsInArea
<1>1. Spec => []Ind
  BY IndInit, NextInd, PTL DEF Spec
<1>2. Ind /\ GrantsInArea /\ [Next]_vars => GrantsInArea'
  BY AreaNext
<1> QED BY <1>1, <1>2, AreaInit, PTL DEF Spec

-----------------------------------------------------------------------------
\* One caller at a time.  Then at most one path of the tree is split, the one
\* along its right edge: a walk goes on with the right child of a node it has
\* split, and everything is merged before the next walk begins.
\*
\* The rightmost node and block of a bucket, and the cell of the block next to it.
Edge(k) == 2 * Shl[k] - 2
EdgeAt(k) == Base + Max - BlockSize(k)
Rest(k) == vmm_phys2virt(Base + Max - 2 * BlockSize(k))

\* With the edge split down to bucket k, every list down to there has the left
\* block of its bucket, and the ones below have none.
Path(k) == [n \in Nodes |-> \E j \in 0..(k - 1) : n = Edge(j)]
EdgeLists(m, k) ==
  \A j \in Buckets \ {0} :
    IF j <= k THEN /\ m[Head(j)] = [prev |-> Rest(j), next |-> Rest(j)]
                   /\ m[Rest(j)] = [prev |-> Head(j), next |-> Head(j)]
    ELSE m[Head(j)] = [prev |-> Head(j), next |-> Head(j)]

\* Nobody takes the whole area off its list when it is split: the head goes on
\* pointing at it, or at itself after a pop.
Area == vmm_phys2virt(Base)
AreaList(m) == m[Head(0)].prev \in {Head(0), Area}
AreaFree(m) == m[Head(0)].prev = Area /\ m[Area].prev \in {Head(0), Area} /\ m[Area].next = Head(0)

\* Shifts grow.
LEMMA ShlGrows ==
  ASSUME NEW j \in Buckets, NEW k \in 0..Levels, j < k
  PROVE  Shl[j] \in Nat \ {0} /\ Shl[k] \in Nat \ {0} /\ 2 * Shl[j] <= Shl[k]
<1> DEFINE d == k - (j + 1)
<1>1. j + 1 \in 0..Levels /\ d \in 0..Levels /\ (j + 1) + d = k /\ k <= Levels
  BY BuddyAssumption DEF Buckets
<1> HIDE DEF d
<1>2. Shl[k] = Shl[j + 1] * Shl[d]
  BY <1>1, ShlAssumption
<1>3. Shl[j + 1] \in Nat \ {0} /\ Shl[d] \in Nat \ {0} /\ Shl[k] \in Nat \ {0}
  BY <1>1, ShlAssumption
<1>4. Shl[j] \in Nat \ {0} /\ Shl[j + 1] = 2 * Shl[j]
  BY Sizes
<1>5. Shl[j + 1] <= Shl[k]
  BY <1>2, <1>3, Factor
<1> QED BY <1>3, <1>4, <1>5

LEMMA BlocksShrink ==
  ASSUME NEW j \in Buckets, NEW k \in Buckets, j < k
  PROVE  BlockSize(j) \in Nat \ {0} /\ BlockSize(k) \in Nat \ {0} /\ 2 * BlockSize(k) <= BlockSize(j)
<1>1. /\ Levels - 1 - k \in Buckets /\ Levels - 1 - j \in 0..Levels
      /\ Levels - 1 - k < Levels - 1 - j
  BY BuddyAssumption DEF Buckets
<1> QED BY <1>1, ShlGrows DEF BlockSize

\* The edge of the tree.
LEMMA EdgeNodes ==
  ASSUME NEW k \in Buckets
  PROVE  /\ Edge(k) \in NodesOf(k) /\ Edge(k) \in Nodes /\ Edge(k) \in Nat
         /\ node2ptr(Edge(k), k) = EdgeAt(k)
         /\ Edge(k) = 0 <=> k = 0
         /\ Edge(0) = 0
<1>1. Shl[k] \in Nat \ {0} /\ BlockSize(k) \in Nat \ {0} /\ Shl[k] * BlockSize(k) = Max /\ Max \in Nat
  BY Sizes
<1>2. Edge(k) \in NodesOf(k) /\ Edge(k) \in Nat
  BY <1>1 DEF Edge, NodesOf
<1>3. (Edge(k) - Shl[k] + 1) * BlockSize(k) = Max - BlockSize(k)
  <2>1. Edge(k) - Shl[k] + 1 = Shl[k] - 1
    BY <1>1 DEF Edge
  <2>2. (Shl[k] - 1) * BlockSize(k) = Shl[k] * BlockSize(k) - BlockSize(k)
    BY <1>1
  <2> QED BY <1>1, <2>1, <2>2
<1>4. node2ptr(Edge(k), k) = EdgeAt(k)
  BY <1>1, <1>3, BuddyAssumption DEF node2ptr, EdgeAt
<1>5. Edge(0) = 0
  BY ShlAssumption DEF Edge
<1>6. k # 0 => Edge(k) # 0
  <2>1. SUFFICES ASSUME k # 0 PROVE Edge(k) # 0
    OBVIOUS
  <2>2. 0 \in Buckets /\ 0 < k /\ k \in 0..Levels
    BY <2>1, BuddyAssumption DEF Buckets
  <2>3. 2 * Shl[0] <= Shl[k]
    BY <2>2, ShlGrows
  <2> QED BY <1>1, <2>3, ShlAssumption DEF Edge
<1> QED BY <1>2, <1>4, <1>5, <1>6, NodesOfTree

LEMMA EdgesDistinct ==
  ASSUME NEW j \in Buckets, NEW k \in Buckets, j < k
  PROVE  Edge(j) < Edge(k) /\ Edge(j) # Edge(k)
<1>1. Shl[j] \in Nat \ {0} /\ Shl[k] \in Nat \ {0} /\ 2 * Shl[j] <= Shl[k]
  BY ShlGrows, BuddyAssumption DEF Buckets
<1> QED BY <1>1 DEF Edge

\* One level down and up along the edge.
LEMMA EdgeSteps ==
  ASSUME NEW k \in Buckets, k # 0
  PROVE  /\ k - 1 \in Buckets /\ (k - 1) + 1 = k
         /\ node_right(Edge(k - 1)) = Edge(k)
         /\ node_parent(Edge(k)) = Edge(k - 1)
         /\ node2ptr(node_left(Edge(k - 1)), k) = Base + Max - 2 * BlockSize(k)
         /\ node_sibling(Edge(k)) = node_left(Edge(k - 1))
         /\ Base + Max - 2 * BlockSize(k) \in PageFrames
<1>1. k - 1 \in Buckets /\ (k - 1) + 1 = k
  BY BuddyAssumption DEF Buckets
<1>2. /\ Shl[k - 1] \in Nat \ {0} /\ Shl[k] = 2 * Shl[k - 1]
      /\ Shl[k] \in Nat \ {0} /\ BlockSize(k) \in Nat \ {0}
      /\ Shl[k] * BlockSize(k) = Max /\ Max \in Nat
  BY <1>1, Sizes
<1>3. Edge(k) = 2 * Edge(k - 1) + 2 /\ Edge(k - 1) \in Nat
  BY <1>2 DEF Edge
<1>4. /\ node_right(Edge(k - 1)) = Edge(k) /\ node_parent(Edge(k)) = Edge(k - 1)
      /\ node_sibling(Edge(k)) = node_left(Edge(k - 1))
  BY <1>3 DEF node_right, node_left, node_parent, node_sibling
<1>5. node2ptr(node_left(Edge(k - 1)), k) = Base + Max - 2 * BlockSize(k)
  <2>1. node_left(Edge(k - 1)) - Shl[k] + 1 = Shl[k] - 2
    BY <1>2 DEF Edge, node_left
  <2>2. (Shl[k] - 2) * BlockSize(k) = Shl[k] * BlockSize(k) - 2 * BlockSize(k)
    BY <1>2
  <2> QED BY <1>2, <2>1, <2>2, BuddyAssumption DEF node2ptr
<1>6. node_left(Edge(k - 1)) \in NodesOf(k)
  BY <1>1, EdgeNodes, Children
<1> QED BY <1>1, <1>4, <1>5, <1>6, BlockOfNode

\* The cells of the lists along the edge are all different.
LEMMA EdgeCells ==
  ASSUME NEW j \in Buckets, NEW k \in Buckets, j # 0
  PROVE  /\ Head(j) \in Cells /\ Head(k) \in Cells /\ Rest(j) \in Cells
         /\ Head(k) # Rest(j)
         /\ j # k => Head(j) # Head(k)
         /\ j # k /\ k # 0 => Rest(j) # Rest(k)
<1>1. Base + Max - 2 * BlockSize(j) \in PageFrames
  BY EdgeSteps
<1>2. Head(j) \in Cells /\ Head(k) \in Cells /\ Head(k) \in Heads /\ Rest(j) \in Cells
  BY <1>1, HeadIsCell, FrameIsCell DEF Rest, Heads
<1>3. Head(k) # Rest(j)
  BY <1>1, <1>2, AddressAssumption DEF Rest
<1>4. j # k => Head(j) # Head(k)
  BY BuddyAssumption DEF Head, Buckets
<1>5. ASSUME j # k, k # 0 PROVE Rest(j) # Rest(k)
  <2>1. /\ BlockSize(j) \in Nat \ {0} /\ BlockSize(k) \in Nat \ {0} /\ Max \in Nat
        /\ j \in Nat /\ k \in Nat
    BY Sizes DEF Buckets
  <2>2. BlockSize(j) # BlockSize(k)
    <3>1. j < k \/ k < j
      BY <1>5, <2>1
    <3> QED BY <2>1, <3>1, BlocksShrink
  <2> QED BY <2>1, <2>2, BuddyAssumption DEF Rest, vmm_phys2virt
<1> QED BY <1>2, <1>3, <1>4, <1>5

-----------------------------------------------------------------------------
\* The list operations on a list of at most one entry.
LEMMA PushOnEmpty ==
  ASSUME NEW m \in [Cells -> ListT], NEW h \in Cells, NEW e \in Cells, h # e,
         m[h] = [prev |-> h, next |-> h]
  PROVE  LET n == list_pushback(m, h, e)
         IN  /\ n[h] = [prev |-> e, next |-> e] /\ n[e] = [prev |-> h, next |-> h]
             /\ \A c \in Cells : c \notin {h, e} => n[c] = m[c]
<1> DEFINE p == m[h].prev
           m1 == [m EXCEPT ![p].next = e]
           m2 == [m1 EXCEPT ![h].prev = e]
           m3 == [m2 EXCEPT ![e].prev = p]
           m4 == [m3 EXCEPT ![e].next = h]
<1>1. list_pushback(m, h, e) = m4
  BY DEF list_pushback
<1>0. p = h
  OBVIOUS
<1>2. m1 \in [Cells -> ListT] /\ m1[h].next = e /\ (\A c \in Cells : c # h => m1[c] = m[c])
  BY <1>0, StoreTyped DEF ListT
<1> HIDE DEF m1, p
<1>3. /\ m2 \in [Cells -> ListT] /\ m2[h].prev = e /\ m2[h].next = e
      /\ \A c \in Cells : c # h => m2[c] = m[c]
  BY <1>2, StoreTyped DEF ListT
<1> HIDE DEF m2
<1>4. /\ m3 \in [Cells -> ListT] /\ m3[h] = m2[h] /\ m3[e].prev = h
      /\ \A c \in Cells : c \notin {h, e} => m3[c] = m[c]
  BY <1>0, <1>3, StoreTyped DEF ListT
<1> HIDE DEF m3
<1>5. /\ m4 \in [Cells -> ListT] /\ m4[h] = m2[h] /\ m4[e].prev = h /\ m4[e].next = h
      /\ \A c \in Cells : c \notin {h, e} => m4[c] = m[c]
  BY <1>4, StoreTyped DEF ListT
<1> HIDE DEF m4
<1>6. m4[h] = [prev |-> e, next |-> e] /\ m4[e] = [prev |-> h, next |-> h]
  BY <1>3, <1>5 DEF ListT
<1> QED BY <1>1, <1>5, <1>6

LEMMA RemoveLast ==
  ASSUME NEW m \in [Cells -> ListT], NEW h \in Cells, NEW e \in Cells, h # e,
         m[h] = [prev |-> e, next |-> e], m[e] = [prev |-> h, next |-> h]
  PROVE  LET n == list_remove(m, e)
         IN  /\ n[h] = [prev |-> h, next |-> h]
             /\ \A c \in Cells : c \notin {h, e} => n[c] = m[c]
<1> DEFINE p == m[e].prev
           q == m[e].next
           m1 == [m EXCEPT ![p].next = q]
           m2 == [m1 EXCEPT ![q].prev = p]
           m3 == [m2 EXCEPT ![e].next = e]
           m4 == [m3 EXCEPT ![e].prev = e]
<1>1. list_remove(m, e) = m4
  BY DEF list_remove
<1>0. p = h /\ q = h
  OBVIOUS
<1>2. m1 \in [Cells -> ListT] /\ m1[h].next = h /\ (\A c \in Cells : c # h => m1[c] = m[c])
  BY <1>0, StoreTyped DEF ListT
<1> HIDE DEF m1
<1>3. /\ m2 \in [Cells -> ListT] /\ m2[h].prev = h /\ m2[h].next = h
      /\ \A c \in Cells : c # h => m2[c] = m[c]
  BY <1>0, <1>2, StoreTyped DEF ListT
<1> HIDE DEF m2, p, q
<1>4. /\ m3 \in [Cells -> ListT] /\ m3[h] = m2[h]
      /\ \A c \in Cells : c \notin {h, e} => m3[c] = m[c]
  BY <1>3, StoreTyped
<1> HIDE DEF m3
<1>5. /\ m4[h] = m2[h] /\ \A c \in Cells : c \notin {h, e} => m4[c] = m[c]
  BY <1>4
<1> HIDE DEF m4
<1>6. m4[h] = [prev |-> h, next |-> h]
  BY <1>3, <1>5 DEF ListT
<1> QED BY <1>1, <1>5, <1>6

\* On the list of the whole area the entry may already be what the head points
\* at: pushed again, it is linked to itself, and popped, it stays.
LEMMA PushAgain ==
  ASSUME NEW m \in [Cells -> ListT], NEW h \in Cells, NEW e \in Cells, h # e,
         m[h].prev \in {h, e}
  PROVE  LET n == list_pushback(m, h, e)
         IN  /\ n[h].prev = e /\ n[e].prev \in {h, e} /\ n[e].next = h
             /\ \A c \in Cells : c \notin {h, e} => n[c] = m[c]
<1> DEFINE p == m[h].prev
           m1 == [m EXCEPT ![p].next = e]
           m2 == [m1 EXCEPT ![h].prev = e]
           m3 == [m2 EXCEPT ![e].prev = p]
           m4 == [m3 EXCEPT ![e].next = h]
<1>1. list_pushback(m, h, e) = m4
  BY DEF list_pushback
<1>2. p \in {h, e}
  OBVIOUS
<1>3. m1 \in [Cells -> ListT] /\ (\A c \in Cells : c \notin {h, e} => m1[c] = m[c])
  BY <1>2, StoreTyped
<1> HIDE DEF m1, p
<1>4. /\ m2 \in [Cells -> ListT] /\ m2[h].prev = e
      /\ \A c \in Cells : c \notin {h, e} => m2[c] = m[c]
  <2>1. m2 \in [Cells -> ListT]
    BY <1>3, StoreTyped
  <2>2. m2[h].prev = e
    BY <1>3 DEF ListT
  <2>3. \A c \in Cells : c # h => m2[c] = m1[c]
    BY <1>3
  <2> QED BY <1>3, <2>1, <2>2, <2>3
<1> HIDE DEF m2
<1>5. /\ m3 \in [Cells -> ListT] /\ m3[h].prev = e /\ m3[e].prev = p
      /\ \A c \in Cells : c \notin {h, e} => m3[c] = m[c]
  BY <1>2, <1>4, StoreTyped DEF ListT
<1> HIDE DEF m3
<1>6. /\ m4[h].prev = e /\ m4[e].prev = p /\ m4[e].next = h
      /\ \A c \in Cells : c \notin {h, e} => m4[c] = m[c]
  BY <1>5 DEF ListT
<1> QED BY <1>1, <1>2, <1>6

LEMMA PopAgain ==
  ASSUME NEW m \in [Cells -> ListT], NEW h \in Cells, NEW e \in Cells, h # e,
         m[e].prev \in {h, e}, m[e].next = h
  PROVE  LET n == list_remove(m, e)
         IN  /\ n[h].prev \in {h, e}
             /\ \A c \in Cells : c \notin {h, e} => n[c] = m[c]
<1> DEFINE p == m[e].prev
           m1 == [m EXCEPT ![p].next = h]
           m2 == [m1 EXCEPT ![h].prev = p]
           m3 == [m2 EXCEPT ![e].next = e]
           m4 == [m3 EXCEPT ![e].prev = e]
<1>1. list_remove(m, e) = m4
  BY DEF list_remove
<1>2. p \in {h, e} /\ p \in Cells
  OBVIOUS
<1>3. m1 \in [Cells -> ListT] /\ (\A c \in Cells : c \notin {h, e} => m1[c] = m[c])
  BY <1>2, StoreTyped
<1> HIDE DEF m1, p
<1>4. /\ m2 \in [Cells -> ListT] /\ m2[h].prev = p
      /\ \A c \in Cells : c \notin {h, e} => m2[c] = m[c]
  BY <1>2, <1>3, StoreTyped DEF ListT
<1> HIDE DEF m2
<1>5. /\ m3 \in [Cells -> ListT] /\ m3[h] = m2[h]
      /\ \A c \in Cells : c \notin {h, e} => m3[c] = m[c]
  BY <1>4, StoreTyped
<1> HIDE DEF m3
<1>6. /\ m4[h] = m2[h] /\ \A c \in Cells : c \notin {h, e} => m4[c] = m[c]
  BY <1>5
<1> QED BY <1>1, <1>2, <1>4, <1>6

\* Links between cells can be followed.
LEMMA CellsFollow ==
  ASSUME NEW p \in Cells, NEW q \in Cells
  PROVE  Follow(p, q) = "ok" /\ NULL \notin Cells /\ Unknown \notin Cells
<1>1. NULL \notin Cells /\ Unknown \notin Cells
  BY BuddyAssumption, Sizes DEF Cells, Heads, Head, NULL, Unknown, vmm_phys2virt, PageFrames, Buckets
<1> QED BY <1>1 DEF Follow

-----------------------------------------------------------------------------
\* buddy_find_bkt for requests that fit: some bucket's blocks are large enough,
\* and the whole area is taken only for more than half of it.
LEMMA BucketFound ==
  ASSUME NEW r \in 1..Max
  PROVE  /\ buddy_find_bkt(r) \in Buckets
         /\ buddy_find_bkt(r) = 0 => 2 * r > Max
<1> DEFINE Fit(k) == /\ BlockSize(k) >= r
                     /\ \A j \in (k + 1)..(Levels - 1) : BlockSize(j) < r
           Up == {Levels - 1 - k : k \in {b \in Buckets : BlockSize(b) >= r}}
           f == buddy_find_bkt(r)
<1>1. 0 \in Buckets /\ BlockSize(0) = Max /\ Levels \in Nat /\ r \in Nat
  BY BuddyAssumption, Sizes DEF Buckets, BlockSize, Max
<1>2. Up \in SUBSET Nat /\ Up # {}
  BY <1>1 DEF Buckets
<1>3. PICK n \in Up : \A m \in Up : n <= m
  BY <1>2, LeastNatural
<1>4. PICK k \in Buckets : n = Levels - 1 - k /\ BlockSize(k) >= r
  BY <1>3
<1>5. ASSUME NEW j \in (k + 1)..(Levels - 1) PROVE BlockSize(j) < r
  <2>1. j \in Buckets /\ ~(n <= Levels - 1 - j)
    BY <1>1, <1>4, <1>5 DEF Buckets
  <2>2. ~(BlockSize(j) >= r)
    BY <1>3, <2>1
  <2> QED BY <1>1, <2>1, <2>2, Sizes
<1>6. Fit(k) /\ k \in -1..(Levels - 1)
  BY <1>1, <1>4, <1>5 DEF Buckets
<1>7. f = CHOOSE b \in -1..(Levels - 1) : Fit(b)
  BY DEF buddy_find_bkt
<1>8. f \in -1..(Levels - 1) /\ Fit(f)
  BY <1>6, <1>7
<1> HIDE DEF f, Up
<1>9. f # -1
  <2>1. SUFFICES ASSUME f = -1 PROVE FALSE
    OBVIOUS
  <2>2. 0 \in (f + 1)..(Levels - 1)
    BY <1>1, <2>1, BuddyAssumption
  <2>3. BlockSize(0) < r
    BY <1>8, <2>2
  <2> QED BY <1>1, <2>3, Sizes
<1>10. f \in Buckets
  BY <1>1, <1>8, <1>9 DEF Buckets
<1>11. f = 0 => 2 * r > Max
  <2>1. SUFFICES ASSUME f = 0 PROVE 2 * r > Max
    OBVIOUS
  <2>2. CASE Levels = 1
    BY <1>1, <2>2, ShlAssumption DEF Max
  <2>3. CASE Levels # 1
    <3>1. 1 \in (f + 1)..(Levels - 1) /\ 1 \in Buckets
      BY <1>1, <2>1, <2>3, BuddyAssumption DEF Buckets
    <3>2. BlockSize(1) < r /\ BlockSize(1) \in Nat
      BY <1>8, <3>1, Sizes
    <3>3. 2 * BlockSize(1) = Max /\ Max \in Nat
      <4>1. /\ Levels - 2 \in 0..(Levels - 1) /\ (Levels - 2) + 1 = Levels - 1
            /\ Levels - 1 - 1 = Levels - 2
        BY <1>1, <2>3, BuddyAssumption
      <4>2. Shl[Levels - 1] = 2 * Shl[Levels - 2]
        BY <4>1, ShlAssumption
      <4> QED BY <1>1, <4>1, <4>2, Sizes DEF BlockSize, Max
    <3> QED BY <1>1, <3>2, <3>3
  <2> QED BY <2>2, <2>3
<1> QED BY <1>10, <1>11 DEF f

\* Splitting and merging on the edge of the tree.
LEMMA PathSteps ==
  ASSUME NEW k \in Buckets, k # 0
  PROVE  /\ [Path(k - 1) EXCEPT ![Edge(k - 1)] = TRUE] = Path(k)
         /\ [Path(k) EXCEPT ![Edge(k - 1)] = ~@] = Path(k - 1)
         /\ Edge(k - 1) \in Nodes /\ ~Path(k - 1)[Edge(k - 1)] /\ Path(k)[Edge(k - 1)]
<1>1. k \in Nat /\ k - 1 \in Buckets /\ Edge(k - 1) \in Nodes
  BY EdgeSteps, EdgeNodes DEF Buckets
<1>2. ASSUME NEW j \in 0..(k - 1 - 1) PROVE Edge(j) # Edge(k - 1)
  <2>1. j \in Buckets /\ j < k - 1
    BY <1>1, <1>2, BuddyAssumption DEF Buckets
  <2> QED BY <1>1, <2>1, EdgesDistinct
<1>3. 0..(k - 1) = 0..(k - 1 - 1) \cup {k - 1}
  BY <1>1
<1>4. \A n \in Nodes : Path(k)[n] = (Path(k - 1)[n] \/ n = Edge(k - 1))
  BY <1>3 DEF Path
<1>5. ~Path(k - 1)[Edge(k - 1)]
  BY <1>1, <1>2 DEF Path
<1>6. /\ Path(k) \in [Nodes -> BOOLEAN] /\ Path(k - 1) \in [Nodes -> BOOLEAN]
  BY DEF Path
<1> DEFINE a == Path(k - 1)  b == Path(k)  n0 == Edge(k - 1)
<1>7. a \in [Nodes -> BOOLEAN] /\ b \in [Nodes -> BOOLEAN] /\ n0 \in Nodes /\ ~a[n0]
      /\ \A n \in Nodes : b[n] = (a[n] \/ n = n0)
  BY <1>1, <1>4, <1>5, <1>6
<1> HIDE DEF a, b, n0
<1>8. [a EXCEPT ![n0] = TRUE] = b
  BY <1>7
<1>9. [b EXCEPT ![n0] = ~@] = a
  <2>1. DOMAIN [b EXCEPT ![n0] = ~@] = Nodes /\ DOMAIN a = Nodes
    BY <1>7
  <2>2. \A n \in Nodes : [b EXCEPT ![n0] = ~@][n] = a[n]
    BY <1>7, Zenon
  <2> QED BY <1>7, <2>1, <2>2
<1> QED BY <1>7, <1>8, <1>9 DEF a, b, n0

-----------------------------------------------------------------------------
\* What the tree and the lists are at every point of a call of the only caller.
Split(k) == EdgeLists(mem, k) /\ tree = Path(k)

OneInv(h) ==
  /\ pc \in {"idle", "walk", "merge"}
  /\ \A g \in Handles \ {h} : live[g] = NoBlock
  /\ AreaList(mem)
  /\ pc = "idle" /\ live[h] = NoBlock => Split(0) /\ AreaFree(mem) /\ available >= Max
  /\ pc = "idle" /\ live[h] # NoBlock =>
       \E b \in Buckets : /\ live[h] = [ptr |-> EdgeAt(b), bkt |-> b]
                          /\ order[EdgeAt(b)] = b /\ Split(b)
  /\ pc = "walk" => /\ live[h] = NoBlock /\ bkt \in Buckets /\ walker \in 1..bkt
                    /\ node = Edge(walker - 1) /\ Split(walker - 1)
  /\ pc = "merge" => live[h] = NoBlock /\ bkt \in Buckets /\ node = Edge(bkt) /\ Split(bkt)

\* The name a block gets while no other is held.
First(h) == h \in Handles /\ \A g \in Handles : h <= g

\* Requests that fit, and with the kernel's direct map none for the whole area:
\* that would be served from a list, and buddy_pop returns no physical address.
Fits(r) == r \in 1..Max /\ (DM_START # 0 => 2 * r <= Max)
RequestsFit == \A r \in Requests : Fits(r)

LEMMA FirstOfOne ==
  ASSUME NEW h, Handles = {h}
  PROVE  First(h)
<1>1. h \in Nat
  BY BuddyAssumption
<1> QED BY <1>1 DEF First

LEMMA AreaCells ==
  /\ Head(0) \in Cells /\ Area \in Cells /\ Head(0) # Area /\ Head(0) \in Heads
  /\ EdgeAt(0) = Base /\ Base \in PageFrames /\ 0 \in Buckets /\ node2ptr(0, 0) = Base
<1>1. 0 \in Buckets /\ BlockSize(0) = Max /\ Max \in Nat \ {0}
  BY BuddyAssumption, Sizes DEF Buckets, BlockSize, Max
<1>2. EdgeAt(0) = Base /\ Base \in PageFrames
  BY <1>1, BuddyAssumption DEF EdgeAt, PageFrames
<1>3. Head(0) \in Cells /\ Area \in Cells /\ Head(0) \in Heads
  BY <1>1, <1>2, HeadIsCell, FrameIsCell DEF Area, Heads
<1>4. Head(0) # Area
  BY <1>2, <1>3, AddressAssumption DEF Area
<1>5. node2ptr(0, 0) = Base
  BY <1>1, <1>2, EdgeNodes
<1> QED BY <1>1, <1>2, <1>3, <1>4, <1>5

LEMMA OneInit ==
  ASSUME NEW h \in Handles, Init
  PROVE  OneInv(h)
<1> DEFINE lists == [c \in Cells |-> IF c \in Heads THEN [prev |-> c, next |-> c] ELSE Foreign]
<1>1. lists \in [Cells -> ListT]
  BY DEF ListT, Foreign, Cells
<1>2. mem = list_pushback(lists, Head(0), Area)
  BY DEF Init, buddy_pushback, Area
<1>3. lists[Head(0)] = [prev |-> Head(0), next |-> Head(0)]
  BY AreaCells
<1> HIDE DEF lists
<1>4. /\ mem[Head(0)] = [prev |-> Area, next |-> Area]
      /\ mem[Area] = [prev |-> Head(0), next |-> Head(0)]
      /\ \A c \in Cells : c \notin {Head(0), Area} => mem[c] = lists[c]
  BY <1>1, <1>2, <1>3, AreaCells, PushOnEmpty
<1>5. AreaFree(mem) /\ AreaList(mem)
  BY <1>4 DEF AreaFree, AreaList
<1>6. EdgeLists(mem, 0)
  <2>1. ASSUME NEW j \in Buckets \ {0} PROVE mem[Head(j)] = [prev |-> Head(j), next |-> Head(j)] /\ ~(j <= 0)
    <3>1. /\ Head(j) \in Heads /\ Head(j) \in Cells /\ Head(j) # Head(0) /\ Head(j) # Area
      BY AreaCells, EdgeCells, AddressAssumption DEF Heads, Area
    <3>2. ~(j <= 0)
      BY <2>1 DEF Buckets
    <3> QED BY <1>4, <3>1, <3>2 DEF lists
  <2> QED BY <2>1 DEF EdgeLists
<1>7. tree = Path(0)
  BY DEF Init, Path
<1>8. /\ available = Max /\ pc = "idle" /\ Max \in Nat
      /\ \A g \in Handles : live[g] = NoBlock
  BY AreaCells, Sizes DEF Init
<1> QED BY <1>5, <1>6, <1>7, <1>8 DEF OneInv, Split

\* The owner of the rightmost block writes to none of the other cells.
LEMMA GrantOnEdge ==
  ASSUME TypeOK, NEW h, First(h), \A g \in Handles : live[g] = NoBlock,
         NEW k \in Buckets, NEW m, Grant(m, EdgeAt(k), k), EdgeLists(m, k), AreaList(m),
         tree' = Path(k)
  PROVE  OneInv(h)' /\ live'[h] # NoBlock
<1>1. EdgeAt(k) \in PageFrames /\ BlockSize(k) \in Nat \ {0} /\ EdgeAt(k) # NULL
  BY EdgeNodes, BlockOfNode, Sizes, BuddyAssumption DEF PageFrames, NULL
<1>2. h \in Holders /\ Holders \subseteq Nat /\ \A g \in Holders : h <= g
  BY BuddyAssumption DEF Holders, First
<1>3. (CHOOSE g \in Holders : \A f \in Holders : g <= f) = h
  <2>1. \A g \in Holders : (\A f \in Holders : g <= f) => g = h
    BY <1>2
  <2> QED BY <1>2, <2>1
<1> DEFINE b == [ptr |-> EdgeAt(k), bkt |-> k]
<1>4. /\ live' = [live EXCEPT ![h] = b] /\ order' = [order EXCEPT ![EdgeAt(k)] = k]
      /\ mem' = [c \in Cells |-> IF \E q \in Frames(b) : c = vmm_phys2virt(q) THEN Foreign ELSE m[c]]
      /\ pc' = "idle"
  BY <1>3 DEF Grant, Return
<1>5. b # NoBlock /\ live'[h] = b /\ \A g \in Handles \ {h} : live'[g] = NoBlock
  BY <1>1, <1>4 DEF TypeOK, NoBlock, First
<1>6. order'[EdgeAt(k)] = k
  BY <1>1, <1>4 DEF TypeOK
<1>7. Frames(b) = EdgeAt(k)..(EdgeAt(k) + BlockSize(k) - 1) /\ Frames(b) \subseteq PageFrames
  <2>1. Frames(b) = EdgeAt(k)..(EdgeAt(k) + BlockSize(k) - 1)
    BY <1>5 DEF Frames
  <2>2. EdgeAt(k) + BlockSize(k) <= Base + Max
    BY EdgeNodes, BlockOfNode
  <2> QED BY <1>1, <2>1, <2>2, Sizes, BuddyAssumption DEF PageFrames
<1> HIDE DEF b
<1>8. ASSUME NEW j \in Buckets PROVE mem'[Head(j)] = m[Head(j)]
  <2>1. Head(j) \in Cells /\ Head(j) \in Heads
    BY HeadIsCell DEF Heads
  <2>2. ~\E q \in Frames(b) : Head(j) = vmm_phys2virt(q)
    BY <1>7, <2>1, AddressAssumption
  <2> QED BY <1>4, <2>1, <2>2
<1>9. ASSUME NEW j \in Buckets \ {0}, j <= k PROVE mem'[Rest(j)] = m[Rest(j)]
  <2>1. /\ BlockSize(j) \in Nat \ {0} /\ BlockSize(k) \in Nat \ {0} /\ Max \in Nat
        /\ j \in Nat /\ k \in Nat
    BY Sizes DEF Buckets
  <2>2. BlockSize(k) <= BlockSize(j)
    <3>1. j = k \/ j < k
      BY <1>9, <2>1
    <3> QED BY <2>1, <3>1, BlocksShrink
  <2>3. ASSUME NEW q \in Frames(b), Rest(j) = vmm_phys2virt(q) PROVE FALSE
    <3>1. q \in Int /\ q >= EdgeAt(k)
      BY <1>1, <1>7, BuddyAssumption DEF PageFrames
    <3> QED BY <2>1, <2>2, <2>3, <3>1, BuddyAssumption DEF Rest, vmm_phys2virt, EdgeAt
  <2>4. Rest(j) \in Cells
    BY EdgeCells
  <2> QED BY <1>4, <2>3, <2>4
<1>10. EdgeLists(mem', k) /\ AreaList(mem')
  <2>1. EdgeLists(mem', k)
    BY <1>8, <1>9 DEF EdgeLists
  <2>2. AreaList(mem')
    BY <1>8, AreaCells DEF AreaList
  <2> QED BY <2>1, <2>2
<1> QED BY <1>4, <1>5, <1>6, <1>10 DEF OneInv, Split, EdgeLists, AreaList, b

\* buddy_alloc, up to the free list.
LEMMA OneRequest ==
  ASSUME Ind, NEW h, OneInv(h), live[h] = NoBlock, NEW r, Fits(r), NEW k, Request(r, k)
  PROVE  /\ pc = "idle" /\ Split(0) /\ AreaFree(mem)
         /\ k \in Buckets /\ (k = 0 => DM_START = 0)
         /\ list_empty(mem, Head(k)) <=> k # 0
<1>1. pc = "idle" /\ live[h] = NoBlock
  BY DEF Request
<1>2. Split(0) /\ AreaFree(mem)
  BY <1>1 DEF OneInv
<1>3. r \in 1..Max /\ k = buddy_find_bkt(r) /\ Max \in Nat
  BY AreaCells, Sizes DEF Fits, Request
<1>4. k \in Buckets
  BY <1>3, BucketFound
<1>5. k = 0 => DM_START = 0
  <2>1. SUFFICES ASSUME k = 0, DM_START # 0 PROVE FALSE
    OBVIOUS
  <2>2. 2 * r > Max
    BY <1>3, <2>1, BucketFound
  <2>3. 2 * r <= Max
    BY <2>1 DEF Fits
  <2> QED BY <1>3, <2>2, <2>3
<1>6. CASE k = 0
  BY <1>1, <1>2, <1>4, <1>5, <1>6, AreaCells DEF AreaFree, list_empty
<1>7. CASE k # 0
  <2>1. ~(k <= 0)
    BY <1>4, <1>7 DEF Buckets
  <2>2. mem[Head(k)] = [prev |-> Head(k), next |-> Head(k)]
    BY <1>2, <1>4, <1>7, <2>1 DEF Split, EdgeLists
  <2> QED BY <1>1, <1>2, <1>4, <1>7, <2>2 DEF list_empty
<1> QED BY <1>6, <1>7

LEMMA OneWalkBegins ==
  ASSUME Ind, NEW h, OneInv(h), live[h] = NoBlock, NEW r, Fits(r), AllocWalk(r)
  PROVE  OneInv(h)'
<1>1. PICK k \in Buckets : Request(r, k) /\ list_empty(mem, Head(k)) /\ pc' = "walk"
                           /\ node' = 0 /\ walker' = 1 /\ bkt' = k
                           /\ UNCHANGED <<mem, tree, order, live, ptr>>
  BY DEF AllocWalk
<1>2. Split(0) /\ k # 0
  BY <1>1, OneRequest
<1>3. walker' \in 1..bkt' /\ walker' - 1 = 0
  BY <1>1, <1>2 DEF Buckets
<1>4. node' = Edge(0)
  BY <1>1, AreaCells, EdgeNodes
<1> QED BY <1>1, <1>2, <1>3, <1>4 DEF OneInv, Split, EdgeLists, AreaList

LEMMA OnePop ==
  ASSUME Ind, NEW h, First(h), OneInv(h), live[h] = NoBlock, NEW r, Fits(r), AllocPop(r)
  PROVE  OneInv(h)' /\ live'[h] # NoBlock
<1>1. PICK k \in Buckets :
        LET entry == list_back(mem, Head(k))
            links == FollowLinks(mem, entry)
            n == ptr2node(entry, k)
        IN  /\ Request(r, k) /\ ~list_empty(mem, Head(k))
            /\ \/ links # "ok" /\ Crash(links)
               \/ links = "ok" /\ ~HasPage(entry) /\ Crash("fault")
               \/ /\ links = "ok" /\ HasPage(entry)
                  /\ tree' = IF n = 0 THEN tree ELSE node_parent_flip(tree, n)
                  /\ Grant(buddy_pop(mem, k), entry, k)
  BY DEF AllocPop
<1>2. Split(0) /\ AreaFree(mem) /\ k = 0 /\ DM_START = 0
  BY <1>1, OneRequest
<1>3. Area = Base /\ list_back(mem, Head(0)) = Base
  BY <1>2, BuddyAssumption DEF Area, vmm_phys2virt, AreaFree, list_back
<1>4. FollowLinks(mem, Base) = "ok" /\ HasPage(Base)
  BY <1>2, <1>3, AreaCells, CellsFollow DEF AreaFree, FollowLinks, HasPage
<1>5. ptr2node(Base, 0) = 0
  <2>1. BlockSize(0) \in Nat \ {0} /\ Base - Base = 0 /\ 0 \div BlockSize(0) = 0
    BY AreaCells, Sizes, BuddyAssumption
  <2> QED BY <2>1, ShlAssumption DEF ptr2node
<1>6. tree' = tree /\ Grant(buddy_pop(mem, 0), EdgeAt(0), 0)
  BY <1>1, <1>2, <1>3, <1>4, <1>5, AreaCells
<1> DEFINE n == list_remove(mem, Area)
           m == buddy_pop(mem, 0)
<1>7. /\ n[Head(0)].prev \in {Head(0), Area}
      /\ \A c \in Cells : c \notin {Head(0), Area} => n[c] = mem[c]
      /\ n \in [Cells -> ListT]
  <2>1. mem \in [Cells -> ListT]
    BY DEF Ind, TypeOK
  <2> QED BY <1>2, <2>1, AreaCells, PopAgain, RemoveTyped DEF AreaFree
<1>8. m = [n EXCEPT ![Area] = Zeroed]
  BY <1>3 DEF buddy_pop, list_pop, list_back
<1> HIDE DEF n, m
<1>9. /\ m[Head(0)].prev \in {Head(0), Area}
      /\ \A c \in Cells : c \notin {Head(0), Area} => m[c] = mem[c]
  BY <1>7, <1>8, AreaCells
<1>10. EdgeLists(m, 0) /\ AreaList(m)
  <2>1. ASSUME NEW j \in Buckets \ {0}
        PROVE  m[Head(j)] = [prev |-> Head(j), next |-> Head(j)] /\ ~(j <= 0)
    <3>1. Head(j) \in Cells /\ Head(j) # Head(0) /\ Head(j) # Area /\ ~(j <= 0)
      BY AreaCells, EdgeCells, AddressAssumption DEF Heads, Area, Buckets
    <3>2. mem[Head(j)] = [prev |-> Head(j), next |-> Head(j)]
      BY <1>2, <3>1 DEF Split, EdgeLists
    <3> QED BY <1>9, <3>1, <3>2
  <2> QED BY <1>9, <2>1 DEF EdgeLists, AreaList
<1>11. \A g \in Handles : live[g] = NoBlock
  BY DEF OneInv
<1> QED BY <1>2, <1>6, <1>10, <1>11, AreaCells, GrantOnEdge DEF m, Split, Ind

\* buddy_tree_walk finds no split node, and a list to push on that is empty.
LEMMA OneSplits ==
  ASSUME Ind, NEW h, First(h), OneInv(h), WalkSplit
  PROVE  OneInv(h)' /\ pc' \in {"walk", "idle"} /\ (pc' = "idle" => live'[h] # NoBlock)
<1>1. PICK w, k : w = walker /\ k = bkt
  OBVIOUS
<1>2. /\ pc = "walk" /\ live[h] = NoBlock /\ k \in Buckets /\ w \in 1..k
      /\ node = Edge(w - 1) /\ Split(w - 1) /\ AreaList(mem)
  BY <1>1 DEF WalkSplit, OneInv
<1>3. w \in Buckets /\ w # 0 /\ ~(w <= w - 1) /\ w \in Nat /\ k \in Nat
  BY <1>2, BuddyAssumption DEF Buckets
<1>4. Head(w) \in Cells /\ Rest(w) \in Cells /\ Head(w) # Rest(w)
  BY <1>3, EdgeCells
<1>5. mem[Head(w)] = [prev |-> Head(w), next |-> Head(w)] /\ mem \in [Cells -> ListT]
  BY <1>2, <1>3 DEF Split, EdgeLists, Ind, TypeOK
<1>6. PICK m : m = list_pushback(mem, Head(w), Rest(w))
  OBVIOUS
<1>7. buddy_pushback(mem, w, node2ptr(node_left(node), w)) = m
      /\ node2ptr(node_right(node), w) = EdgeAt(w) /\ node_right(node) = Edge(w)
  BY <1>2, <1>3, <1>6, EdgeSteps, EdgeNodes DEF buddy_pushback, Rest
<1>8. Follow(list_back(mem, Head(w)), list_back(mem, Head(w))) = "ok"
  BY <1>4, <1>5, CellsFollow DEF list_back
<1>9. /\ tree' = [tree EXCEPT ![node] = TRUE]
      /\ \/ w = k /\ Grant(m, EdgeAt(w), k)
         \/ /\ w < k /\ mem' = m /\ node' = Edge(w) /\ walker' = w + 1
            /\ UNCHANGED <<order, live, pc, bkt, ptr>>
  BY <1>1, <1>7, <1>8 DEF WalkSplit
<1>10. tree' = Path(w)
  BY <1>2, <1>3, <1>9, PathSteps DEF Split
<1>11. /\ m[Head(w)] = [prev |-> Rest(w), next |-> Rest(w)]
       /\ m[Rest(w)] = [prev |-> Head(w), next |-> Head(w)]
       /\ \A c \in Cells : c \notin {Head(w), Rest(w)} => m[c] = mem[c]
  BY <1>4, <1>5, <1>6, PushOnEmpty
<1>12. EdgeLists(m, w)
  <2>1. ASSUME NEW j \in Buckets \ {0}
        PROVE  IF j <= w THEN /\ m[Head(j)] = [prev |-> Rest(j), next |-> Rest(j)]
                              /\ m[Rest(j)] = [prev |-> Head(j), next |-> Head(j)]
               ELSE m[Head(j)] = [prev |-> Head(j), next |-> Head(j)]
    <3>1. CASE j = w
      BY <1>3, <1>11, <3>1
    <3>2. CASE j # w
      <4>1. /\ Head(j) \in Cells /\ Rest(j) \in Cells /\ Head(j) # Head(w) /\ Head(j) # Rest(w)
            /\ Rest(j) # Head(w) /\ Rest(j) # Rest(w)
        BY <1>3, <3>2, EdgeCells
      <4>2. m[Head(j)] = mem[Head(j)] /\ m[Rest(j)] = mem[Rest(j)]
        BY <1>11, <4>1
      <4>3. j <= w <=> j <= w - 1
        BY <1>3, <3>2 DEF Buckets
      <4> QED BY <1>2, <4>2, <4>3 DEF Split, EdgeLists
    <3> QED BY <3>1, <3>2
  <2> QED BY <2>1 DEF EdgeLists
<1>13. AreaList(m)
  <2>1. Head(0) # Head(w) /\ Head(0) # Rest(w)
    BY <1>3, AreaCells, EdgeCells
  <2> QED BY <1>2, <1>11, <2>1, AreaCells DEF AreaList
<1>14. CASE w = k /\ Grant(m, EdgeAt(w), k)
  <2>1. \A g \in Handles : live[g] = NoBlock
    BY <1>2 DEF OneInv
  <2>2. OneInv(h)' /\ live'[h] # NoBlock
    BY <1>2, <1>10, <1>12, <1>13, <1>14, <2>1, GrantOnEdge DEF Ind
  <2>3. pc' = "idle"
    BY <1>14 DEF Grant, Return
  <2> QED BY <2>2, <2>3
<1>15. CASE /\ w < k /\ mem' = m /\ node' = Edge(w) /\ walker' = w + 1
            /\ UNCHANGED <<order, live, pc, bkt, ptr>>
  <2>1. walker' \in 1..bkt' /\ walker' - 1 = w /\ bkt' = k /\ pc' = "walk"
    BY <1>1, <1>2, <1>3, <1>15
  <2>2. /\ mem' = m /\ node' = Edge(w) /\ live'[h] = NoBlock
        /\ \A g \in Handles \ {h} : live'[g] = NoBlock
    BY <1>2, <1>15 DEF OneInv
  <2> QED BY <1>2, <1>10, <1>12, <1>13, <2>1, <2>2 DEF OneInv, Split, EdgeLists, AreaList
<1> QED BY <1>9, <1>14, <1>15

\* The walk never meets a split node, and never goes below its bucket.
LEMMA OneWalks ==
  ASSUME Ind, NEW h, OneInv(h)
  PROVE  ~WalkFull /\ ~WalkFails
<1>1. ASSUME WalkFull PROVE FALSE
  <2>1. /\ bkt \in Buckets /\ walker \in 1..bkt /\ node = Edge(walker - 1)
        /\ tree = Path(walker - 1) /\ tree[node]
    BY <1>1 DEF WalkFull, OneInv, Split
  <2>2. walker \in Buckets /\ walker # 0
    BY <2>1, BuddyAssumption DEF Buckets
  <2> QED BY <2>1, <2>2, PathSteps
<1>2. ASSUME WalkFails PROVE FALSE
  <2>1. bkt \in Buckets /\ walker \in 1..bkt /\ walker > bkt
    BY <1>2 DEF WalkFails, OneInv
  <2> QED BY <2>1, BuddyAssumption DEF Buckets
<1> QED BY <1>1, <1>2

\* buddy_free finds the node of the block: the rightmost of its bucket.
LEMMA EdgeNode ==
  ASSUME NEW k \in Buckets
  PROVE  ptr2node(EdgeAt(k), k) = Edge(k)
<1>1. Shl[k] \in Nat \ {0} /\ BlockSize(k) \in Nat \ {0} /\ Shl[k] * BlockSize(k) = Max /\ Max \in Nat
  BY Sizes
<1>2. EdgeAt(k) - Base = (Shl[k] - 1) * BlockSize(k)
  <2>1. (Shl[k] - 1) * BlockSize(k) = Shl[k] * BlockSize(k) - BlockSize(k)
    BY <1>1
  <2> QED BY <1>1, <2>1, BuddyAssumption DEF EdgeAt
<1>3. ((Shl[k] - 1) * BlockSize(k)) \div BlockSize(k) = Shl[k] - 1
  <2>1. \A n \in Nat : \A m \in Nat \ {0} : (n * m) \div m = n
    OBVIOUS
  <2>2. Shl[k] - 1 \in Nat
    BY <1>1
  <2> QED BY <1>1, <2>1, <2>2
<1> QED BY <1>1, <1>2, <1>3 DEF ptr2node, Edge

LEMMA OneFree ==
  ASSUME Ind, NEW h \in Handles, OneInv(h), NEW g \in Handles, Free(g)
  PROVE  OneInv(h)' /\ g = h /\ live'[h] = NoBlock
<1>1. /\ g = h /\ pc = "idle" /\ live[h] # NoBlock /\ live' = [live EXCEPT ![h] = NoBlock]
      /\ pc' = "merge" /\ bkt' = order[live[h].ptr]
      /\ node' = ptr2node(live[h].ptr, order[live[h].ptr])
      /\ UNCHANGED <<mem, tree>>
  BY DEF Free, OneInv
<1>2. PICK b \in Buckets : /\ live[h] = [ptr |-> EdgeAt(b), bkt |-> b]
                           /\ order[EdgeAt(b)] = b /\ Split(b)
  BY <1>1 DEF OneInv
<1>3. bkt' = b /\ node' = Edge(b)
  BY <1>1, <1>2, EdgeNode
<1>4. live'[h] = NoBlock /\ \A f \in Handles \ {h} : live'[f] = live[f]
  BY <1>1 DEF Ind, TypeOK
<1> QED BY <1>1, <1>2, <1>3, <1>4 DEF OneInv, Split, EdgeLists, AreaList

\* One block up the edge: its sibling is on its list, alone.
LEMMA OneMerges ==
  ASSUME Ind, NEW h, OneInv(h), FreeMerge
  PROVE  OneInv(h)' /\ pc' = "merge" /\ live' = live
<1>1. PICK k : k = bkt
  OBVIOUS
<1>2. /\ pc = "merge" /\ live[h] = NoBlock /\ k \in Buckets /\ node = Edge(k)
      /\ Split(k) /\ AreaList(mem) /\ node # 0
  BY <1>1 DEF FreeMerge, OneInv
<1>3. k # 0 /\ k \in Nat /\ k <= k /\ k - 1 \in Buckets /\ ~(k <= k - 1)
  BY <1>2, EdgeNodes, EdgeSteps DEF Buckets
<1>4. Head(k) \in Cells /\ Rest(k) \in Cells /\ Head(k) # Rest(k)
  BY <1>2, <1>3, EdgeCells
<1>5. /\ mem[Head(k)] = [prev |-> Rest(k), next |-> Rest(k)]
      /\ mem[Rest(k)] = [prev |-> Head(k), next |-> Head(k)]
      /\ mem \in [Cells -> ListT]
  BY <1>2, <1>3 DEF Split, EdgeLists, Ind, TypeOK
<1>6. vmm_phys2virt(node2ptr(node_sibling(node), k)) = Rest(k)
  BY <1>2, <1>3, EdgeSteps DEF Rest
<1>7. FollowLinks(mem, Rest(k)) = "ok"
  BY <1>4, <1>5, CellsFollow DEF FollowLinks
<1>8. /\ tree' = [tree EXCEPT ![Edge(k - 1)] = ~@]
      /\ mem' = [list_remove(mem, Rest(k)) EXCEPT ![Rest(k)] = Zeroed]
      /\ bkt' = k - 1 /\ node' = Edge(k - 1) /\ UNCHANGED <<live, pc>>
  BY <1>1, <1>2, <1>3, <1>6, <1>7, EdgeSteps DEF FreeMerge, buddy_remove, node_parent_flip
<1>9. tree' = Path(k - 1)
  BY <1>2, <1>3, <1>8, PathSteps DEF Split
<1> DEFINE n == list_remove(mem, Rest(k))
<1>10. /\ n[Head(k)] = [prev |-> Head(k), next |-> Head(k)]
       /\ \A c \in Cells : c \notin {Head(k), Rest(k)} => n[c] = mem[c]
       /\ n \in [Cells -> ListT]
  BY <1>4, <1>5, RemoveLast, RemoveTyped
<1> HIDE DEF n
<1>11. mem' = [n EXCEPT ![Rest(k)] = Zeroed]
  BY <1>8 DEF n
<1>12. /\ mem'[Head(k)] = [prev |-> Head(k), next |-> Head(k)]
       /\ \A c \in Cells : c \notin {Head(k), Rest(k)} => mem'[c] = mem[c]
  BY <1>4, <1>10, <1>11
<1>13. EdgeLists(mem', k - 1)
  <2>1. ASSUME NEW j \in Buckets \ {0}
        PROVE  IF j <= k - 1 THEN /\ mem'[Head(j)] = [prev |-> Rest(j), next |-> Rest(j)]
                                  /\ mem'[Rest(j)] = [prev |-> Head(j), next |-> Head(j)]
               ELSE mem'[Head(j)] = [prev |-> Head(j), next |-> Head(j)]
    <3>1. CASE j = k
      BY <1>3, <1>12, <3>1
    <3>2. CASE j # k
      <4>1. /\ Head(j) \in Cells /\ Rest(j) \in Cells /\ Head(j) # Head(k) /\ Head(j) # Rest(k)
            /\ Rest(j) # Head(k) /\ Rest(j) # Rest(k)
        BY <1>2, <1>3, <3>2, EdgeCells
      <4>2. mem'[Head(j)] = mem[Head(j)] /\ mem'[Rest(j)] = mem[Rest(j)]
        BY <1>12, <4>1
      <4>3. j <= k <=> j <= k - 1
        BY <1>3, <3>2 DEF Buckets
      <4> QED BY <1>2, <4>2, <4>3 DEF Split, EdgeLists
    <3> QED BY <3>1, <3>2
  <2> QED BY <2>1 DEF EdgeLists
<1>14. AreaList(mem')
  <2>1. Head(0) # Head(k) /\ Head(0) # Rest(k)
    BY <1>2, <1>3, AreaCells, EdgeCells
  <2> QED BY <1>2, <1>12, <2>1, AreaCells DEF AreaList
<1> QED BY <1>2, <1>3, <1>8, <1>9, <1>13, <1>14 DEF OneInv, Split, EdgeLists, AreaList

\* buddy_free merges up to the root, and puts the whole area back on its list.
LEMMA OneDone ==
  ASSUME Ind, NEW h, OneInv(h), FreeDone
  PROVE  OneInv(h)' /\ pc' = "idle" /\ live' = live
<1>1. /\ pc = "merge" /\ live[h] = NoBlock /\ bkt \in Buckets /\ node = Edge(bkt)
      /\ Split(bkt) /\ AreaList(mem)
  BY DEF FreeDone, OneInv
<1>2. bkt = 0 /\ node = 0
  <2>1. SUFFICES ASSUME bkt # 0 PROVE FALSE
    BY <1>1, EdgeNodes
  <2>2. node # 0 /\ node_parent(node) = Edge(bkt - 1)
    BY <1>1, <2>1, EdgeNodes, EdgeSteps
  <2>3. tree[node_parent(node)]
    BY <1>1, <2>1, <2>2, PathSteps DEF Split
  <2> QED BY <2>2, <2>3 DEF FreeDone
<1>3. list_back(mem, Head(0)) \in {Head(0), Area}
  BY <1>1 DEF AreaList, list_back
<1>4. Follow(list_back(mem, Head(0)), list_back(mem, Head(0))) = "ok"
  BY <1>3, AreaCells, CellsFollow
<1>5. /\ available' = available + BlockSize(0) /\ tree' = tree
      /\ mem' = list_pushback(mem, Head(0), Area) /\ pc' = "idle" /\ live' = live
  BY <1>2, <1>4, AreaCells DEF FreeDone, buddy_pushback, Area, Return
<1>6. available' >= Max
  <2>1. BlockSize(0) = Max /\ Max \in Nat /\ available \in Nat
    BY AreaCells, Sizes, BuddyAssumption DEF Ind, TypeOK, BlockSize, Max
  <2> QED BY <1>5, <2>1
<1>7. /\ AreaFree(mem') /\ AreaList(mem')
      /\ \A c \in Cells : c \notin {Head(0), Area} => mem'[c] = mem[c]
  <2>1. mem \in [Cells -> ListT] /\ mem[Head(0)].prev \in {Head(0), Area}
    BY <1>1 DEF Ind, TypeOK, AreaList
  <2> QED BY <1>5, <2>1, AreaCells, PushAgain DEF AreaFree, AreaList
<1>8. EdgeLists(mem', 0)
  <2>1. ASSUME NEW j \in Buckets \ {0}
        PROVE  mem'[Head(j)] = [prev |-> Head(j), next |-> Head(j)] /\ ~(j <= 0)
    <3>1. Head(j) \in Cells /\ Head(j) # Head(0) /\ Head(j) # Area /\ ~(j <= 0)
      BY AreaCells, EdgeCells, AddressAssumption DEF Heads, Area, Buckets
    <3>2. mem[Head(j)] = [prev |-> Head(j), next |-> Head(j)]
      BY <1>1, <1>2, <3>1 DEF Split, EdgeLists
    <3> QED BY <1>7, <3>1, <3>2
  <2> QED BY <2>1 DEF EdgeLists
<1> QED BY <1>1, <1>2, <1>5, <1>6, <1>7, <1>8 DEF OneInv, Split, EdgeLists, AreaList, AreaFree

\* The loops of a call keep this shape, and a walk ends with the block.
LEMMA OneIterates ==
  ASSUME Ind, NEW h, First(h), OneInv(h), Iteration
  PROVE  /\ OneInv(h)'
         /\ pc = "walk" => pc' \in {"walk", "idle"} /\ (pc' = "idle" => live'[h] # NoBlock)
         /\ pc = "merge" => pc' \in {"merge", "idle"} /\ live' = live
<1>1. ~WalkFull /\ ~WalkFails
  BY OneWalks
<1>2. CASE WalkSplit
  BY <1>2, OneSplits DEF WalkSplit
<1>3. CASE FreeMerge
  BY <1>3, OneMerges DEF FreeMerge
<1>4. CASE FreeDone
  BY <1>4, OneDone DEF FreeDone
<1> QED BY <1>1, <1>2, <1>3, <1>4 DEF Iteration

\* No step of the only caller takes the area out of this shape.
LEMMA OneNext ==
  ASSUME Ind, NEW h, Handles = {h}, OneInv(h), RequestsFit, [Next]_vars
  PROVE  OneInv(h)' /\ (pc = "walk" /\ pc' = "idle" => live' # live)
<1>0. /\ First(h) /\ \A r \in Requests : Fits(r)
      /\ \A r, k : Request(r, k) => live[h] = NoBlock
  BY FirstOfOne DEF RequestsFit, Request, Holders
<1>1. ASSUME NEW r \in Requests, AllocBeyondMax(r) PROVE FALSE
  <2>1. Request(r, -1) /\ -1 \in Buckets
    BY <1>0, <1>1, OneRequest DEF AllocBeyondMax
  <2> QED BY <2>1, BuddyAssumption DEF Buckets
<1>2. ASSUME NEW r \in Requests, AllocWalk(r) PROVE OneInv(h)' /\ pc = "idle"
  <2>1. pc = "idle" /\ live[h] = NoBlock
    BY <1>0, <1>2 DEF AllocWalk, Request
  <2> QED BY <1>0, <1>2, <2>1, OneWalkBegins
<1>3. ASSUME NEW r \in Requests, AllocPop(r) PROVE OneInv(h)' /\ pc = "idle"
  <2>1. pc = "idle" /\ live[h] = NoBlock
    BY <1>0, <1>3 DEF AllocPop, Request
  <2> QED BY <1>0, <1>3, <2>1, OnePop
<1>4. ASSUME NEW g \in Handles, Free(g) PROVE OneInv(h)' /\ pc = "idle"
  BY <1>4, OneFree DEF Free
<1>5. ASSUME Iteration PROVE OneInv(h)' /\ (pc = "walk" /\ pc' = "idle" => live' # live)
  <2>1. pc = "walk" => live[h] = NoBlock
    BY DEF OneInv
  <2> QED BY <1>0, <1>5, <2>1, OneIterates
<1>6. CASE UNCHANGED vars
  BY <1>6 DEF vars, OneInv, Split, EdgeLists, AreaList, AreaFree
<1> QED BY <1>1, <1>2, <1>3, <1>4, <1>5, <1>6 DEF Next, Call

LEMMA OneHolder ==
  ASSUME NEW h, Handles = {h}, RequestsFit
  PROVE  Spec => [](Ind /\ OneInv(h))
<1>1. Init => Ind /\ OneInv(h)
  BY IndInit, OneInit
<1>2. Ind /\ OneInv(h) /\ [Next]_vars => (Ind /\ OneInv(h))'
  <2>1. SUFFICES ASSUME Ind, OneInv(h), [Next]_vars PROVE Ind' /\ OneInv(h)'
    OBVIOUS
  <2>2. Ind'
    BY <2>1, NextInd
  <2>3. OneInv(h)'
    BY <2>1, OneNext
  <2> QED BY <2>2, <2>3
<1> QED BY <1>1, <1>2, PTL DEF Spec

\* With one caller at a time, and requests that fit, no call follows a pointer
\* that is not one: every list the walk pushes on and every block the merge
\* takes off has its own links in memory nobody else writes.
THEOREM OneHolderNeverCrashes ==
  ASSUME NEW h, Handles = {h}, RequestsFit
  PROVE  Spec => []NoCrash
<1>1. OneInv(h) => NoCrash
  BY DEF OneInv, NoCrash
<1> QED BY <1>1, OneHolder, PTL

\* What the only caller took it gives back as one block, and buddy_free merges
\* it with every block buddy_tree_walk split off, up to the whole area.
THEOREM OneHolderLeavesWhole ==
  ASSUME NEW h, Handles = {h}, RequestsFit
  PROVE  Spec => []WholeAgain
<1>1. ASSUME OneInv(h) PROVE WholeAgain
  <2>1. SUFFICES ASSUME Idle PROVE /\ \A n \in Nodes : ~tree[n]
                                   /\ \A k \in Buckets : list_empty(mem, Head(k)) <=> k # 0
                                   /\ available >= Max
    BY DEF WholeAgain
  <2>2. Split(0) /\ AreaFree(mem) /\ available >= Max
    BY <1>1, <2>1 DEF OneInv, Idle
  <2>3. \A n \in Nodes : ~tree[n]
    BY <2>2 DEF Split, Path
  <2>4. ~list_empty(mem, Head(0))
    BY <2>2, AreaCells DEF AreaFree, list_empty
  <2>5. ASSUME NEW k \in Buckets, k # 0 PROVE list_empty(mem, Head(k))
    <3>1. ~(k <= 0)
      BY <2>5, BuddyAssumption DEF Buckets
    <3>2. mem[Head(k)] = [prev |-> Head(k), next |-> Head(k)]
      BY <2>2, <2>5, <3>1 DEF Split, EdgeLists
    <3> QED BY <3>2 DEF list_empty
  <2> QED BY <2>2, <2>3, <2>4, <2>5
<1> QED BY <1>1, OneHolder, PTL

\* buddy_alloc takes the size from b->available before it looks for a block:
\* for one caller the walk finds one, and nothing is lost from the counter.
THEOREM OneHolderFinds ==
  ASSUME NEW h, Handles = {h}, RequestsFit
  PROVE  Spec => WalkFinds
<1>1. Ind /\ OneInv(h) /\ [Next]_vars => [pc = "walk" /\ pc' = "idle" => live' # live]_vars
  BY OneNext
<1> QED BY <1>1, OneHolder, PTL DEF Spec, WalkFinds

\* What buddy_free reads back as the bucket is what buddy_alloc recorded.
THEOREM OneHolderOrderKept ==
  ASSUME NEW h, Handles = {h}, RequestsFit
  PROVE  Spec => []OrderKept
<1>1. ASSUME OneInv(h) PROVE OrderKept
  <2>1. SUFFICES ASSUME live[h] # NoBlock PROVE order[live[h].ptr] = live[h].bkt
    BY Zenon DEF OrderKept
  <2>2. pc = "idle"
    BY <1>1, <2>1 DEF OneInv
  <2>3. PICK b \in Buckets : live[h] = [ptr |-> EdgeAt(b), bkt |-> b] /\ order[EdgeAt(b)] = b
    BY <1>1, <2>1, <2>2 DEF OneInv
  <2> QED BY <2>3
<1> QED BY <1>1, OneHolder, PTL

-----------------------------------------------------------------------------
\* Single pages that nobody gives back.  Every other call walks: along the left
\* edge of the tree past the nodes earlier walks have split, to the first that is
\* not, and from there to its rightmost page.  The call in between takes the page
\* next to it from the list.  So walk i, for the caller, splits the leftmost node
\* of bucket i, and the two pages are the last ones below that node.
Deep == Levels - 1
Leftmost(k) == Shl[k] - 1
Inner(i, j) == Shl[j] + Shl[j - i] - 2     \* rightmost below it, in bucket j
TopAt(i) == Base + BlockSize(i) - 1

\* Walk Deep - 1 is the last that finds new pages.  The call after a walk has set
\* the node right above its two pages back to false, so the next walk finds them
\* again, like every walk from then on.
WalkOf(k) == IF k < Deep THEN k ELSE Deep - 1

\* The nodes the earlier walks have split, and the ones later walks will split.
SplitLeft(i) == \A j \in 0..(i - 1) : j < Deep - 1 => tree[Leftmost(j)]
Unsplit(i) == \A a \in i..(Deep - 1) : \A j \in a..(Deep - 1) : ~tree[Inner(a, j)]

\* The last entry of a list is no other list's head.  The list of the pages is
\* the only one entries are taken from, and has one at most.
ListsOwn(m) == \A k \in Buckets : m[Head(k)].prev \in (Cells \ Heads) \cup {Head(k)}
DeepEmpty(m) == m[Head(Deep)] = [prev |-> Head(Deep), next |-> Head(Deep)]
DeepHas(m, e) == /\ m[Head(Deep)] = [prev |-> e, next |-> e]
                 /\ m[e] = [prev |-> Head(Deep), next |-> Head(Deep)]

\* Before walk i, during it, and between it and the call after it.
BeforeWalk(i) == pc = "idle" /\ SplitLeft(i) /\ Unsplit(i) /\ ListsOwn(mem) /\ DeepEmpty(mem)
DuringWalk(i) ==
  /\ pc = "walk" /\ bkt = Deep /\ walker \in 1..Deep /\ Holders # {}
  /\ node = IF walker <= i THEN Leftmost(walker - 1) ELSE Inner(i, walker - 1)
  /\ SplitLeft(IF walker <= i + 1 THEN i ELSE i + 1)
  /\ Unsplit(i + 1)
  /\ \A j \in i..(Deep - 1) : j >= walker - 1 => ~tree[Inner(i, j)]
  /\ ListsOwn(mem) /\ DeepEmpty(mem)
AfterWalk(i) ==
  /\ pc = "idle" /\ SplitLeft(i + 1) /\ Unsplit(i + 1) /\ ListsOwn(mem)
  /\ tree[Inner(i, Deep - 1)]
  /\ DeepHas(mem, vmm_phys2virt(TopAt(i) - 1))
Granted(p) ==
  \E g \in Handles : live[g] = NoBlock /\ live' = [live EXCEPT ![g] = [ptr |-> p, bkt |-> Deep]]

\* One page is a block of the deepest bucket.
LEMMA DeepBucket ==
  /\ Deep \in Buckets /\ Deep \in Nat /\ BlockSize(Deep) = 1 /\ Head(Deep) \in Cells
  /\ buddy_find_bkt(1) = Deep
<1> DEFINE Fit(k) == /\ BlockSize(k) >= 1
                     /\ \A j \in (k + 1)..(Levels - 1) : BlockSize(j) < 1
           f == buddy_find_bkt(1)
<1>1. Deep \in Buckets /\ Deep \in Nat /\ Levels - 1 - Deep = 0
  BY BuddyAssumption DEF Deep, Buckets
<1>2. BlockSize(Deep) = 1 /\ Head(Deep) \in Cells
  BY <1>1, ShlAssumption, HeadIsCell DEF BlockSize
<1>3. f = CHOOSE b \in -1..(Levels - 1) : Fit(b)
  BY DEF buddy_find_bkt
<1>4. Fit(Deep) /\ Deep \in -1..(Levels - 1)
  BY <1>1, <1>2, BuddyAssumption DEF Deep
<1>5. f \in -1..(Levels - 1) /\ Fit(f)
  BY <1>3, <1>4
<1> HIDE DEF f
<1>6. f = Deep
  <2>1. SUFFICES ASSUME f # Deep PROVE FALSE
    OBVIOUS
  <2>2. Deep \in (f + 1)..(Levels - 1)
    BY <1>1, <1>5, <2>1, BuddyAssumption DEF Deep
  <2>3. BlockSize(Deep) < 1
    BY <1>5, <2>2
  <2> QED BY <1>2, <2>3
<1> QED BY <1>1, <1>2, <1>6 DEF f

\* Nodes of different buckets differ.
LEMMA NodesApart ==
  ASSUME NEW j \in Buckets, NEW k \in Buckets, j # k, NEW n \in NodesOf(j), NEW o \in NodesOf(k)
  PROVE  n # o
<1>1. \A a, b \in Buckets : a < b => /\ Shl[a] \in Nat \ {0} /\ Shl[b] \in Nat \ {0}
                                     /\ 2 * Shl[a] <= Shl[b]
  BY ShlGrows, BuddyAssumption DEF Buckets
<1>2. j \in Nat /\ k \in Nat
  BY DEF Buckets
<1>3. CASE j < k
  BY <1>1, <1>3 DEF NodesOf
<1>4. CASE k < j
  BY <1>1, <1>4 DEF NodesOf
<1> QED BY <1>2, <1>3, <1>4

LEMMA LeftmostNodes ==
  ASSUME NEW k \in Buckets
  PROVE  /\ Leftmost(k) \in NodesOf(k) /\ Leftmost(k) \in Nodes /\ Leftmost(0) = 0
         /\ Leftmost(k) = Inner(k, k)
         /\ k + 1 \in Buckets => node_left(Leftmost(k)) = Leftmost(k + 1)
<1>1. Shl[k] \in Nat \ {0} /\ Shl[k + 1] = 2 * Shl[k] /\ Shl[0] = 1 /\ k - k = 0
  BY Sizes, ShlAssumption DEF Buckets
<1>2. Leftmost(k) \in NodesOf(k) /\ Leftmost(k) = Inner(k, k)
  BY <1>1 DEF Leftmost, NodesOf, Inner
<1> QED BY <1>1, <1>2, NodesOfTree DEF Leftmost, node_left

\* The sizes below the leftmost node of bucket i.
LEMMA InnerSizes ==
  ASSUME NEW i \in Nat, NEW j \in Buckets, i <= j
  PROVE  /\ i \in Buckets /\ j - i \in 0..Levels
         /\ Shl[j - i] \in Nat \ {0} /\ Shl[j] \in Nat \ {0} /\ Shl[j - i] <= Shl[j]
         /\ BlockSize(i) \in Nat \ {0} /\ BlockSize(j) \in Nat \ {0}
         /\ BlockSize(i) = Shl[j - i] * BlockSize(j)
<1>1. /\ i \in Buckets /\ j - i \in 0..Levels /\ i \in 0..Levels
      /\ Levels - 1 - j \in 0..Levels
      /\ i + (j - i) = j /\ (j - i) + (Levels - 1 - j) = Levels - 1 - i
      /\ j <= Levels /\ Levels - 1 - i <= Levels
  BY BuddyAssumption DEF Buckets
<1>2. /\ Shl[j - i] \in Nat \ {0} /\ Shl[i] \in Nat \ {0} /\ Shl[j] \in Nat \ {0}
      /\ BlockSize(i) \in Nat \ {0} /\ BlockSize(j) \in Nat \ {0}
  BY <1>1, Sizes, ShlAssumption
<1>3. Shl[j] = Shl[i] * Shl[j - i]
  <2>1. Shl[i + (j - i)] = Shl[i] * Shl[j - i]
    BY <1>1, ShlAssumption
  <2> QED BY <1>1, <2>1
<1>4. BlockSize(i) = Shl[j - i] * BlockSize(j)
  <2>1. Shl[(j - i) + (Levels - 1 - j)] = Shl[j - i] * Shl[Levels - 1 - j]
    BY <1>1, ShlAssumption
  <2> QED BY <1>1, <2>1 DEF BlockSize
<1>5. Shl[j - i] <= Shl[j]
  <2>1. Shl[j - i] <= Shl[j - i] * Shl[i] /\ Shl[j - i] * Shl[i] = Shl[i] * Shl[j - i]
    BY <1>2, Factor
  <2> QED BY <1>3, <2>1
<1> QED BY <1>1, <1>2, <1>4, <1>5

LEMMA InnerNodes ==
  ASSUME NEW i \in Nat, NEW j \in Buckets, i <= j
  PROVE  /\ Inner(i, j) \in NodesOf(j) /\ Inner(i, j) \in Nodes /\ Inner(i, j) \in Nat
         /\ node2ptr(Inner(i, j), j) = Base + BlockSize(i) - BlockSize(j)
<1>1. PICK s, b, c, t : s = Shl[j - i] /\ b = BlockSize(j) /\ c = BlockSize(i) /\ t = Shl[j]
  OBVIOUS
<1>2. s \in Nat \ {0} /\ t \in Nat \ {0} /\ s <= t /\ b \in Nat \ {0} /\ c \in Nat \ {0} /\ c = s * b
  BY <1>1, InnerSizes
<1>3. Inner(i, j) = t + s - 2 /\ NodesOf(j) = (t - 1)..(2 * t - 2)
  BY <1>1 DEF Inner, NodesOf
<1>4. Inner(i, j) \in NodesOf(j) /\ Inner(i, j) \in Nat
  BY <1>2, <1>3
<1>5. node2ptr(Inner(i, j), j) = Base + (s - 1) * b
  <2>1. Inner(i, j) - t + 1 = s - 1
    BY <1>2, <1>3
  <2> QED BY <1>1, <2>1 DEF node2ptr
<1>6. (s - 1) * b = c - b
  BY <1>2
<1> QED BY <1>1, <1>2, <1>4, <1>5, <1>6, NodesOfTree, BuddyAssumption

\* One level down, below the leftmost node of bucket i.
LEMMA InnerSteps ==
  ASSUME NEW i \in Nat, NEW j \in Buckets, i < j
  PROVE  /\ j - 1 \in Buckets /\ i <= j - 1
         /\ node_right(Inner(i, j - 1)) = Inner(i, j)
         /\ node2ptr(node_left(Inner(i, j - 1)), j) = Base + BlockSize(i) - 2 * BlockSize(j)
         /\ Base + BlockSize(i) - 2 * BlockSize(j) \in PageFrames
<1>1. j - 1 \in Buckets /\ i <= j - 1 /\ i <= j /\ (j - 1) + 1 = j /\ j - 1 - i \in 0..(Levels - 1)
      /\ (j - 1 - i) + 1 = j - i
  BY BuddyAssumption DEF Buckets
<1>2. PICK s, b, c, t : s = Shl[j - i] /\ b = BlockSize(j) /\ c = BlockSize(i) /\ t = Shl[j]
  OBVIOUS
<1>3. s \in Nat \ {0} /\ t \in Nat \ {0} /\ b \in Nat \ {0} /\ c \in Nat \ {0} /\ c = s * b
  BY <1>1, <1>2, InnerSizes
<1>4. PICK u \in Nat, v \in Nat : u = Shl[j - 1] /\ v = Shl[j - 1 - i]
  BY <1>1, InnerSizes
<1>5. t = 2 * u /\ s = 2 * v
  <2>1. Shl[(j - 1) + 1] = 2 * Shl[j - 1]
    BY <1>1, Sizes
  <2>2. Shl[(j - 1 - i) + 1] = 2 * Shl[j - 1 - i]
    BY <1>1, ShlAssumption
  <2> QED BY <1>1, <1>2, <1>4, <2>1, <2>2
<1>6. Inner(i, j - 1) = u + v - 2 /\ Inner(i, j) = t + s - 2
  BY <1>2, <1>4 DEF Inner
<1>7. node_right(Inner(i, j - 1)) = Inner(i, j)
  <2>1. (u + v - 2) * 2 + 2 = t + s - 2
    <3>1. \A x, y \in Nat : (x + y - 2) * 2 + 2 = 2 * x + 2 * y - 2
      OBVIOUS
    <3>2. (u + v - 2) * 2 + 2 = 2 * u + 2 * v - 2
      BY <3>1
    <3> QED BY <1>5, <3>2
  <2> QED BY <1>6, <2>1 DEF node_right
<1>8. node2ptr(node_left(Inner(i, j - 1)), j) = Base + (s - 2) * b
  <2>1. node_left(Inner(i, j - 1)) - t + 1 = s - 2
    BY <1>3, <1>4, <1>5, <1>6 DEF node_left
  <2> QED BY <1>2, <2>1 DEF node2ptr
<1>9. (s - 2) * b = c - 2 * b
  BY <1>3
<1>10. Base + BlockSize(i) - 2 * BlockSize(j) = node2ptr(node_left(Inner(i, j - 1)), j)
  BY <1>2, <1>3, <1>8, <1>9, BuddyAssumption
<1>11. node_left(Inner(i, j - 1)) \in NodesOf(j)
  BY <1>1, InnerNodes, Children
<1> QED BY <1>1, <1>7, <1>10, <1>11, BlockOfNode

LEMMA InnersApart ==
  ASSUME NEW a \in Nat, NEW b \in Nat, NEW j \in Buckets, NEW k \in Buckets, a <= j, b <= k,
         a # b \/ j # k
  PROVE  Inner(a, j) # Inner(b, k)
<1>1. CASE j # k
  BY <1>1, InnerNodes, NodesApart
<1>2. \A c, d \in Nat : c < d /\ d <= j => Shl[j - d] # Shl[j - c] /\ Shl[j - d] \in Nat /\ Shl[j - c] \in Nat
  <2> TAKE c, d \in Nat
  <2> HAVE c < d /\ d <= j
  <2>1. j - d \in Buckets /\ j - c \in Buckets /\ j - d < j - c /\ j - c \in 0..Levels
    BY BuddyAssumption DEF Buckets
  <2> QED BY <2>1, ShlGrows
<1>3. \A c, d \in Nat : c < d /\ d <= j => Inner(c, j) # Inner(d, j)
  <2>1. Shl[j] \in Nat
    BY Sizes
  <2> QED BY <1>2, <2>1 DEF Inner
<1>4. a < b \/ b < a \/ a = b
  OBVIOUS
<1> QED BY <1>1, <1>3, <1>4

\* Pushing on one list leaves the heads of the others alone.
LEMMA PushKeeps ==
  ASSUME NEW m \in [Cells -> ListT], ListsOwn(m), NEW w \in Buckets, NEW e \in Cells \ Heads
  PROVE  LET n == list_pushback(m, Head(w), e)
         IN  /\ n \in [Cells -> ListT] /\ ListsOwn(n)
             /\ \A k \in Buckets : k # w => n[Head(k)] = m[Head(k)]
<1> DEFINE h == Head(w)
           p == m[h].prev
           m1 == [m EXCEPT ![p].next = e]
           m2 == [m1 EXCEPT ![h].prev = e]
           m3 == [m2 EXCEPT ![e].prev = p]
           m4 == [m3 EXCEPT ![e].next = h]
<1>1. list_pushback(m, h, e) = m4
  BY DEF list_pushback
<1>2. /\ h \in Cells /\ p \in Cells /\ p \in (Cells \ Heads) \cup {h} /\ h \in Heads
      /\ \A k \in Buckets : Head(k) \in Cells /\ Head(k) \in Heads
  BY HeadIsCell DEF ListsOwn, Heads
<1>3. \A k \in Buckets : k # w => Head(k) # h
  BY BuddyAssumption DEF Head, Buckets
<1>4. m4 \in [Cells -> ListT]
  <2>1. list_pushback(m, h, e) \in [Cells -> ListT]
    <3> HIDE DEF m4
    <3> QED BY <1>2, PushbackTyped
  <2> QED BY <1>1, <2>1
<1>5. m1 \in [Cells -> ListT] /\ \A c \in Cells : c # p => m1[c] = m[c]
  BY <1>2, StoreTyped
<1> HIDE DEF m1, p, h
<1>6. m2 \in [Cells -> ListT] /\ m2[h].prev = e /\ \A c \in Cells : c # h => m2[c] = m1[c]
  BY <1>2, <1>5, StoreTyped DEF ListT
<1> HIDE DEF m2
<1>7. /\ m3 \in [Cells -> ListT] /\ \A c \in Cells : c # e => m3[c] = m2[c]
  BY <1>2, <1>6, StoreTyped
<1> HIDE DEF m3
<1>8. \A c \in Cells : c # e => m4[c] = m3[c]
  BY <1>7
<1> HIDE DEF m4
<1>9. m4[h].prev = e
  BY <1>2, <1>6, <1>7, <1>8
<1>10. ASSUME NEW k \in Buckets, k # w PROVE m4[Head(k)] = m[Head(k)]
  <2>1. Head(k) \in Cells /\ Head(k) # h /\ Head(k) # p /\ Head(k) # e
    BY <1>2, <1>3, <1>10
  <2> QED BY <1>5, <1>6, <1>7, <1>8, <2>1
<1>11. ListsOwn(m4)
  <2>1. ASSUME NEW k \in Buckets PROVE m4[Head(k)].prev \in (Cells \ Heads) \cup {Head(k)}
    <3>1. CASE k = w
      BY <1>9, <3>1 DEF h
    <3>2. CASE k # w
      BY <1>10, <3>2 DEF ListsOwn
    <3> QED BY <3>1, <3>2
  <2> QED BY <2>1 DEF ListsOwn
<1> QED BY <1>1, <1>4, <1>10, <1>11 DEF h

\* The caller gets one page, and writes to no other.
LEMMA GrantPage ==
  ASSUME TypeOK, Holders # {}, NEW m, NEW p \in PageFrames, Grant(m, p, Deep)
  PROVE  /\ Granted(p) /\ pc' = "idle"
         /\ \A c \in Cells : c # vmm_phys2virt(p) => mem'[c] = m[c]
<1>1. \E g \in Holders : \A f \in Holders : g <= f
  BY BuddyAssumption, LeastNatural DEF Holders
<1>2. PICK g \in Handles : live[g] = NoBlock
                           /\ live' = [live EXCEPT ![g] = [ptr |-> p, bkt |-> Deep]]
  <2>1. (CHOOSE g \in Holders : \A f \in Holders : g <= f) \in Holders
    BY <1>1
  <2> QED BY <2>1 DEF Grant, Holders
<1>3. BlockSize(Deep) = 1 /\ p \in Nat /\ p # NULL
  BY DeepBucket, Sizes, BuddyAssumption DEF PageFrames, NULL
<1>4. Frames([ptr |-> p, bkt |-> Deep]) = {p}
  <2>1. [ptr |-> p, bkt |-> Deep] # NoBlock
    BY <1>3 DEF NoBlock
  <2>2. p + 1 - 1 = p /\ p..p = {p}
    BY <1>3
  <2> QED BY <1>3, <2>1, <2>2 DEF Frames
<1>5. \A c \in Cells : c # vmm_phys2virt(p) => mem'[c] = m[c]
  BY <1>4 DEF Grant
<1> QED BY <1>2, <1>5 DEF Grant, Return, Granted

\* A page of the area is no list head.
LEMMA PageCells ==
  ASSUME NEW p \in PageFrames
  PROVE  vmm_phys2virt(p) \in Cells \ Heads
<1>1. vmm_phys2virt(p) \in Cells
  BY FrameIsCell
<1> QED BY <1>1, AddressAssumption

\* The two pages of walk i.
LEMMA TopPages ==
  ASSUME NEW i \in Nat, i < Deep
  PROVE  /\ TopAt(i) \in PageFrames /\ TopAt(i) - 1 \in PageFrames
         /\ TopAt(i) = Base + BlockSize(i) - BlockSize(Deep)
         /\ TopAt(i) - 1 = Base + BlockSize(i) - 2 * BlockSize(Deep)
         /\ TopAt(i) \in Nat /\ TopAt(i + 1) \in Nat
         /\ TopAt(i + 1) < TopAt(i) - 1 \/ i + 1 = Deep
         /\ vmm_phys2virt(TopAt(i)) # vmm_phys2virt(TopAt(i) - 1)
<1>1. /\ i \in Buckets /\ i + 1 \in Buckets /\ BlockSize(i) \in Nat \ {0} /\ BlockSize(i + 1) \in Nat \ {0}
      /\ 2 * BlockSize(i + 1) <= BlockSize(i)
  BY BlocksShrink, BuddyAssumption, Sizes DEF Deep, Buckets
<1>2. /\ TopAt(i) = Base + BlockSize(i) - BlockSize(Deep) /\ TopAt(i) \in Nat /\ TopAt(i + 1) \in Nat
      /\ TopAt(i) - 1 = Base + BlockSize(i) - 2 * BlockSize(Deep)
  BY <1>1, DeepBucket, BuddyAssumption DEF TopAt
<1>3. TopAt(i) \in PageFrames
  BY <1>2, DeepBucket, InnerNodes, BlockOfNode
<1>4. TopAt(i) - 1 \in PageFrames
  BY <1>2, DeepBucket, InnerSteps
<1>5. i + 1 # Deep => TopAt(i + 1) < TopAt(i) - 1
  <2>1. SUFFICES ASSUME i + 1 # Deep PROVE TopAt(i + 1) < TopAt(i) - 1
    OBVIOUS
  <2>2. i + 1 < Deep
    BY <2>1, DeepBucket
  <2>3. 2 * BlockSize(Deep) <= BlockSize(i + 1)
    BY <1>1, <2>2, DeepBucket, BlocksShrink
  <2> QED BY <1>1, <2>3, DeepBucket, BuddyAssumption DEF TopAt
<1>6. vmm_phys2virt(TopAt(i)) # vmm_phys2virt(TopAt(i) - 1)
  BY <1>2, BuddyAssumption DEF vmm_phys2virt
<1> QED BY <1>2, <1>3, <1>4, <1>5, <1>6

\* The whole area, untouched or merged again: walk 0 may come.
LEMMA BeforeFirst ==
  ASSUME NEW h, OneInv(h), pc = "idle", live[h] = NoBlock, Deep # 0
  PROVE  BeforeWalk(0) /\ available >= Max
<1>1. Split(0) /\ AreaFree(mem) /\ available >= Max
  BY DEF OneInv
<1>2. SplitLeft(0) /\ Unsplit(0)
  <2>1. \A n \in Nodes : ~tree[n]
    BY <1>1 DEF Split, Path
  <2>2. ASSUME NEW a \in 0..(Deep - 1), NEW j \in a..(Deep - 1) PROVE ~tree[Inner(a, j)]
    <3>1. a \in Nat /\ j \in Buckets /\ a <= j
      BY DeepBucket, BuddyAssumption DEF Deep, Buckets
    <3> QED BY <2>1, <3>1, InnerNodes
  <2> QED BY <2>2 DEF SplitLeft, Unsplit
<1>3. ASSUME NEW k \in Buckets, k # 0
      PROVE  mem[Head(k)] = [prev |-> Head(k), next |-> Head(k)]
  <2>1. ~(k <= 0)
    BY <1>3 DEF Buckets
  <2> QED BY <1>1, <1>3, <2>1 DEF Split, EdgeLists
<1>4. DeepEmpty(mem)
  BY <1>3, DeepBucket DEF DeepEmpty
<1>5. ListsOwn(mem)
  <2>1. Area \in Cells \ Heads
    BY AreaCells, PageCells DEF Area
  <2>2. mem[Head(0)].prev \in (Cells \ Heads) \cup {Head(0)}
    BY <1>1, <2>1 DEF AreaFree
  <2>3. ASSUME NEW k \in Buckets, k # 0 PROVE mem[Head(k)].prev = Head(k)
    <3>1. mem[Head(k)] = [prev |-> Head(k), next |-> Head(k)]
      BY <1>3, <2>3
    <3> QED BY <3>1
  <2> QED BY <2>2, <2>3 DEF ListsOwn
<1> QED BY <1>1, <1>2, <1>4, <1>5 DEF BeforeWalk

\* A request for one page: walk i if the list of the pages is empty.
LEMMA PageRequested ==
  ASSUME Ind, NEW k, Request(1, k)
  PROVE  k = Deep /\ available' = available - 1 /\ Holders # {} /\ pc = "idle" /\ available >= 1
BY DeepBucket DEF Request

LEMMA WalkBegins ==
  ASSUME Ind, NEW i \in Nat, i < Deep, BeforeWalk(i), AllocWalk(1) \/ AllocPop(1)
  PROVE  DuringWalk(i)' /\ live' = live /\ available' = available - 1
<1>1. list_empty(mem, Head(Deep))
  BY DEF BeforeWalk, DeepEmpty, list_empty
<1>2. ~AllocPop(1)
  BY <1>1, PageRequested DEF AllocPop
<1>3. /\ pc' = "walk" /\ bkt' = Deep /\ node' = 0 /\ walker' = 1 /\ live' = live
      /\ UNCHANGED <<mem, tree>> /\ available' = available - 1 /\ Holders # {}
  BY <1>2, PageRequested DEF AllocWalk
<1>4. walker' \in 1..Deep
  BY <1>3, DeepBucket
<1>5. node' = IF walker' <= i THEN Leftmost(walker' - 1) ELSE Inner(i, walker' - 1)
  <2>1. 0 \in Buckets /\ walker' - 1 = 0
    BY <1>3, AreaCells
  <2>2. ~(walker' <= i) => i = 0
    BY <1>3
  <2> QED BY <1>3, <2>1, <2>2, LeftmostNodes
<1>6. walker' <= i + 1
  BY <1>3
<1>7. SplitLeft(i)' /\ Unsplit(i + 1)' /\ \A j \in i..(Deep - 1) : ~tree'[Inner(i, j)]
  <2>1. \A a \in i..(Deep - 1) : \A j \in a..(Deep - 1) : ~tree[Inner(a, j)]
    BY DEF BeforeWalk, Unsplit
  <2>2. (i + 1)..(Deep - 1) \subseteq i..(Deep - 1) /\ i \in i..(Deep - 1)
    BY DeepBucket
  <2>3. Unsplit(i + 1)'
    BY <1>3, <2>1, <2>2 DEF Unsplit
  <2>4. \A j \in i..(Deep - 1) : ~tree'[Inner(i, j)]
    BY <1>3, <2>1, <2>2
  <2>5. SplitLeft(i)'
    BY <1>3 DEF BeforeWalk, SplitLeft
  <2> QED BY <2>3, <2>4, <2>5
<1>8. ListsOwn(mem') /\ DeepEmpty(mem') /\ Holders' # {}
  BY <1>3 DEF BeforeWalk, ListsOwn, DeepEmpty, Holders
<1> QED BY <1>3, <1>4, <1>5, <1>6, <1>7, <1>8 DEF DuringWalk

\* One iteration of the walk.
LEMMA WalkDescends ==
  ASSUME Ind, NEW i \in Nat, i < Deep, DuringWalk(i), WalkFull
  PROVE  DuringWalk(i)' /\ live' = live /\ available' = available
<1>1. PICK w : w = walker
  OBVIOUS
<1>2. /\ w \in 1..Deep /\ tree[node] /\ node' = node_left(node) /\ walker' = w + 1
      /\ UNCHANGED <<mem, tree, available, live, pc, bkt>> /\ pc = "walk" /\ bkt = Deep
      /\ node = IF w <= i THEN Leftmost(w - 1) ELSE Inner(i, w - 1)
  BY <1>1 DEF WalkFull, DuringWalk
<1>3. w <= i
  <2>1. SUFFICES ASSUME ~(w <= i) PROVE FALSE
    OBVIOUS
  <2>2. w - 1 \in i..(Deep - 1) /\ w - 1 >= w - 1
    BY <1>2, <2>1, DeepBucket
  <2>3. ~tree[Inner(i, w - 1)]
    BY <1>1, <2>2 DEF DuringWalk
  <2> QED BY <1>2, <2>1, <2>3
<1>4. w - 1 \in Buckets /\ w \in Buckets /\ (w - 1) + 1 = w /\ walker' \in 1..Deep /\ walker' - 1 = w
  BY <1>2, <1>3, DeepBucket, BuddyAssumption DEF Buckets, Deep
<1>5. node' = Leftmost(w)
  BY <1>2, <1>3, <1>4, LeftmostNodes
<1>6. node' = IF walker' <= i THEN Leftmost(walker' - 1) ELSE Inner(i, walker' - 1)
  <2>1. CASE walker' <= i
    BY <1>4, <1>5, <2>1
  <2>2. CASE ~(walker' <= i)
    <3>1. w = i
      BY <1>2, <1>3, <2>2
    <3> QED BY <1>4, <1>5, <2>2, <3>1, LeftmostNodes
  <2> QED BY <2>1, <2>2
<1>7. SplitLeft(i) /\ w <= i + 1 /\ walker' <= i + 1
  BY <1>1, <1>2, <1>3 DEF DuringWalk
<1>8. \A j \in i..(Deep - 1) : j >= walker' - 1 => ~tree'[Inner(i, j)]
  <2>1. \A j \in i..(Deep - 1) : j >= w - 1
    BY <1>2, <1>3
  <2> QED BY <1>1, <1>2, <2>1 DEF DuringWalk
<1>9. SplitLeft(i)' /\ Unsplit(i + 1)' /\ ListsOwn(mem') /\ DeepEmpty(mem') /\ Holders' # {}
  BY <1>2, <1>7 DEF DuringWalk, SplitLeft, Unsplit, ListsOwn, DeepEmpty, Holders
<1> QED BY <1>2, <1>4, <1>6, <1>7, <1>8, <1>9 DEF DuringWalk

\* What a split below the leftmost node of bucket i leaves of the tree.
LEMMA SplitTree ==
  ASSUME tree \in [Nodes -> BOOLEAN], NEW i \in Nat, i < Deep, NEW w \in (i + 1)..Deep,
         SplitLeft(IF w <= i + 1 THEN i ELSE i + 1), Unsplit(i + 1),
         \A j \in i..(Deep - 1) : j >= w - 1 => ~tree[Inner(i, j)],
         tree' = [tree EXCEPT ![Inner(i, w - 1)] = TRUE]
  PROVE  /\ SplitLeft(i + 1)' /\ Unsplit(i + 1)'
         /\ \A j \in i..(Deep - 1) : j >= w => ~tree'[Inner(i, j)]
<1>1. w - 1 \in Buckets /\ i <= w - 1 /\ Deep \in Nat /\ Deep = Levels - 1 /\ w \in Nat
  BY DeepBucket, BuddyAssumption DEF Deep, Buckets
<1>2. PICK x \in Nodes : x = Inner(i, w - 1)
  BY <1>1, InnerNodes
<1>3. /\ tree'[x] /\ \A n \in Nodes : tree[n] => tree'[n]
      /\ \A n \in Nodes : n # x => tree'[n] = tree[n]
  BY <1>2
<1>4. ASSUME NEW j \in 0..((i + 1) - 1), j < Deep - 1 PROVE tree'[Leftmost(j)]
  <2>1. j \in Buckets /\ Leftmost(j) \in Nodes
    BY <1>1, <1>4, LeftmostNodes DEF Buckets
  <2>2. CASE j = i /\ w = i + 1
    BY <1>2, <1>3, <2>1, <2>2, LeftmostNodes
  <2>3. CASE ~(j = i /\ w = i + 1)
    <3>1. w <= i + 1 => j \in 0..(i - 1)
      BY <1>1, <2>3
    <3>2. tree[Leftmost(j)]
      BY <1>4, <3>1 DEF SplitLeft
    <3> QED BY <1>3, <2>1, <3>2
  <2> QED BY <2>2, <2>3
<1>5. ASSUME NEW a \in (i + 1)..(Deep - 1), NEW j \in a..(Deep - 1) PROVE ~tree'[Inner(a, j)]
  <2>1. a \in Nat /\ a # i /\ j \in Buckets /\ a <= j
    BY <1>1 DEF Buckets
  <2>2. Inner(a, j) \in Nodes /\ Inner(a, j) # x
    BY <1>1, <1>2, <2>1, InnerNodes, InnersApart
  <2>3. ~tree[Inner(a, j)]
    BY DEF Unsplit
  <2> QED BY <1>3, <2>2, <2>3
<1>6. ASSUME NEW j \in i..(Deep - 1), j >= w PROVE ~tree'[Inner(i, j)]
  <2>1. j \in Buckets /\ i <= j /\ j # w - 1 /\ j >= w - 1
    BY <1>1, <1>6 DEF Buckets
  <2>2. Inner(i, j) \in Nodes /\ Inner(i, j) # x
    BY <1>1, <1>2, <2>1, InnerNodes, InnersApart
  <2> QED BY <1>3, <2>1, <2>2
<1> QED BY <1>4, <1>5, <1>6 DEF SplitLeft, Unsplit

LEMMA WalkSplits ==
  ASSUME Ind, NEW i \in Nat, i < Deep, DuringWalk(i), WalkSplit
  PROVE  /\ available' = available
         /\ \/ DuringWalk(i)' /\ live' = live
            \/ AfterWalk(i)' /\ Granted(TopAt(i))
<1>1. PICK w : w = walker
  OBVIOUS
<1>2. /\ w \in 1..Deep /\ ~tree[node] /\ pc = "walk" /\ bkt = Deep /\ available' = available
      /\ node = (IF w <= i THEN Leftmost(w - 1) ELSE Inner(i, w - 1))
      /\ ListsOwn(mem) /\ DeepEmpty(mem) /\ Holders # {} /\ Deep \in Nat
      /\ SplitLeft(IF w <= i + 1 THEN i ELSE i + 1) /\ Unsplit(i + 1)
      /\ \A j \in i..(Deep - 1) : j >= w - 1 => ~tree[Inner(i, j)]
  BY <1>1, DeepBucket DEF WalkSplit, DuringWalk
<1>3. w \in (i + 1)..Deep
  <2>1. SUFFICES ASSUME w <= i PROVE FALSE
    BY <1>2
  <2>2. w - 1 \in 0..(i - 1) /\ w - 1 < Deep - 1 /\ w <= i + 1
    BY <1>2, <2>1
  <2> QED BY <1>2, <2>1, <2>2 DEF SplitLeft
<1>4. w \in Buckets /\ i < w /\ w \in Nat
  BY <1>2, <1>3, BuddyAssumption DEF Buckets, Deep
<1>5. PICK l \in PageFrames : l = Base + BlockSize(i) - 2 * BlockSize(w)
  BY <1>4, InnerSteps
<1>6. /\ node = Inner(i, w - 1) /\ node2ptr(node_left(node), w) = l
      /\ node_right(node) = Inner(i, w)
      /\ node2ptr(node_right(node), w) = Base + BlockSize(i) - BlockSize(w)
  BY <1>2, <1>3, <1>4, <1>5, InnerSteps, InnerNodes
<1>7. PICK m : m = list_pushback(mem, Head(w), vmm_phys2virt(l))
  OBVIOUS
<1>8. /\ mem \in [Cells -> ListT] /\ tree \in [Nodes -> BOOLEAN]
      /\ vmm_phys2virt(l) \in Cells \ Heads /\ Head(w) \in Cells /\ Head(w) # vmm_phys2virt(l)
  BY <1>4, PageCells, HeadIsCell DEF Ind, TypeOK, Heads
<1>9. m \in [Cells -> ListT] /\ ListsOwn(m) /\ \A k \in Buckets : k # w => m[Head(k)] = mem[Head(k)]
  BY <1>2, <1>4, <1>7, <1>8, PushKeeps
<1>10. Follow(list_back(mem, Head(w)), list_back(mem, Head(w))) = "ok"
  <2>1. mem[Head(w)].prev \in Cells
    BY <1>2, <1>4, <1>8 DEF ListsOwn
  <2> QED BY <2>1, CellsFollow DEF list_back
<1>11. /\ tree' = [tree EXCEPT ![Inner(i, w - 1)] = TRUE]
       /\ \/ w = Deep /\ Grant(m, Base + BlockSize(i) - BlockSize(w), Deep)
          \/ /\ w < Deep /\ mem' = m /\ node' = Inner(i, w) /\ walker' = w + 1
             /\ UNCHANGED <<order, live, pc, bkt, ptr>>
  BY <1>1, <1>2, <1>6, <1>7, <1>10 DEF WalkSplit, buddy_pushback
<1>12. /\ SplitLeft(i + 1)' /\ Unsplit(i + 1)'
       /\ \A j \in i..(Deep - 1) : j >= w => ~tree'[Inner(i, j)]
  BY <1>2, <1>3, <1>8, <1>11, SplitTree
<1>13. CASE /\ w < Deep /\ mem' = m /\ node' = Inner(i, w) /\ walker' = w + 1
            /\ UNCHANGED <<order, live, pc, bkt, ptr>>
  <2>1. /\ walker' \in 1..Deep /\ walker' - 1 = w /\ ~(walker' <= i) /\ ~(walker' <= i + 1)
    BY <1>3, <1>4, <1>13, DeepBucket
  <2>2. node' = IF walker' <= i THEN Leftmost(walker' - 1) ELSE Inner(i, walker' - 1)
    BY <1>13, <2>1
  <2>3. DeepEmpty(mem') /\ ListsOwn(mem') /\ Holders' # {}
    BY <1>2, <1>9, <1>13, DeepBucket DEF DeepEmpty, Holders
  <2>4. \A j \in i..(Deep - 1) : j >= walker' - 1 => ~tree'[Inner(i, j)]
    BY <1>12, <2>1
  <2>5. DuringWalk(i)'
    BY <1>2, <1>12, <1>13, <2>1, <2>2, <2>3, <2>4 DEF DuringWalk
  <2> QED BY <1>2, <1>13, <2>5
<1>14. CASE w = Deep /\ Grant(m, Base + BlockSize(i) - BlockSize(w), Deep)
  <2>1. /\ TopAt(i) \in PageFrames /\ l = TopAt(i) - 1 /\ Grant(m, TopAt(i), Deep)
        /\ vmm_phys2virt(TopAt(i)) # vmm_phys2virt(l) /\ vmm_phys2virt(TopAt(i)) \in Cells \ Heads
    BY <1>5, <1>14, TopPages, PageCells
  <2>2. /\ Granted(TopAt(i)) /\ pc' = "idle"
        /\ \A c \in Cells : c # vmm_phys2virt(TopAt(i)) => mem'[c] = m[c]
    BY <1>2, <2>1, GrantPage DEF Ind
  <2>3. \A k \in Buckets : mem'[Head(k)] = m[Head(k)]
    <3>1. \A k \in Buckets : Head(k) \in Cells /\ Head(k) \in Heads
      BY HeadIsCell DEF Heads
    <3> QED BY <2>1, <2>2, <3>1
  <2>4. ListsOwn(mem')
    BY <1>9, <2>3 DEF ListsOwn
  <2>5. DeepHas(m, vmm_phys2virt(l))
    BY <1>2, <1>7, <1>8, <1>14, PushOnEmpty DEF DeepEmpty, DeepHas
  <2>6. DeepHas(mem', vmm_phys2virt(l))
    BY <1>8, <2>1, <2>2, <2>3, <2>5, DeepBucket DEF DeepHas
  <2>7. tree'[Inner(i, Deep - 1)]
    <3>1. Inner(i, Deep - 1) \in Nodes
      BY DeepBucket, InnerSteps, InnerNodes
    <3> QED BY <1>8, <1>11, <1>14, <3>1
  <2>8. AfterWalk(i)'
    BY <1>12, <2>1, <2>2, <2>4, <2>6, <2>7 DEF AfterWalk, TopAt
  <2> QED BY <1>2, <2>2, <2>8
<1> QED BY <1>11, <1>13, <1>14

\* A walk for one page never fails: there is a node left to split.
LEMMA WalkGoesOn ==
  ASSUME Ind, NEW i \in Nat, i < Deep, DuringWalk(i), Iteration
  PROVE  /\ available' = available
         /\ \/ DuringWalk(i)' /\ live' = live
            \/ AfterWalk(i)' /\ Granted(TopAt(i))
<1>1. ~WalkFails /\ ~FreeMerge /\ ~FreeDone
  BY DeepBucket DEF DuringWalk, WalkFails, FreeMerge, FreeDone
<1> QED BY <1>1, WalkDescends, WalkSplits DEF Iteration

\* The call after walk i takes the page next to the one the walk has found.
LEMMA PagePopped ==
  ASSUME Ind, NEW i \in Nat, i < Deep, AfterWalk(i), DM_START = 0, AllocWalk(1) \/ AllocPop(1),
         NEW m, m = WalkOf(i + 1)
  PROVE  BeforeWalk(m)' /\ Granted(TopAt(i) - 1) /\ available' = available - 1
<1>1. PICK e : e = TopAt(i) - 1
  OBVIOUS
<1>2. /\ e \in PageFrames /\ vmm_phys2virt(e) = e /\ e \in Cells \ Heads
      /\ Head(Deep) \in Cells /\ Head(Deep) \in Heads /\ Head(Deep) # e
  BY <1>1, TopPages, PageCells, DeepBucket, BuddyAssumption DEF vmm_phys2virt, PageFrames, Heads
<1>3. /\ mem[Head(Deep)] = [prev |-> e, next |-> e]
      /\ mem[e] = [prev |-> Head(Deep), next |-> Head(Deep)]
      /\ mem \in [Cells -> ListT] /\ tree \in [Nodes -> BOOLEAN]
  BY <1>1, <1>2 DEF AfterWalk, DeepHas, Ind, TypeOK
<1>4. list_back(mem, Head(Deep)) = e /\ ~list_empty(mem, Head(Deep))
  BY <1>2, <1>3 DEF list_back, list_empty
<1>5. FollowLinks(mem, e) = "ok" /\ HasPage(e)
  BY <1>2, <1>3, CellsFollow DEF FollowLinks, HasPage
<1>6. PICK x \in Nodes : x = Inner(i, Deep - 1)
  BY DeepBucket, InnerSteps, InnerNodes
<1>7. ptr2node(e, Deep) # 0 /\ node_parent(ptr2node(e, Deep)) = x
  <2>1. /\ Deep - 1 \in Buckets /\ i <= Deep - 1 /\ (Deep - 1) + 1 = Deep
        /\ Deep - 1 - i \in 0..(Levels - 1) /\ (Deep - 1 - i) + 1 = Deep - i /\ i <= Deep
    BY DeepBucket, BuddyAssumption DEF Deep, Buckets
  <2>2. PICK u \in Nat \ {0}, v \in Nat \ {0} : u = Shl[Deep - 1] /\ v = Shl[Deep - 1 - i]
    BY <2>1, InnerSizes
  <2>3. Shl[Deep] = 2 * u /\ Shl[Deep - i] = 2 * v
    <3>1. Shl[(Deep - 1) + 1] = 2 * Shl[Deep - 1]
      BY <2>1, Sizes
    <3>2. Shl[(Deep - 1 - i) + 1] = 2 * Shl[Deep - 1 - i]
      BY <2>1, ShlAssumption
    <3> QED BY <2>1, <2>2, <3>1, <3>2
  <2>4. BlockSize(i) = 2 * v
    <3>1. BlockSize(i) = Shl[Deep - i] * 1
      BY <2>1, DeepBucket, InnerSizes
    <3> QED BY <2>2, <2>3, <3>1
  <2>5. (e - Base) \div BlockSize(Deep) = 2 * v - 2
    <3>1. e - Base = 2 * v - 2 /\ 2 * v - 2 \in Nat
      BY <1>1, <2>2, <2>4, BuddyAssumption DEF TopAt
    <3> QED BY <3>1, DeepBucket
  <2>6. ptr2node(e, Deep) = 2 * u + 2 * v - 3
    BY <2>2, <2>3, <2>5 DEF ptr2node
  <2>7. x = u + v - 2
    BY <1>6, <2>2 DEF Inner
  <2>8. \A y, z \in Nat \ {0} : 2 * y + 2 * z - 3 # 0 /\ (2 * y + 2 * z - 3 - 1) \div 2 = y + z - 2
    OBVIOUS
  <2> QED BY <2>2, <2>6, <2>7, <2>8 DEF node_parent
<1>8. ~AllocWalk(1)
  BY <1>4, PageRequested DEF AllocWalk
<1>9. /\ tree' = [tree EXCEPT ![x] = ~@] /\ Grant(buddy_pop(mem, Deep), e, Deep)
      /\ available' = available - 1 /\ Holders # {}
  BY <1>4, <1>5, <1>7, <1>8, PageRequested DEF AllocPop, node_parent_flip
<1> DEFINE n == list_remove(mem, e)
           q == buddy_pop(mem, Deep)
<1>10. /\ n[Head(Deep)] = [prev |-> Head(Deep), next |-> Head(Deep)]
       /\ \A c \in Cells : c \notin {Head(Deep), e} => n[c] = mem[c]
       /\ n \in [Cells -> ListT]
  BY <1>2, <1>3, RemoveLast, RemoveTyped
<1>11. q = [n EXCEPT ![e] = Zeroed]
  BY <1>4 DEF buddy_pop, list_pop
<1> HIDE DEF n, q
<1>12. /\ Granted(e) /\ pc' = "idle" /\ \A c \in Cells : c # e => mem'[c] = q[c]
  BY <1>2, <1>9, GrantPage DEF Ind, q
<1>13. /\ mem'[Head(Deep)] = [prev |-> Head(Deep), next |-> Head(Deep)]
       /\ \A k \in Buckets : k # Deep => mem'[Head(k)] = mem[Head(k)]
  <2>1. \A c \in Cells : c # e => mem'[c] = n[c]
    BY <1>10, <1>11, <1>12
  <2>2. \A k \in Buckets : Head(k) \in Cells /\ Head(k) # e /\ (k # Deep => Head(k) # Head(Deep))
    BY <1>2, HeadIsCell, DeepBucket, BuddyAssumption DEF Heads, Head, Buckets
  <2> QED BY <1>2, <1>10, <2>1, <2>2
<1>14. ListsOwn(mem') /\ DeepEmpty(mem')
  <2>1. ASSUME NEW k \in Buckets PROVE mem'[Head(k)].prev \in (Cells \ Heads) \cup {Head(k)}
    <3>1. CASE k = Deep
      BY <1>13, <3>1
    <3>2. CASE k # Deep
      BY <1>13, <3>2 DEF AfterWalk, ListsOwn
    <3> QED BY <3>1, <3>2
  <2> QED BY <1>13, <2>1 DEF ListsOwn, DeepEmpty
<1>15. \A y \in Nodes : y # x => tree'[y] = tree[y]
  BY <1>3, <1>9
<1>16. Deep - 1 \in Buckets /\ i <= Deep - 1 /\ x \in NodesOf(Deep - 1)
  BY <1>6, DeepBucket, InnerSteps, InnerNodes
<1>17. SplitLeft(i + 1)'
  <2>1. ASSUME NEW j \in 0..((i + 1) - 1), j < Deep - 1 PROVE tree'[Leftmost(j)]
    <3>1. j \in Buckets /\ j # Deep - 1
      BY <2>1, DeepBucket, BuddyAssumption DEF Buckets, Deep
    <3>2. Leftmost(j) \in Nodes /\ Leftmost(j) # x
      BY <1>16, <3>1, LeftmostNodes, NodesApart
    <3>3. tree[Leftmost(j)]
      BY <2>1 DEF AfterWalk, SplitLeft
    <3> QED BY <1>15, <3>2, <3>3
  <2> QED BY <2>1 DEF SplitLeft
<1>18. Unsplit(i + 1)'
  <2>1. ASSUME NEW a \in (i + 1)..(Deep - 1), NEW j \in a..(Deep - 1) PROVE ~tree'[Inner(a, j)]
    <3>1. a \in Nat /\ a # i /\ j \in Buckets /\ a <= j
      BY DeepBucket, BuddyAssumption DEF Deep, Buckets
    <3>2. Inner(a, j) \in Nodes /\ Inner(a, j) # x
      BY <1>6, <1>16, <3>1, InnerNodes, InnersApart
    <3>3. ~tree[Inner(a, j)]
      BY DEF AfterWalk, Unsplit
    <3> QED BY <1>15, <3>2, <3>3
  <2> QED BY <2>1 DEF Unsplit
<1>19. ~tree'[x]
  BY <1>3, <1>6, <1>9 DEF AfterWalk
<1>20. CASE i + 1 < Deep
  <2>1. m = i + 1
    BY <1>20 DEF WalkOf
  <2>2. SplitLeft(m)' /\ Unsplit(m)'
    BY <1>17, <1>18, <2>1
  <2> QED BY <1>1, <1>9, <1>12, <1>14, <2>2 DEF BeforeWalk
<1>21. CASE ~(i + 1 < Deep)
  <2>1. i = Deep - 1 /\ m = i /\ Deep \in Nat
    BY <1>21, DeepBucket DEF WalkOf
  <2>2. SplitLeft(i)'
    <3>1. \A j \in 0..(i - 1) : j \in 0..((i + 1) - 1)
      OBVIOUS
    <3> QED BY <1>17, <3>1 DEF SplitLeft
  <2>3. Unsplit(i)'
    <3>1. ASSUME NEW a \in i..(Deep - 1), NEW j \in a..(Deep - 1) PROVE ~tree'[Inner(a, j)]
      <4>1. a = i /\ j = Deep - 1
        BY <2>1
      <4> QED BY <1>6, <1>19, <4>1
    <3> QED BY <3>1 DEF Unsplit
  <2>4. SplitLeft(m)' /\ Unsplit(m)'
    BY <2>1, <2>2, <2>3
  <2> QED BY <1>1, <1>9, <1>12, <1>14, <2>4 DEF BeforeWalk
<1> QED BY <1>20, <1>21
=============================================================================
