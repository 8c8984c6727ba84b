------------------------------- MODULE Buddy -------------------------------
(***************************************************************************)
(* kernel/kernel/buddy.c: the physical page frame allocator, one           *)
(* buddy_area_t.                                                           *)
(*                                                                         *)
(* Addresses are natural numbers counted in pages (b->min = PGSIZE = 1).   *)
(* A free block keeps its list_t in its own first bytes, reached through   *)
(* the direct map: physical address a is virtual address a + DM_START.     *)
(* The kernel runs on one processor with interrupts off, so a call runs to *)
(* its end before the next one starts; a step of this module is one        *)
(* iteration of a loop of the call in progress, and pc says which loop.    *)
(***************************************************************************)
EXTENDS Integers, FiniteSets, ListOps

CONSTANTS
  Levels,        \* buddy_max_bucket(b): a bucket for every block size
  Base,          \* b->base, a physical address
  DM_START,      \* VMM_RESERVED_DM_START
  Freelist,      \* b->freelist, the virtual address of its first list_t
  Shl,           \* Shl[k] is the C expression 1 << k
  Requests,      \* sizes callers ask for
  Handles,       \* names for the blocks callers hold: bounds how many they hold
  MaxAvailable   \* bound on the counter b->available, for TLC

NULL == 0
Unknown == -1                           \* content the allocator did not write

Buckets == 0..(Levels - 1)              \* bucket 0 is the whole area
Max == Shl[Levels - 1]                  \* b->max
Nodes == 0..(Shl[Levels] - 2)           \* nodes of the binary tree
PageFrames == Base..(Base + Max - 1)

vmm_phys2virt(a) == a + DM_START

Head(k) == Freelist + k                 \* &b->freelist[k]
Heads == {Head(k) : k \in Buckets}
Cells == Heads \cup {vmm_phys2virt(p) : p \in PageFrames}
ListT == [prev : Cells \cup {NULL, Unknown}, next : Cells \cup {NULL, Unknown}]
Zeroed == [prev |-> NULL, next |-> NULL]
Foreign == [prev |-> Unknown, next |-> Unknown]

ASSUME BuddyAssumption ==
  /\ Levels \in Nat \ {0}
  /\ Base \in Nat \ {0}
  /\ DM_START \in Nat
  /\ Freelist \in Nat \ {0}
  /\ MaxAvailable \in Nat
  /\ Handles \subseteq Nat

\* What shifting does to the sizes, all of them powers of two.
ASSUME ShlAssumption ==
  /\ Shl \in [0..Levels -> Nat \ {0}]
  /\ Shl[0] = 1
  /\ \A k \in 0..(Levels - 1) : Shl[k + 1] = 2 * Shl[k]
  /\ \A j, k \in 0..Levels : j + k <= Levels => Shl[j + k] = Shl[j] * Shl[k]

\* No request is larger than twice the area: sizes the shifts still express.
ASSUME RequestsAssumption == Requests \subseteq 1..Shl[Levels]

\* The direct map is far above physical memory, and the list heads (reserved
\* kernel memory) are outside the area in both views.  DM_START = 0 is not the
\* kernel's value: it stands for a buddy_pop that hands out physical addresses.
ASSUME AddressAssumption ==
  /\ DM_START = 0 \/ DM_START >= Base + Max
  /\ Heads \cap (PageFrames \cup {vmm_phys2virt(p) : p \in PageFrames}) = {}

-----------------------------------------------------------------------------
\* Geometry of the tree (the macros of buddy.h and the two conversions).
node_parent_rounded(i) == i \div 2   \* faulty
node_parent(i) == (i - 1) \div 2
node_left_of_right(i) == i * 2 + 2   \* faulty
node_left(i) == i * 2 + 1
node_right_off_by_one(i) == i * 2 + 3   \* faulty
node_right(i) == i * 2 + 2
node_sibling(i) == IF i % 2 = 1 THEN i + 1 ELSE i - 1   \* ((i - 1) ^ 1) + 1

BlockSize(bkt) == Shl[Levels - 1 - bkt]
node2ptr(node, bkt) == Base + (node - Shl[bkt] + 1) * BlockSize(bkt)
ptr2node(ptr, bkt) == (ptr - Base) \div BlockSize(bkt) + Shl[bkt] - 1

\* buddy_find_bkt: the deepest bucket whose blocks are large enough.  The loop
\* has no lower bound: a request above b->max gives bucket -1.
buddy_find_bkt(requested) ==
  CHOOSE k \in -1..(Levels - 1) :
    /\ BlockSize(k) >= requested
    /\ \A j \in (k + 1)..(Levels - 1) : BlockSize(j) < requested

\* phys2page has a struct page for the frames of the area only.
HasPage(a) == a \in PageFrames

Block == [ptr : PageFrames, bkt : Buckets]
NoBlock == [ptr |-> NULL, bkt |-> 0]
Frames(b) == IF b = NoBlock THEN {} ELSE b.ptr..(b.ptr + BlockSize(b.bkt) - 1)

-----------------------------------------------------------------------------
VARIABLES
  mem,        \* the list_t stored at every address of Cells
  tree,       \* b->tree: one bit for every node
  available,  \* b->available
  order,      \* struct page.order of every page frame
  live,       \* the block every caller holds, or NoBlock
  pc,         \* "idle" between calls; "walk" in buddy_tree_walk; "merge" in the
              \* loop of buddy_free; "fault" after an access to an unmapped
              \* address (no IDT is loaded: the machine resets); "wild" after
              \* following a link read from memory the allocator did not write
  node, walker, bkt, ptr    \* local variables of the call in progress

vars == <<mem, tree, available, order, live, pc, node, walker, bkt, ptr>>
locals == <<node, walker, bkt, ptr>>

node_parent_set(t, n) == [t EXCEPT ![node_parent(n)] = TRUE]   \* faulty
node_parent_flip(t, n) == [t EXCEPT ![node_parent(n)] = ~@]

\* buddy_pushback and buddy_remove take a physical address.  buddy_remove and
\* buddy_pop leave the entry zeroed.
buddy_pushback(m, k, a) == list_pushback(m, Head(k), vmm_phys2virt(a))
buddy_remove_zero_only(m, a) == [m EXCEPT ![vmm_phys2virt(a)] = Zeroed]   \* faulty
buddy_remove_none(m, a) == m   \* faulty
buddy_remove(m, a) == [list_remove(m, vmm_phys2virt(a)) EXCEPT ![vmm_phys2virt(a)] = Zeroed]
buddy_pop(m, k) ==
  LET entry == list_back(m, Head(k)) IN [list_pop(m, Head(k)) EXCEPT ![entry] = Zeroed]

\* A list operation stores through two pointers (or twice through one), in this
\* order.  NULL is not mapped; Unknown came out of a caller's own data.
Follow(p, q) ==
  CASE p = NULL -> "fault"
    [] p # NULL /\ Unknown \in {p, q} -> "wild"
    [] p \in Cells /\ q = NULL -> "fault"
    [] OTHER -> "ok"
FollowLinks(m, c) == IF c \in Cells THEN Follow(m[c].prev, m[c].next) ELSE Follow(c, c)

\* Nothing runs after a crash: what the call stored before it is not kept.
Crash(outcome) == pc' = outcome /\ UNCHANGED <<mem, tree, order, live, locals>>

Return == pc' = "idle" /\ node' = 0 /\ walker' = 0 /\ bkt' = 0 /\ ptr' = NULL

\* The block goes to a caller without one, who fills it with data of its own.
Holders == {h \in Handles : live[h] = NoBlock}
GrantWithoutOrder(m, p, k) ==   \* faulty
  /\ live' = [live EXCEPT ![CHOOSE h \in Holders : \A g \in Holders : h <= g] =
                [ptr |-> p, bkt |-> k]]
  /\ mem' = [c \in Cells |->
       IF \E q \in Frames([ptr |-> p, bkt |-> k]) : c = vmm_phys2virt(q)
       THEN Foreign ELSE m[c]]
  /\ Return
  /\ UNCHANGED order

Grant(m, p, k) ==
  /\ live' = [live EXCEPT ![CHOOSE h \in Holders : \A g \in Holders : h <= g] =
                [ptr |-> p, bkt |-> k]]
  /\ order' = [order EXCEPT ![p] = k]
  /\ mem' = [c \in Cells |->
       IF \E q \in Frames([ptr |-> p, bkt |-> k]) : c = vmm_phys2virt(q)
       THEN Foreign ELSE m[c]]
  /\ Return

-----------------------------------------------------------------------------
\* buddy_area_init: the tree comes zeroed from mm_reserved_alloc, every list
\* is empty but freelist[0], which holds the whole area.
Init ==
  /\ LET lists == [c \in Cells |-> IF c \in Heads THEN [prev |-> c, next |-> c] ELSE Foreign]
     IN  mem = buddy_pushback(lists, 0, Base)
  /\ tree = [n \in Nodes |-> FALSE]
  /\ available = Max
  /\ order = [p \in PageFrames |-> 0]
  /\ live = [h \in Handles |-> NoBlock]
  /\ pc = "idle"
  /\ node = 0 /\ walker = 0 /\ bkt = 0 /\ ptr = NULL

\* buddy_alloc(b, r) up to the free list of its bucket k.  A request for more
\* than is available returns NULL and changes nothing.
Request(r, k) ==
  /\ pc = "idle"
  /\ Holders # {}
  /\ k = buddy_find_bkt(r)
  /\ BlockSize(k) <= available
  /\ available' = available - BlockSize(k)

\* freelist[-1] lies in the zeroed memory of the tree: list_pop takes it for a
\* list whose last entry is NULL.
AllocBeyondMax(r) == Request(r, -1) /\ Crash("fault")

\* The list is empty: try to split larger blocks.
AllocWalk(r) ==
  \E k \in Buckets :
    /\ Request(r, k)
    /\ list_empty(mem, Head(k))
    /\ pc' = "walk"
    /\ node' = 0
    /\ walker' = 1
    /\ bkt' = k
    /\ UNCHANGED <<mem, tree, order, live, ptr>>

\* The newest entry of the list is taken.  buddy_pop returns its virtual
\* address, and the rest of buddy_alloc uses it as a physical one: there is no
\* tree node and no struct page for it unless both are the same address.
AllocPop(r) ==
  \E k \in Buckets :
    LET entry == list_back(mem, Head(k))
        links == FollowLinks(mem, entry)
        n == ptr2node(entry, k)
    IN
    /\ Request(r, k)
    /\ ~list_empty(mem, Head(k))
    /\ \/ links # "ok" /\ Crash(links)
       \/ links = "ok" /\ ~HasPage(entry) /\ Crash("fault")
       \/ /\ links = "ok"
          /\ HasPage(entry)
          /\ tree' = IF n = 0 THEN tree ELSE node_parent_flip(tree, n)
          /\ Grant(buddy_pop(mem, k), entry, k)

\* buddy_tree_walk, one iteration each: a split node is taken to have a full
\* right child, any other node to be free.
WalkFullNoDescent ==   \* faulty
  pc = "walk" /\ walker <= bkt /\ tree[node] /\ UNCHANGED vars

WalkFull ==
  /\ pc = "walk"
  /\ walker <= bkt
  /\ tree[node]
  /\ node' = node_left(node)
  /\ walker' = walker + 1
  /\ UNCHANGED <<mem, tree, available, order, live, pc, bkt, ptr>>

WalkSplit ==
  LET left == node2ptr(node_left(node), walker)
      right == node2ptr(node_right(node), walker)
      prev == list_back(mem, Head(walker))
      m == buddy_pushback(mem, walker, left)
  IN
  /\ pc = "walk"
  /\ walker <= bkt
  /\ ~tree[node]
  /\ UNCHANGED available
  /\ \/ Follow(prev, prev) # "ok" /\ Crash(Follow(prev, prev))
     \/ /\ Follow(prev, prev) = "ok"
        /\ tree' = [tree EXCEPT ![node] = TRUE]
        /\ \/ walker = bkt /\ Grant(m, right, bkt)
           \/ /\ walker < bkt
              /\ mem' = m
              /\ node' = node_right(node)
              /\ walker' = walker + 1
              /\ UNCHANGED <<order, live, pc, bkt, ptr>>

\* NULL: the size already taken from b->available is not given back.
WalkFails ==
  /\ pc = "walk"
  /\ walker > bkt
  /\ Return
  /\ UNCHANGED <<mem, tree, available, order, live>>

\* buddy_free(b, live[h].ptr) up to its loop.  The bucket is the one recorded
\* in the struct page, not the one the caller asked for.
Free(h) ==
  /\ pc = "idle"
  /\ live[h] # NoBlock
  /\ available + Max <= MaxAvailable
  /\ live' = [live EXCEPT ![h] = NoBlock]
  /\ pc' = "merge"
  /\ ptr' = live[h].ptr
  /\ bkt' = order[live[h].ptr]
  /\ node' = ptr2node(live[h].ptr, order[live[h].ptr])
  /\ UNCHANGED <<mem, tree, available, order, walker>>

\* The sibling is unused: take it off its free list and go on with the parent.
FreeMerge ==
  LET sibling == node2ptr(node_sibling(node), bkt)
      links == FollowLinks(mem, vmm_phys2virt(sibling))
  IN
  /\ pc = "merge"
  /\ node # 0
  /\ tree[node_parent(node)]
  /\ UNCHANGED available
  /\ \/ links # "ok" /\ Crash(links)
     \/ /\ links = "ok"
        /\ tree' = node_parent_flip(tree, node)
        /\ mem' = buddy_remove(mem, sibling)
        /\ bkt' = bkt - 1
        /\ node' = node_parent(node)
        /\ UNCHANGED <<order, live, pc, walker, ptr>>

\* The sibling is used, or this is the root: put the block, with everything
\* merged into it, on the free list.  All of its size is counted as regained.
FreeDone ==
  LET prev == list_back(mem, Head(bkt))
  IN
  /\ pc = "merge"
  /\ node # 0 => ~tree[node_parent(node)]
  /\ available' = available + BlockSize(bkt)
  /\ \/ Follow(prev, prev) # "ok" /\ Crash(Follow(prev, prev))
     \/ /\ Follow(prev, prev) = "ok"
        /\ tree' = IF node = 0 THEN tree ELSE node_parent_flip(tree, node)
        /\ mem' = buddy_pushback(mem, bkt, node2ptr(node, bkt))
        /\ order' = [order EXCEPT ![ptr] = 0]
        /\ Return
        /\ UNCHANGED live

Call ==
  \/ \E r \in Requests : AllocBeyondMax(r) \/ AllocWalk(r) \/ AllocPop(r)
  \/ \E h \in Handles : Free(h)
Iteration == WalkFull \/ WalkSplit \/ WalkFails \/ FreeMerge \/ FreeDone
Next == Call \/ Iteration

\* A call in progress is never preempted: it runs as long as it can.
Spec == Init /\ [][Next]_vars /\ WF_vars(Iteration)

-----------------------------------------------------------------------------
\* Nodes of bucket k: the tree numbers them from left to right, root first.
NodesOf(k) == (Shl[k] - 1)..(2 * Shl[k] - 2)

\* Types of the variables.  The block of a live entry is one of the area's own
\* page frames and buckets, whatever the free lists and the tree have become.
TypeOK ==
  /\ mem \in [Cells -> ListT]
  /\ tree \in [Nodes -> BOOLEAN]
  /\ available \in Nat
  /\ order \in [PageFrames -> Buckets]
  /\ live \in [Handles -> Block \cup {NoBlock}]
  /\ pc \in {"idle", "walk", "merge", "fault", "wild"}
  /\ node \in Nat /\ walker \in Nat /\ bkt \in Nat
  /\ ptr \in PageFrames \cup {NULL}

\* The two loops use the tree within its bounds: a walk looks at nodes one
\* level above the bucket `walker`, and a merge keeps node and bkt together, so
\* bkt-- stops at the root and never wraps.
TreeInBounds ==
  /\ pc = "walk" => bkt \in Buckets /\ walker >= 1
                    /\ (walker <= bkt => node \in NodesOf(walker - 1))
  /\ pc = "merge" => bkt \in Buckets /\ ptr # NULL /\ node \in NodesOf(bkt)

\* A granted block is a whole, aligned block of the tree: it does not stick
\* out of the area.
GrantsInArea ==
  \A h \in Handles : live[h] # NoBlock =>
    /\ Frames(live[h]) \subseteq PageFrames
    /\ (live[h].ptr - Base) % BlockSize(live[h].bkt) = 0

\* buddy_free reads back the bucket buddy_alloc granted: the struct page of a
\* held block is not overwritten by calls about other blocks.
OrderKept ==
  \A h \in Handles : live[h] # NoBlock => order[live[h].ptr] = live[h].bkt

\* No call follows a pointer that is not one.
NoCrash == pc \notin {"fault", "wild"}

Idle == pc = "idle" /\ \A h \in Handles : live[h] = NoBlock

\* When everything has been given back the area is whole again: no node is
\* split, only freelist[0] has a block, and all of the memory is available.
WholeAgain ==
  Idle => /\ \A n \in Nodes : ~tree[n]
          /\ \A k \in Buckets : list_empty(mem, Head(k)) <=> k # 0
          /\ available >= Max

\* A walk ends with a block for the caller: what buddy_alloc has taken from
\* b->available is there to be found.
WalkFinds == [][pc = "walk" /\ pc' = "idle" => live' # live]_vars

\* Every call returns, or the machine is gone.
CallsReturn == pc \in {"walk", "merge"} ~> pc \notin {"walk", "merge"}

-----------------------------------------------------------------------------
\* What comments of buddy.c say, and the code does not do.

\* buddy_alloc: "found available page?"  If the free list has one, it is returned.
FoundPageIsReturned ==
  [][\A r \in Requests : AllocPop(r) => pc' = "idle"]_vars

\* The head of the file: "A node in the false state means that it's either full
\* or empty."  A walk that splits such a node takes it for an empty one, so what
\* it hands out is held by nobody else.
SplitsOnlyEmpty ==
  [][WalkSplit /\ walker = bkt =>
       \A h \in Handles : Frames(live[h]) \cap
         Frames([ptr |-> node2ptr(node_right(node), bkt), bkt |-> bkt]) = {}]_vars
=============================================================================
