-------------------------------- MODULE Heap --------------------------------
(***************************************************************************)
(* kernel/kernel/slab.c on page_alloc and page_free of kernel/kernel/      *)
(* page.c, on the buddy of one area (Buddy.tla): whole pages for callers   *)
(* that return them, then init_slab, then kmalloc and kfree.               *)
(*                                                                         *)
(* A word is a pointer, the size of the smallest object; struct cache is   *)
(* two words, index and entries_sz, and then the entries.  Nothing sets    *)
(* these two: they are whatever the page held.                             *)
(*                                                                         *)
(* The pages of a buddy begin where its area's map ends (init_mem_map), in *)
(* the middle of a page of the processor: frame p of the buddy is          *)
(* PageWords words from p * PageWords + Skew on, and has a struct page for *)
(* its first word.  What lies behind the boundary inside it belongs to the *)
(* next struct page.                                                       *)
(*                                                                         *)
(* Nothing in the kernel calls init_slab yet, and in the kernel's layout   *)
(* (DM_START above physical memory) its first vmm_virt2phys panics: see    *)
(* AllocCacheDone.  DM_START = 0 shows what the rest of the code does.     *)
(***************************************************************************)
EXTENDS Buddy

CONSTANTS
  PageWords,    \* PGSIZE in words
  Skew,         \* b->base % PGSIZE, in words
  SlabCount,    \* slabs in slabs[]
  ObjSize,      \* their object sizes, in words
  Garbage,      \* values of uninitialised words
  PageCounts,   \* numbers of pages callers of page_alloc ask for
  AskedSizes,   \* sizes callers of kmalloc ask for, in words
  MaxObjects    \* bound on the objects in use at a time

Slabs == 1..SlabCount

\* Every object size divides the page, as fill_cache takes for granted, and
\* slabs[] is in ascending order.
ASSUME HeapAssumption ==
  /\ SlabCount \in Nat \ {0}
  /\ PageWords \in Nat \ {0}
  /\ Skew \in 0..(PageWords - 1)
  /\ ObjSize \in [Slabs -> 1..PageWords] /\ \A s \in Slabs : PageWords % ObjSize[s] = 0
  /\ \A r, s \in Slabs : r <= s => ObjSize[r] <= ObjSize[s]
  /\ AskedSizes \subseteq Nat \ {0}
  /\ Garbage \subseteq Nat
  /\ 1 \in Requests
  /\ MaxObjects \in Nat

PerPageOfWords(s) == PageWords   \* faulty
PerPage(s) == PageWords \div ObjSize[s]

\* Which slab serves a size.  The entry that ends slabs[] has no cache.
kmalloc_index(size) ==
  IF \E s \in Slabs : size <= ObjSize[s]
  THEN CHOOSE s \in Slabs : size <= ObjSize[s] /\ \A r \in 1..(s - 1) : size > ObjSize[r]
  ELSE SlabCount + 1

\* The pages alloc_cache asks for; page_alloc hands out one whatever it is asked.
CacheWords(s) == 2 + PerPage(s)
CacheRequest(s) == CacheWords(s) \div PageWords + 1

\* fill_cache: the objects of page p in ascending order.
fill_cache(s, p) == [e \in 0..(PerPage(s) - 1) |-> [frame |-> p, off |-> e * ObjSize[s]]]

\* vmm_virt2phys knows addresses of the direct map; all others are a panic.
Mapped(a) == a >= DM_START
vmm_virt2phys(a) == a - DM_START

\* The address of an object, word off of the buddy's frame, in pages.  The
\* entries hold its address in the direct map, which vmm_virt2phys takes back.
pfn(x) == x.frame + (Skew + x.off) \div PageWords

NoCache == [index |-> -1]
StoreEntry(f, e, x) == [d \in DOMAIN f \cup {e} |-> IF d = e THEN x ELSE f[d]]
StoreEntries(f, g) == [d \in DOMAIN f \cup DOMAIN g |-> IF d \in DOMAIN g THEN g[d] ELSE f[d]]

VARIABLES
  front,    \* an area too short for a buddy comes before this one in phys_mem
  job,      \* the call in progress, or how everything ended
  slab_i,   \* init_slab: the slab it is at; 0 before, SlabCount + 1 after
  buddy,    \* struct page.buddy # NULL, for every frame
  slab,     \* struct page.slab, or 0
  cache,    \* slabs[s].cache: the page it is in, or NULL
  store,    \* the struct cache a page holds, or NoCache
  got,      \* the names of the blocks that page_alloc has returned
  mine,     \* the page its caller holds
  freed,    \* the page returned last
  objects,  \* objects in use, with the size their owners asked for
  dropped   \* history: what kfree was given and has put nowhere

pages == <<front, freed, mine>>
heap == <<front, job, slab_i, buddy, got, slab, cache, store, mine, freed, objects, dropped>>

HeapInit ==
  /\ Init
  /\ front \in BOOLEAN
  /\ job = "none"
  /\ slab_i = 0
  /\ buddy = [p \in PageFrames |-> FALSE]
  /\ slab = [p \in PageFrames |-> 0]
  /\ cache = [s \in Slabs |-> NULL]
  /\ store = [p \in PageFrames |-> NoCache]
  /\ got = {}
  /\ mine = NULL
  /\ freed = NULL
  /\ objects = {}
  /\ dropped = {}

-----------------------------------------------------------------------------
\* page_alloc(n).  The list of buddies of an area that got none is zero, and
\* the loop follows its NULL.  n pages are compared with the counter, n bytes
\* are what the buddy is asked for.
page_alloc(n, then, null) ==
  \/ front /\ job' = "fault" /\ UNCHANGED vars
  \/ ~front /\ available < n /\ job' = null /\ UNCHANGED vars
  \/ ~front /\ available >= n /\ job' = then /\ (AllocWalk(1) \/ AllocPop(1))

\* What the buddy has returned: the block it has added to those its callers
\* have, or NULL.  Its pages may be some that others have (SplitsOnlyEmpty).
Returned(then) ==
  job = then /\ pc = "idle" /\ UNCHANGED vars /\ got' = {h \in Handles : live[h] # NoBlock}
Page == LET new == {h \in Handles \ got : live[h] # NoBlock}
        IN  IF new = {} THEN NULL ELSE live[CHOOSE h \in new : TRUE].ptr
OwnedNot == UNCHANGED buddy   \* faulty
Owned == buddy' = IF Page = NULL THEN buddy ELSE [buddy EXCEPT ![Page] = TRUE]

\* A caller takes a page; before init_slab, and one at a time: otherwise the
\* buddy may hand out pages in use (SplitsOnlyEmpty).
PageAlloc(n) ==
  /\ job = "none" /\ slab_i = 0 /\ mine = NULL
  /\ page_alloc(n, "page_alloc", "none")
  /\ UNCHANGED <<pages, slab_i, buddy, got, slab, cache, store, objects, dropped>>
PageAllocDone ==
  /\ Returned("page_alloc")
  /\ job' = "none"
  /\ mine' = Page
  /\ Owned
  /\ UNCHANGED <<front, freed, slab_i, slab, cache, store, objects, dropped>>

PageFree ==
  /\ job = "none" /\ slab_i = 0 /\ mine # NULL
  /\ IF buddy[mine]
     THEN job' = "page_free" /\ \E h \in Handles : live[h].ptr = mine /\ Free(h)
     ELSE job' = "fault" /\ UNCHANGED vars
  /\ UNCHANGED <<pages, slab_i, buddy, got, slab, cache, store, objects, dropped>>
PageFreeDone ==
  /\ Returned("page_free")
  /\ job' = "none"
  /\ mine' = NULL
  /\ freed' = mine
  /\ buddy' = [buddy EXCEPT ![mine] = FALSE]
  /\ slab' = [slab EXCEPT ![mine] = 0]
  /\ UNCHANGED <<front, slab_i, cache, store, objects, dropped>>
\* The same address once more: its struct page names no buddy.
PageFreeAgain ==
  /\ job = "none" /\ slab_i = 0 /\ mine = NULL /\ freed # NULL
  /\ ~buddy[freed]
  /\ job' = "fault"
  /\ UNCHANGED <<vars, pages, slab_i, buddy, got, slab, cache, store, objects, dropped>>

-----------------------------------------------------------------------------
InitSlab ==
  /\ job = "none" /\ slab_i = 0 /\ mine = NULL
  /\ slab_i' = 1
  /\ job' = "init"
  /\ UNCHANGED <<vars, pages, buddy, got, slab, cache, store, objects, dropped>>
AllocCache ==
  /\ job = "init"
  /\ page_alloc(CacheRequest(slab_i), "alloc_cache", "panic")
  /\ UNCHANGED <<pages, slab_i, buddy, got, slab, cache, store, objects, dropped>>
AllocCacheDone ==
  /\ Returned("alloc_cache")
  /\ Owned
  /\ IF Page = NULL \/ ~Mapped(Page)
     THEN job' = "panic" /\ UNCHANGED <<cache, store>>
     ELSE /\ job' = "objects"
          /\ cache' = [cache EXCEPT ![slab_i] = vmm_virt2phys(Page)]
          /\ \/ store[Page] # NoCache /\ UNCHANGED store
             \/ store[Page] = NoCache /\ \E index, sz \in Garbage :
                  store' = [store EXCEPT ![Page] = [index |-> index, entries_sz |-> sz,
                                                    entries |-> <<>>]]
  /\ UNCHANGED <<pages, slab_i, slab, objects, dropped>>
AllocObjects ==
  /\ job = "objects"
  /\ page_alloc(1, "fill", "panic")
  /\ UNCHANGED <<pages, slab_i, buddy, got, slab, cache, store, objects, dropped>>
FillCache ==
  /\ Returned("fill")
  /\ Owned
  /\ IF Page = NULL
     THEN job' = "panic" /\ UNCHANGED <<slab_i, slab, store>>
     ELSE /\ job' = IF slab_i = SlabCount THEN "none" ELSE "init"
          /\ slab' = [slab EXCEPT ![Page] = slab_i]
          /\ store' = [store EXCEPT ![cache[slab_i]].entries =
                         StoreEntries(@, fill_cache(slab_i, Page))]
          /\ slab_i' = slab_i + 1
  /\ UNCHANGED <<pages, cache, objects, dropped>>

\* kmalloc and cache_get, when it does not return NULL.  The index may reach
\* entries_sz; an entry fill_cache has not written sends the caller anywhere.
\* The cache of two slabs in one page has objects of both: a large one may
\* reach over the end of its page into what comes behind it, their cache.
Unused == {id \in 1..MaxObjects : \A o \in objects : o.id # id}
Kmalloc(size) ==
  LET s == kmalloc_index(size)
      c == IF s \in Slabs /\ cache[s] # NULL THEN store[cache[s]] ELSE NoCache
  IN
  /\ job = "none"
  /\ Unused # {}
  /\ UNCHANGED <<vars, pages, slab_i, buddy, got, slab, cache, dropped>>
  /\ \/ c = NoCache /\ job' = "no_cache" /\ UNCHANGED <<store, objects>>
     \/ /\ c # NoCache
        /\ c.index <= c.entries_sz
        /\ store' = [store EXCEPT ![cache[s]].index = @ + 1]
        /\ \/ c.index \notin DOMAIN c.entries /\ job' = "wild" /\ UNCHANGED objects
           \/ /\ c.index \in DOMAIN c.entries
              /\ c.entries[c.index].off + size > PageWords
              /\ job' = "overrun" /\ UNCHANGED objects
           \/ /\ c.index \in DOMAIN c.entries
              /\ c.entries[c.index].off + size <= PageWords
              /\ objects' = objects \cup
                   {[id |-> CHOOSE id \in Unused : \A n \in Unused : id <= n,
                     at |-> c.entries[c.index], size |-> size]}
              /\ UNCHANGED job

\* The slab of an object by the struct page of its own address.  The ones of a
\* buddy's frames have been seen by page_alloc; no other has a slab.
vmm_virt2slab(x) == IF HasPage(pfn(x)) THEN slab[pfn(x)] ELSE 0

\* kfree and cache_put, for an object in use: without a slab, nothing happens.
KfreeNoDecrement(o) ==   \* faulty
  LET s == vmm_virt2slab(o.at) IN
  /\ job = "none"
  /\ o \in objects
  /\ objects' = objects \ {o}
  /\ \/ s = 0 /\ dropped' = dropped \cup {o.at} /\ UNCHANGED store
     \/ /\ s # 0
        /\ store' = [store EXCEPT ![cache[s]].entries = StoreEntry(@, store[cache[s]].index, o.at)]
        /\ UNCHANGED dropped
  /\ UNCHANGED <<vars, pages, job, slab_i, buddy, got, slab, cache>>
Kfree(o) ==
  LET s == vmm_virt2slab(o.at)
      i == store[cache[s]].index - 1
  IN
  /\ job = "none"
  /\ o \in objects
  /\ objects' = objects \ {o}
  /\ \/ s = 0 /\ dropped' = dropped \cup {o.at} /\ UNCHANGED <<job, store>>
     \/ /\ s # 0
        /\ IF i < 0 THEN job' = "panic" /\ UNCHANGED store
           ELSE /\ store' = [store EXCEPT ![cache[s]].index = i,
                                          ![cache[s]].entries = StoreEntry(@, i, o.at)]
                /\ UNCHANGED job
        /\ UNCHANGED dropped
  /\ UNCHANGED <<vars, pages, slab_i, buddy, got, slab, cache>>
ksize(o) == LET s == vmm_virt2slab(o.at) IN IF s = 0 THEN 0 ELSE ObjSize[s]

HeapNext ==
  \/ Iteration /\ UNCHANGED heap
  \/ \E n \in PageCounts : PageAlloc(n)
  \/ PageAllocDone \/ PageFree \/ PageFreeDone \/ PageFreeAgain
  \/ InitSlab \/ AllocCache \/ AllocCacheDone \/ AllocObjects \/ FillCache
  \/ \E size \in AskedSizes : Kmalloc(size)
  \/ \E o \in objects : Kfree(o)

HeapSpec == HeapInit /\ [][HeapNext]_<<vars, heap>>

-----------------------------------------------------------------------------
Object == [frame : PageFrames, off : 0..(PageWords - 1)]
Words(o) == {<<o.at.frame, o.at.off + w>> : w \in 0..(o.size - 1)}
Behind(x) == Skew + x.off >= PageWords
Ready(s) == s < slab_i
Shares(s) == \E r \in Slabs \ {s} : cache[r] = cache[s]
CacheOf(s) == store[cache[s]]

\* Types of the variables: what the caches hold are objects.
HeapTypeOK ==
  /\ job \in {"none", "page_alloc", "page_free", "init", "alloc_cache", "objects", "fill",
              "fault", "no_cache", "panic", "wild", "overrun"}
  /\ slab_i \in 0..(SlabCount + 1)
  /\ {mine, freed} \subseteq PageFrames \cup {NULL}
  /\ \A s \in Slabs : Ready(s) => \A e \in 0..(PerPage(s) - 1) :
       e \in DOMAIN CacheOf(s).entries /\ CacheOf(s).entries[e] \in Object

\* Pages are allocated and returned without a fault, unless an area without a
\* buddy comes first or a page is returned twice, and after that the buddy
\* serves init_slab as if nothing had happened: it does not run out of memory.
\* Nor does kfree find a cache at index 0.
\* (kmalloc without a cache for the size faults too: "no_cache".)
FaultsHaveAReason ==
  /\ pc \notin {"fault", "wild"}
  /\ job = "fault" => front \/ (mine = NULL /\ freed # NULL)
  /\ job # "panic"

\* Two slabs have the same pages only from the one on that the tree has no new
\* page for.  All other objects in use are apart from each other; none of them
\* is still in its cache, and of a cache only those get lost that kfree drops
\* because they are behind the boundary in their page; these have no size for
\* ksize either.  This needs nothing of the uninitialised index, and of
\* entries_sz only that it is an entry; otherwise a caller gets a word nobody
\* stored.
Exclusive ==
  /\ \A s \in Slabs : Ready(s) /\ Shares(s) => s >= Levels - 1
  /\ \A o1, o2 \in objects :
       o1 # o2 => Words(o1) \cap Words(o2) = {} \/ Shares(slab[o1.at.frame])
  /\ \A o \in objects : IF Behind(o.at) THEN ksize(o) = 0 ELSE ksize(o) >= o.size
  /\ \A s \in Slabs : Ready(s) /\ ~Shares(s) =>
       LET p == CHOOSE q \in PageFrames : slab[q] = s
           filled == fill_cache(s, p)
           used == {o.at : o \in {x \in objects : x.at.frame = p}}
           lost == {x \in dropped : x.frame = p}
           left == {e \in DOMAIN filled : e >= CacheOf(s).index}
           kept == {CacheOf(s).entries[e] : e \in left}
           skipped == {filled[e] : e \in {n \in DOMAIN filled :
                         n < CacheOf(s).index - Cardinality(used \cup lost)}}
       IN  /\ used \cap kept = {} /\ used \cap lost = {} /\ lost \cap kept = {}
           /\ Cardinality(kept) = Cardinality(left)
           /\ used \cup lost \cup kept \cup skipped = {filled[e] : e \in DOMAIN filled}
  /\ \A x \in dropped : Behind(x)
  /\ job = "wild" => \E s \in Slabs : Ready(s) /\ CacheOf(s).entries_sz \notin DOMAIN CacheOf(s).entries
  /\ job = "overrun" => \E s \in Slabs : Ready(s) /\ Shares(s)

\* The cache of the smallest objects is longer than the one page it gets.  Its
\* last entries end up behind the last page of the buddy (which may be another
\* area, but is nothing this buddy has handed out): the buddy hands out its
\* last page first, and init_slab asks for this cache before anything else.
OverflowOutside ==
  \A s \in Slabs : Ready(s) =>
    \A w \in 0..(CacheWords(s) - 1) :
      LET frame == cache[s] + w \div PageWords
      IN  frame # cache[s] => frame \notin PageFrames
=============================================================================
