----------------------------- MODULE HeapProofs -----------------------------
(***************************************************************************)
(* page_alloc for single pages and the slab allocator on it, for any number*)
(* of slabs, any sizes of objects that divide a page, wherever in a page   *)
(* the buddy begins and whatever the caches' uninitialised words hold: the *)
(* two pages init_slab gets for every slab, and from them which objects in *)
(* use are apart from each other, and what of a cache gets lost.           *)
(***************************************************************************)
EXTENDS Heap, BuddyProofs, NatLemmas

\* The cache of slab s in page p + 1, filled with page p, while the objects U of
\* page p are in use or have been dropped by kfree: the entries left in it, the
\* objects these are, and the ones in front of them that an uninitialised index
\* has skipped.
Places(s) == 0..(PerPage(s) - 1)
Filled(s, p) == {fill_cache(s, p)[e] : e \in Places(s)}
Left(s, c) == {e \in Places(s) : e >= c.index}
Kept(s, c) == {c.entries[e] : e \in Left(s, c)}
Skipped(s, p, c, U) ==
  {fill_cache(s, p)[e] : e \in {n \in Places(s) : n < c.index - Cardinality(U)}}

InPage(p) == [frame : {p}, off : 0..(PageWords - 1)]
CacheT(s, p) == [index : Nat, entries_sz : Nat, entries : [Places(s) -> InPage(p)]]
Blank == [index : Nat, entries_sz : Nat, entries : {<<>>}]

Sound(s, p, c, U) ==
  /\ c \in CacheT(s, p)
  /\ IsFiniteSet(U) /\ Cardinality(U) <= c.index
  /\ \A e, f \in Left(s, c) : c.entries[e] = c.entries[f] => e = f
  /\ U \cap Kept(s, c) = {}
  /\ U \cup Kept(s, c) \cup Skipped(s, p, c, U) = Filled(s, p)

\* The pages of slab s: of its cache, and below that of its objects.  From slab
\* Deep on they are the same for all.
CachePage(s) == TopAt(WalkOf(s - 1))
Home(s) == CachePage(s) - 1
Crowded(s) == s >= Deep /\ slab_i > Deep + 1

InUse(s) == {o \in objects : o.at.frame = Home(s)}
Lost(s) == {x \in dropped : x.frame = Home(s)}
Taken(s) == {o.at : o \in InUse(s)} \cup Lost(s)

\* A page with the objects of one slab; the index stays in the cache unless it
\* has been out of it from the beginning.  A page with the objects of several:
\* only that kfree finds room for them.
CacheAt(s) ==
  /\ Sound(s, Home(s), store[CachePage(s)], Taken(s))
  /\ job # "wild" => store[CachePage(s)].index <= PerPage(s) \/ Taken(s) = {}
CrowdAt(s) ==
  /\ store[CachePage(s)] \in CacheT(s, Home(s))
  /\ Cardinality(InUse(s)) <= store[CachePage(s)].index
  /\ job # "wild" => store[CachePage(s)].index <= PerPage(s) \/ InUse(s) = {}
ServedAt(s) == IF Crowded(s) THEN CrowdAt(s) ELSE CacheAt(s)

\* How far init_slab has come: the slabs in front of slab_i are in service.
Jobs == {"none", "page_alloc", "page_free", "init", "alloc_cache", "objects", "fill",
         "fault", "no_cache", "panic", "wild", "overrun"}
TooFar == \E s \in Slabs : Ready(s) /\ CacheOf(s).entries_sz \notin DOMAIN CacheOf(s).entries
Phases ==
  /\ job \in Jobs
  /\ slab_i \in 0..(SlabCount + 1)
  /\ job \in {"page_alloc", "page_free"} => slab_i = 0
  /\ job = "page_free" => mine # NULL
  /\ job \in {"init", "alloc_cache", "objects", "fill"} => slab_i \in Slabs
  /\ job = "none" => slab_i \in {0, SlabCount + 1}
  /\ job = "wild" => TooFar
  /\ job = "overrun" => Crowded(Deep)
  /\ slab_i <= SlabCount => objects = {} /\ dropped = {} /\ job \notin {"wild", "overrun"}

PagesTyped ==
  /\ {mine, freed} \subseteq PageFrames \cup {NULL}
  /\ buddy \in [PageFrames -> BOOLEAN]
  /\ slab \in [PageFrames -> 0..SlabCount]
  /\ \A p \in PageFrames : slab[p] < slab_i \/ slab[p] = 0
\* Of the slabs that share a page, its struct page has one that is not before
\* any other.
PagesInv ==
  /\ PagesTyped
  /\ \A p \in PageFrames : slab[p] # 0 => p = Home(slab[p])
  /\ \A s \in Slabs : s < slab_i => slab[Home(s)] >= s

Served ==
  /\ DOMAIN cache = Slabs /\ DOMAIN store = PageFrames
  /\ \A s \in Slabs : s < slab_i => cache[s] = CachePage(s)
  /\ \A s \in Slabs : s > slab_i => cache[s] = NULL
  /\ slab_i \in Slabs => cache[slab_i] \in {NULL, CachePage(slab_i)}
  /\ slab_i \in Slabs /\ job \in {"objects", "fill"} => cache[slab_i] # NULL
  /\ \A s \in Slabs : s < slab_i /\ s <= Deep => ServedAt(s)
  /\ \A s \in Slabs : s >= slab_i /\ s <= Deep =>
       store[CachePage(s)] \in IF cache[s] = NULL THEN {NoCache} ELSE Blank

ObjectsInv ==
  /\ IsFiniteSet(objects)
  /\ \A o \in objects :
       /\ o \in [id : Nat, at : Object, size : Nat]
       /\ o.size <= ObjSize[slab[o.at.frame]]
       /\ \E s \in Slabs : s < slab_i /\ s <= Deep /\ o.at.frame = Home(s)
  /\ \A s \in Slabs : s <= Deep /\ ~Crowded(s) =>
       /\ \A o1, o2 \in InUse(s) : o1.at = o2.at => o1 = o2
       /\ \A o \in InUse(s) : o.at \notin dropped
  /\ \A x \in dropped : x \in Object /\ Behind(x)

HeapInv == Phases /\ PagesInv /\ Served /\ ObjectsInv

-----------------------------------------------------------------------------
\* Sizes.  The objects of a slab fill its page.
LEMMA Cancel ==
  ASSUME NEW e \in Nat, NEW f \in Nat, e < f, NEW b \in Nat
  PROVE  e * b + b <= f * b
<1>1. (e + 1) * b <= f * b
  BY Monotone
<1>2. (e + 1) * b = e * b + b
  OBVIOUS
<1>3. e * b \in Nat /\ f * b \in Nat
  OBVIOUS
<1> QED BY <1>1, <1>2, <1>3

LEMMA DivMod ==
  ASSUME NEW n \in Nat, NEW b \in Nat \ {0}
  PROVE  n \div b \in Nat /\ n = b * (n \div b) + (n % b)
OBVIOUS

LEMMA Divides ==
  ASSUME NEW n \in Nat \ {0}, NEW b \in Nat \ {0}, n % b = 0
  PROVE  n \div b \in Nat \ {0} /\ (n \div b) * b = n
<1> DEFINE q == n \div b
           r == n % b
<1>1. q \in Nat /\ n = b * q + r
  BY DivMod
<1>2. r = 0
  OBVIOUS
<1> HIDE DEF q, r
<1>3. q * b = n
  BY <1>1, <1>2
<1>4. q # 0
  BY <1>3
<1> QED BY <1>1, <1>3, <1>4 DEF q

LEMMA PerPageSizes ==
  ASSUME NEW s \in Slabs
  PROVE  /\ ObjSize[s] \in 1..PageWords /\ PageWords \in Nat \ {0}
         /\ PerPage(s) \in Nat \ {0} /\ PerPage(s) * ObjSize[s] = PageWords
BY HeapAssumption, Divides DEF PerPage

\* Where an object of a slab ends.
LEMMA ObjectEnds ==
  ASSUME NEW s \in Slabs, NEW e \in Places(s)
  PROVE  /\ e * ObjSize[s] \in 0..(PageWords - 1)
         /\ e * ObjSize[s] + ObjSize[s] <= PageWords
<1>1. /\ e \in Nat /\ PerPage(s) \in Nat /\ e < PerPage(s) /\ ObjSize[s] \in Nat \ {0}
      /\ PerPage(s) * ObjSize[s] = PageWords /\ PageWords \in Nat
  BY PerPageSizes DEF Places
<1>2. e * ObjSize[s] + ObjSize[s] <= PerPage(s) * ObjSize[s]
  BY <1>1, Cancel
<1>3. e * ObjSize[s] \in Nat
  BY <1>1
<1> QED BY <1>1, <1>2, <1>3

LEMMA FillTyped ==
  ASSUME NEW s \in Slabs, NEW p \in PageFrames
  PROVE  /\ fill_cache(s, p) \in [Places(s) -> InPage(p)] /\ InPage(p) \subseteq Object
         /\ \A e \in Places(s) : fill_cache(s, p)[e] = [frame |-> p, off |-> e * ObjSize[s]]
<1>1. \A e \in Places(s) : e * ObjSize[s] \in 0..(PageWords - 1)
  BY ObjectEnds
<1>2. \A e \in Places(s) : [frame |-> p, off |-> e * ObjSize[s]] \in InPage(p)
  BY <1>1 DEF InPage
<1>3. InPage(p) \subseteq Object
  BY DEF InPage, Object
<1> QED BY <1>2, <1>3 DEF fill_cache, Places

\* The words of two objects of a slab are apart.
LEMMA PlacesApart ==
  ASSUME NEW s \in Slabs, NEW e \in Places(s), NEW f \in Places(s), e # f,
         NEW v \in Nat, NEW w \in Nat, v < ObjSize[s], w < ObjSize[s]
  PROVE  e * ObjSize[s] + v # f * ObjSize[s] + w
<1>1. e \in Nat /\ f \in Nat /\ ObjSize[s] \in Nat
  BY PerPageSizes DEF Places
<1>2. e * ObjSize[s] \in Nat /\ f * ObjSize[s] \in Nat
  BY <1>1
<1>3. CASE e < f
  <2>1. e * ObjSize[s] + ObjSize[s] <= f * ObjSize[s]
    BY <1>1, <1>3, Cancel
  <2> QED BY <1>1, <1>2, <2>1
<1>4. CASE f < e
  <2>1. f * ObjSize[s] + ObjSize[s] <= e * ObjSize[s]
    BY <1>1, <1>4, Cancel
  <2> QED BY <1>1, <1>2, <2>1
<1> QED BY <1>1, <1>3, <1>4

LEMMA FillInjective ==
  ASSUME NEW s \in Slabs, NEW p \in PageFrames, NEW e \in Places(s), NEW f \in Places(s),
         fill_cache(s, p)[e] = fill_cache(s, p)[f]
  PROVE  e = f
<1>1. e * ObjSize[s] = f * ObjSize[s]
  <2>1. [frame |-> p, off |-> e * ObjSize[s]] = [frame |-> p, off |-> f * ObjSize[s]]
    BY FillTyped
  <2> QED BY <2>1
<1>2. ObjSize[s] \in Nat \ {0} /\ e * ObjSize[s] \in Nat /\ f * ObjSize[s] \in Nat
  BY PerPageSizes, ObjectEnds
<1>3. ASSUME e # f PROVE FALSE
  <2>1. e * ObjSize[s] + 0 # f * ObjSize[s] + 0
    BY <1>2, <1>3, PlacesApart
  <2> QED BY <1>1, <1>2, <2>1
<1> QED BY <1>3

-----------------------------------------------------------------------------
\* What the operations do to a cache, whoever calls them.

\* A newly filled cache has every object, but for those in front of its index.
LEMMA FillSound ==
  ASSUME NEW s \in Slabs, NEW p \in PageFrames, NEW c \in CacheT(s, p),
         c.entries = fill_cache(s, p)
  PROVE  Sound(s, p, c, {})
<1>1. IsFiniteSet({}) /\ Cardinality({}) = 0
  BY FS_EmptySet
<1>2. c.index \in Nat
  BY DEF CacheT
<1>4. \A e, f \in Left(s, c) : c.entries[e] = c.entries[f] => e = f
  BY FillInjective DEF Left
<1>5. Kept(s, c) \cup Skipped(s, p, c, {}) = Filled(s, p)
  <2>1. c.index - Cardinality({}) = c.index
    BY <1>1, <1>2
  <2>2. \A e \in Places(s) : e \in Nat
    BY PerPageSizes DEF Places
  <2> QED BY <1>2, <2>1, <2>2 DEF Kept, Left, Skipped, Filled
<1> QED BY <1>1, <1>2, <1>4, <1>5 DEF Sound

\* cache_get hands out an object of the cache nobody has.
LEMMA GetSound ==
  ASSUME NEW s \in Slabs, NEW p \in PageFrames, NEW c, NEW U, Sound(s, p, c, U),
         c.index \in Places(s), NEW d, d = [c EXCEPT !.index = @ + 1]
  PROVE  /\ c.entries[c.index] \in Filled(s, p) \ U
         /\ Sound(s, p, d, U \cup {c.entries[c.index]})
<1> DEFINE x == c.entries[c.index]
<1>1. c.index \in Left(s, c) /\ c.index \in Nat
  BY DEF Left, Sound, CacheT
<1>2. x \in Kept(s, c)
  BY <1>1 DEF Kept
<1>3. x \in Filled(s, p) \ U
  BY <1>2 DEF Sound
<1>4. d \in CacheT(s, p) /\ d.entries = c.entries /\ d.index = c.index + 1
  BY <1>1 DEF Sound, CacheT
<1>5. /\ IsFiniteSet(U \cup {x}) /\ Cardinality(U \cup {x}) = Cardinality(U) + 1
      /\ Cardinality(U) \in Nat
  BY <1>3, FS_AddElement, FS_CardinalityType DEF Sound
<1>6. Left(s, d) = Left(s, c) \ {c.index}
  <2>1. \A e \in Places(s) : e \in Nat
    BY PerPageSizes DEF Places
  <2> QED BY <1>1, <1>4, <2>1 DEF Left
<1>7. \A e, f \in Left(s, d) : d.entries[e] = d.entries[f] => e = f
  BY <1>4, <1>6 DEF Sound
<1>8. Kept(s, d) = Kept(s, c) \ {x}
  <2>1. Kept(s, d) \subseteq Kept(s, c) \ {x}
    BY <1>1, <1>4, <1>6 DEF Kept, Sound
  <2>2. Kept(s, c) \ {x} \subseteq Kept(s, d)
    BY <1>4, <1>6 DEF Kept
  <2> QED BY <2>1, <2>2
<1>9. Skipped(s, p, d, U \cup {x}) = Skipped(s, p, c, U)
  <2>1. d.index - Cardinality(U \cup {x}) = c.index - Cardinality(U)
    BY <1>1, <1>4, <1>5
  <2> QED BY <2>1 DEF Skipped
<1>10. Cardinality(U \cup {x}) <= d.index
  BY <1>1, <1>4, <1>5 DEF Sound
<1>11. (U \cup {x}) \cap Kept(s, d) = {}
  BY <1>8 DEF Sound
<1>12. (U \cup {x}) \cup Kept(s, d) \cup Skipped(s, p, d, U \cup {x}) = Filled(s, p)
  <2>1. U \cup Kept(s, c) \cup Skipped(s, p, c, U) = Filled(s, p)
    BY DEF Sound
  <2> QED BY <1>2, <1>8, <1>9, <2>1
<1>14. Sound(s, p, d, U \cup {x})
  <2> HIDE DEF x
  <2> QED BY <1>4, <1>5, <1>7, <1>10, <1>11, <1>12 DEF Sound
<1> QED BY <1>3, <1>14

\* An index behind the entries goes on from there, and nothing changes.
LEMMA BeyondSound ==
  ASSUME NEW s \in Slabs, NEW p \in PageFrames, NEW c, NEW U, Sound(s, p, c, U),
         c.index >= PerPage(s), NEW d, d = [c EXCEPT !.index = @ + 1]
  PROVE  Sound(s, p, d, U)
<1>1. /\ c.index \in Nat /\ d.index = c.index + 1 /\ d.entries = c.entries /\ d \in CacheT(s, p)
      /\ Cardinality(U) \in Nat
  BY FS_CardinalityType DEF Sound, CacheT
<1>2. PerPage(s) \in Nat /\ \A e \in Places(s) : e \in Nat /\ e < PerPage(s)
  BY PerPageSizes DEF Places
<1>3. Left(s, c) = {} /\ Left(s, d) = {}
  BY <1>1, <1>2 DEF Left
<1>4. Kept(s, c) = {} /\ Kept(s, d) = {}
  BY <1>3 DEF Kept
<1>5. Skipped(s, p, c, U) \subseteq Skipped(s, p, d, U)
  <2>1. \A n \in Places(s) : n < c.index - Cardinality(U) => n < d.index - Cardinality(U)
    BY <1>1, <1>2
  <2> QED BY <2>1 DEF Skipped
<1>6. Skipped(s, p, d, U) \subseteq Filled(s, p)
  BY DEF Skipped, Filled
<1> QED BY <1>1, <1>3, <1>4, <1>5, <1>6 DEF Sound

\* What cache_put stores.
LEMMA EntryStored ==
  ASSUME NEW D, NEW T, NEW f \in [D -> T], NEW i \in D, NEW x \in T
  PROVE  /\ StoreEntry(f, i, x) \in [D -> T] /\ StoreEntry(f, i, x)[i] = x
         /\ \A e \in D : e # i => StoreEntry(f, i, x)[e] = f[e]
<1>1. D \cup {i} = D
  OBVIOUS
<1>2. StoreEntry(f, i, x) = [e \in D |-> IF e = i THEN x ELSE f[e]]
  BY <1>1 DEF StoreEntry
<1> QED BY <1>2

\* cache_put finds room in front of the index for an object in use.
LEMMA PutSound ==
  ASSUME NEW s \in Slabs, NEW p \in PageFrames, NEW c, NEW U, Sound(s, p, c, U),
         NEW x \in U, c.index <= PerPage(s),
         NEW d, d = [c EXCEPT !.index = c.index - 1, !.entries = StoreEntry(@, c.index - 1, x)]
  PROVE  c.index - 1 \in Nat /\ Sound(s, p, d, U \ {x})
<1> DEFINE i == c.index - 1
<1>1. /\ IsFiniteSet(U \ {x}) /\ Cardinality(U \ {x}) = Cardinality(U) - 1
      /\ Cardinality(U) \in Nat \ {0}
  <2>1. Cardinality(U) \in Nat /\ Cardinality(U \ {x}) = Cardinality(U) - 1 /\ IsFiniteSet(U \ {x})
    BY FS_RemoveElement, FS_CardinalityType DEF Sound
  <2>2. Cardinality(U) # 0
    BY FS_EmptySet DEF Sound
  <2> QED BY <2>1, <2>2
<1>2. /\ c.index \in Nat /\ i \in Nat /\ PerPage(s) \in Nat
      /\ Cardinality(U) <= c.index
  BY <1>1, PerPageSizes DEF Sound, CacheT
<1>3. i \in Places(s) /\ \A e \in Places(s) : e \in Nat
  BY <1>2 DEF Places
<1>4. x \in InPage(p)
  <2>1. x \in Filled(s, p)
    BY DEF Sound
  <2> QED BY <2>1, FillTyped DEF Filled
<1>5. c \in CacheT(s, p) /\ c.entries \in [Places(s) -> InPage(p)]
  BY DEF Sound, CacheT
<1>7. PICK g : g = StoreEntry(c.entries, i, x) /\ d = [c EXCEPT !.index = i, !.entries = g]
  OBVIOUS
<1> HIDE DEF i
<1>6. /\ d \in CacheT(s, p) /\ d.index = i /\ d.entries[i] = x
      /\ \A e \in Places(s) : e # i => d.entries[e] = c.entries[e]
  <2>1. /\ g \in [Places(s) -> InPage(p)] /\ g[i] = x
        /\ \A e \in Places(s) : e # i => g[e] = c.entries[e]
    BY <1>3, <1>4, <1>5, <1>7, EntryStored
  <2>2. d.index = i /\ d.entries = g /\ d \in CacheT(s, p)
    BY <1>2, <1>5, <1>7, <2>1 DEF CacheT
  <2> QED BY <2>1, <2>2
<1>9. Left(s, d) = Left(s, c) \cup {i} /\ i \notin Left(s, c)
  <2>1. \A e \in Places(s) : e >= i <=> e >= c.index \/ e = i
    BY <1>2, <1>3 DEF i
  <2>2. ~(i >= c.index)
    BY <1>2 DEF i
  <2> QED BY <1>3, <1>6, <2>1, <2>2 DEF Left
<1>10. x \notin Kept(s, c)
  BY DEF Sound
<1>11. \A e \in Left(s, c) : e \in Places(s) /\ d.entries[e] = c.entries[e] /\ d.entries[e] # x
  BY <1>6, <1>9, <1>10 DEF Left, Kept
<1>12. \A e, f \in Left(s, d) : d.entries[e] = d.entries[f] => e = f
  BY <1>6, <1>9, <1>11 DEF Sound
<1>13. Kept(s, d) = Kept(s, c) \cup {x}
  BY <1>6, <1>9, <1>11 DEF Kept
<1>14. Skipped(s, p, d, U \ {x}) = Skipped(s, p, c, U)
  <2>1. d.index - Cardinality(U \ {x}) = c.index - Cardinality(U)
    BY <1>1, <1>2, <1>6 DEF i
  <2> QED BY <2>1 DEF Skipped
<1>15. Cardinality(U \ {x}) <= d.index
  BY <1>1, <1>2, <1>6 DEF i
<1>16. Sound(s, p, d, U \ {x})
  BY <1>1, <1>6, <1>12, <1>13, <1>14, <1>15 DEF Sound
<1> QED BY <1>2, <1>16 DEF i

-----------------------------------------------------------------------------
\* Where the pages of the slabs are.
LEMMA WalkRange ==
  ASSUME Levels > 1, NEW i \in Nat
  PROVE  /\ WalkOf(i) \in Nat /\ WalkOf(i) < Deep /\ Deep \in Nat /\ Deep >= 1
         /\ i < Deep => WalkOf(i) = i
         /\ WalkOf(WalkOf(i) + 1) = WalkOf(i + 1)
<1>1. Deep \in Nat /\ Deep >= 1
  BY BuddyAssumption DEF Deep
<1>2. CASE i < Deep
  BY <1>1, <1>2 DEF WalkOf
<1>3. CASE ~(i < Deep)
  <2>1. WalkOf(i) = Deep - 1 /\ WalkOf(i + 1) = Deep - 1 /\ WalkOf(Deep) = Deep - 1
    BY <1>1, <1>3 DEF WalkOf
  <2>2. (Deep - 1) + 1 = Deep
    BY <1>1
  <2> QED BY <1>1, <1>3, <2>1, <2>2
<1> QED BY <1>2, <1>3

LEMMA TopsApart ==
  ASSUME NEW a \in Nat, NEW b \in Nat, a < b, b < Deep
  PROVE  TopAt(b) < TopAt(a) - 1 /\ TopAt(a) \in Nat /\ TopAt(b) \in Nat
<1>1. /\ a \in Buckets /\ b \in Buckets /\ Deep \in Buckets
      /\ BlockSize(a) \in Nat \ {0} /\ BlockSize(b) \in Nat \ {0} /\ Base \in Nat
  BY DeepBucket, BuddyAssumption, Sizes DEF Deep, Buckets
<1>2. 2 * BlockSize(b) <= BlockSize(a) /\ 2 * 1 <= BlockSize(b)
  BY <1>1, DeepBucket, BlocksShrink
<1> QED BY <1>1, <1>2 DEF TopAt

LEMMA SlabPage ==
  ASSUME Levels > 1, NEW s \in Slabs
  PROVE  /\ CachePage(s) \in PageFrames /\ Home(s) \in PageFrames
         /\ CachePage(s) \in Nat /\ Home(s) \in Nat /\ Home(s) + 1 = CachePage(s)
         /\ CachePage(s) # NULL /\ s \in Nat \ {0} /\ s <= SlabCount /\ Deep \in Nat /\ Deep >= 1
<1>1. s \in Nat \ {0} /\ s <= SlabCount /\ s - 1 \in Nat
  BY HeapAssumption DEF Slabs
<1>2. WalkOf(s - 1) \in Nat /\ WalkOf(s - 1) < Deep /\ Deep \in Nat /\ Deep >= 1
  BY <1>1, WalkRange
<1>3. CachePage(s) \in PageFrames /\ Home(s) \in PageFrames /\ CachePage(s) \in Nat
  BY <1>2, TopPages DEF CachePage, Home
<1>4. \A q \in PageFrames : q \in Nat /\ q # NULL
  BY BuddyAssumption DEF PageFrames, NULL
<1> QED BY <1>1, <1>2, <1>3, <1>4 DEF Home

LEMMA SlabPages ==
  ASSUME Levels > 1, NEW s \in Slabs, NEW r \in Slabs
  PROVE  /\ Home(s) # CachePage(r)
         /\ s >= Deep /\ r >= Deep => Home(s) = Home(r) /\ CachePage(s) = CachePage(r)
         /\ Home(s) = Home(r) \/ CachePage(s) = CachePage(r) => s = r \/ (s >= Deep /\ r >= Deep)
<1>1. PICK a, b : a = WalkOf(s - 1) /\ b = WalkOf(r - 1)
  OBVIOUS
<1>2. /\ s \in Nat /\ r \in Nat /\ s - 1 \in Nat /\ r - 1 \in Nat
      /\ Home(s) \in Nat /\ CachePage(r) \in Nat
  BY SlabPage DEF Slabs
<1>3. a \in Nat /\ b \in Nat /\ a < Deep /\ b < Deep /\ Deep \in Nat
  BY <1>1, <1>2, WalkRange
<1>4. /\ CachePage(s) = TopAt(a) /\ CachePage(r) = TopAt(b)
      /\ Home(s) = TopAt(a) - 1 /\ Home(r) = TopAt(b) - 1
      /\ TopAt(a) \in Nat /\ TopAt(b) \in Nat
  BY <1>1, <1>3, TopPages DEF CachePage, Home
<1>5. a < b => TopAt(b) < TopAt(a) - 1
  BY <1>3, TopsApart
<1>6. b < a => TopAt(a) < TopAt(b) - 1
  BY <1>3, TopsApart
<1>7. s >= Deep /\ r >= Deep => a = b
  BY <1>1, <1>2, <1>3 DEF WalkOf
<1>8. a = b => s = r \/ (s >= Deep /\ r >= Deep)
  BY <1>1, <1>2, <1>3 DEF WalkOf
<1>9. TopAt(a) - 1 # TopAt(b)
  BY <1>3, <1>4, <1>5, <1>6
<1>10. TopAt(a) = TopAt(b) \/ TopAt(a) - 1 = TopAt(b) - 1 => a = b
  BY <1>3, <1>4, <1>5, <1>6
<1> QED BY <1>4, <1>7, <1>8, <1>9, <1>10

\* A word behind the boundary in its frame has the address of the next one.
LEMMA NumberOf ==
  ASSUME NEW x \in Object
  PROVE  pfn(x) = (IF Behind(x) THEN x.frame + 1 ELSE x.frame) /\ x.frame \in Nat
<1>1. PICK b, n : b = PageWords /\ n = Skew + x.off
  OBVIOUS
<1>2. b \in Nat \ {0} /\ n \in Nat /\ n < 2 * b /\ x.frame \in Nat
  BY <1>1, HeapAssumption, BuddyAssumption DEF Object, PageFrames
<1>3. n \div b \in Nat /\ n = b * (n \div b) + (n % b) /\ n % b \in 0..(b - 1)
  <2>1. \A u \in Nat, v \in Nat \ {0} : u % v \in 0..(v - 1)
    OBVIOUS
  <2> QED BY <1>2, <2>1, DivMod
<1>4. PICK q, r : q = n \div b /\ r = n % b
  OBVIOUS
<1>5. q \in Nat /\ r \in Nat /\ r < b /\ n = b * q + r
  BY <1>2, <1>3, <1>4
<1>6. q = 0 \/ q = 1
  <2>1. SUFFICES ASSUME q # 0, q # 1 PROVE FALSE
    OBVIOUS
  <2>2. q >= 2 /\ 2 \in Nat
    BY <1>5, <2>1
  <2>3. 2 * b <= q * b
    BY <1>2, <1>5, <2>2, Monotone
  <2>4. b * q = q * b /\ q * b \in Nat
    BY <1>2, <1>5
  <2> QED BY <1>2, <1>5, <2>3, <2>4
<1>7. q = IF n >= b THEN 1 ELSE 0
  <2>1. CASE q = 0
    BY <1>2, <1>5, <2>1
  <2>2. CASE q = 1
    BY <1>2, <1>5, <2>2
  <2> QED BY <1>6, <2>1, <2>2
<1>8. pfn(x) = x.frame + q
  BY <1>1, <1>4 DEF pfn
<1> QED BY <1>1, <1>2, <1>7, <1>8 DEF Behind

-----------------------------------------------------------------------------
\* What page_alloc has left is a page, whatever the free lists have become.
LEMMA PageReturned ==
  ASSUME Ind
  PROVE  Page \in PageFrames \cup {NULL}
<1> DEFINE new == {h \in Handles \ got : live[h] # NoBlock}
<1>1. ASSUME NEW h \in new PROVE live[h].ptr \in PageFrames
  <2>1. live[h] \in Block
    BY DEF Ind, TypeOK
  <2> QED BY <2>1 DEF Block
<1>2. Page = IF new = {} THEN NULL ELSE live[CHOOSE h \in new : TRUE].ptr
  BY DEF Page
<1> HIDE DEF new
<1>3. CASE new = {}
  BY <1>2, <1>3
<1>4. CASE new # {}
  <2>1. (CHOOSE h \in new : TRUE) \in new
    BY <1>4
  <2> QED BY <1>1, <1>2, <1>4, <2>1
<1> QED BY <1>3, <1>4

LEMMA FramesAreNotNull == NULL \notin PageFrames
BY BuddyAssumption DEF PageFrames, NULL

\* Every step of Heap is one of the buddy's, or leaves the buddy alone.
LEMMA BuddySteps == HeapNext => [Next]_vars
<1> USE DEF Next, Call, page_alloc, Returned
<1>1. 1 \in Requests
  BY HeapAssumption
<1>2. ASSUME NEW n \in PageCounts, PageAlloc(n) PROVE [Next]_vars
  BY <1>1, <1>2 DEF PageAlloc
<1>3. PageAllocDone \/ PageFreeDone \/ PageFreeAgain => [Next]_vars
  BY DEF PageAllocDone, PageFreeDone, PageFreeAgain
<1>4. PageFree => [Next]_vars
  BY DEF PageFree
<1>5. AllocCache \/ AllocObjects => [Next]_vars
  BY <1>1 DEF AllocCache, AllocObjects
<1>6. InitSlab \/ AllocCacheDone \/ FillCache => [Next]_vars
  BY DEF InitSlab, AllocCacheDone, FillCache
<1>7. ASSUME NEW size, Kmalloc(size) PROVE UNCHANGED vars
  BY <1>7 DEF Kmalloc
<1>8. ASSUME NEW o, Kfree(o) PROVE UNCHANGED vars
  BY <1>8 DEF Kfree
<1> QED BY <1>2, <1>3, <1>4, <1>5, <1>6, <1>7, <1>8 DEF HeapNext

\* slab.c and page.c use the buddy through its operations only: what holds of
\* any use of it (BuddyProofs) holds of theirs.
THEOREM HeapUsesBuddy == HeapSpec => Init /\ [][Next]_vars
<1>1. HeapInit => Init
  BY DEF HeapInit
<1>2. [HeapNext]_<<vars, heap>> => [Next]_vars
  BY BuddySteps
<1> QED BY <1>1, <1>2, PTL DEF HeapSpec

\* vmm_virt2phys takes an address of the area only if nothing is added to it.
LEMMA MappedPage ==
  ASSUME NEW p \in PageFrames, Mapped(p)
  PROVE  DM_START = 0 /\ vmm_virt2phys(p) = p
<1>1. p \in Nat /\ p < Base + Max
  BY AreaCells, Sizes, BuddyAssumption DEF PageFrames
<1>2. ~(DM_START >= Base + Max)
  BY <1>1, BuddyAssumption, AreaCells, Sizes DEF Mapped
<1> QED BY <1>1, <1>2, AddressAssumption DEF vmm_virt2phys

-----------------------------------------------------------------------------
LEMMA Seats ==
  ASSUME Levels > 1, NEW s \in Slabs, NEW r \in Slabs, s <= Deep, r <= Deep
  PROVE  /\ Home(s) = Home(r) => s = r
         /\ CachePage(s) = CachePage(r) => s = r
<1>1. s \in Nat /\ r \in Nat /\ Deep \in Nat
  BY SlabPage
<1> QED BY <1>1, SlabPages

LEMMA HeapInvInit == ASSUME Levels > 1, HeapInit PROVE HeapInv
<1>1. /\ slab_i = 0 /\ job = "none" /\ mine = NULL /\ freed = NULL /\ objects = {} /\ dropped = {}
      /\ buddy = [p \in PageFrames |-> FALSE] /\ slab = [p \in PageFrames |-> 0]
      /\ cache = [s \in Slabs |-> NULL] /\ store = [p \in PageFrames |-> NoCache]
  BY DEF HeapInit
<1>2. /\ SlabCount \in Nat /\ 0 \notin Slabs /\ \A s \in Slabs : s \in Nat /\ ~(s < 0) /\ s > 0
      /\ \A s \in Slabs : CachePage(s) \in PageFrames
  BY HeapAssumption, SlabPage DEF Slabs
<1>3. Phases
  BY <1>1, <1>2 DEF Phases, Jobs
<1>4. PagesInv
  BY <1>1, <1>2 DEF PagesInv, PagesTyped
<1>5. Served
  BY <1>1, <1>2 DEF Served
<1>6. ObjectsInv
  BY <1>1, FS_EmptySet DEF ObjectsInv, InUse
<1> QED BY <1>3, <1>4, <1>5, <1>6 DEF HeapInv

\* What a slab in service rests on.
LEMMA ServiceKept ==
  ASSUME NEW s \in Slabs, ServedAt(s), Crowded(s)' <=> Crowded(s),
         store'[CachePage(s)] = store[CachePage(s)],
         InUse(s)' = InUse(s), Lost(s)' = Lost(s), job = "wild" => job' = "wild"
  PROVE  ServedAt(s)'
<1>1. Taken(s)' = Taken(s)
  BY DEF Taken
<1>2. CrowdAt(s) => CrowdAt(s)'
  BY DEF CrowdAt
<1>3. CacheAt(s) => CacheAt(s)'
  BY <1>1 DEF CacheAt
<1> QED BY <1>2, <1>3 DEF ServedAt

\* Steps that leave the caches and the objects alone, and of the pages of slabs
\* at most take some away before there are any.
LEMMA KeptSteps ==
  ASSUME Levels > 1, HeapInv, Phases', UNCHANGED <<slab_i, cache, store, objects, dropped>>,
         \/ slab' = slab
         \/ /\ slab_i = 0 /\ slab' \in [PageFrames -> 0..SlabCount]
            /\ \A p \in PageFrames : slab'[p] \in {slab[p], 0},
         buddy' \in [PageFrames -> BOOLEAN], {mine', freed'} \subseteq PageFrames \cup {NULL},
         job = "wild" => job' = "wild",
         job' \in {"objects", "fill"} /\ slab_i \in Slabs => cache[slab_i] # NULL
  PROVE  HeapInv'
<1>1. PagesInv'
  <2>1. CASE slab' = slab
    BY <2>1 DEF HeapInv, PagesInv, PagesTyped
  <2>2. CASE /\ slab_i = 0 /\ slab' \in [PageFrames -> 0..SlabCount]
             /\ \A p \in PageFrames : slab'[p] \in {slab[p], 0}
    <3>1. \A p \in PageFrames : slab[p] = 0
      BY <2>2, HeapAssumption DEF HeapInv, PagesInv, PagesTyped
    <3>2. \A s \in Slabs : ~(s < slab_i)
      BY <2>2, HeapAssumption DEF Slabs
    <3> QED BY <2>2, <3>1, <3>2 DEF HeapInv, PagesInv, PagesTyped
  <2> QED BY <2>1, <2>2
<1>2. \A s \in Slabs : InUse(s)' = InUse(s) /\ Lost(s)' = Lost(s) /\ (Crowded(s)' <=> Crowded(s))
  BY DEF InUse, Lost, Crowded
<1>3. ASSUME NEW s \in Slabs, ServedAt(s) PROVE ServedAt(s)'
  BY <1>2, <1>3, ServiceKept
<1>4. Served'
  BY <1>3 DEF HeapInv, Served, Blank
<1>5. ObjectsInv'
  <2>1. ASSUME NEW o \in objects, slab' # slab PROVE FALSE
    BY <2>1, HeapAssumption DEF HeapInv, Phases
  <2> QED BY <1>2, <2>1 DEF HeapInv, ObjectsInv
<1> QED BY <1>1, <1>4, <1>5 DEF HeapInv

\* page_alloc itself only says how to go on.
LEMMA JobAfterAlloc ==
  ASSUME NEW n, NEW then, NEW null, page_alloc(n, then, null)
  PROVE  job' \in {"fault", then, null}
BY DEF page_alloc

\* Steps of the page allocator and of init_slab up to the pages of a slab.
LEMMA OpeningSteps ==
  ASSUME Levels > 1, HeapInv, UNCHANGED <<slab_i, cache, store, objects, dropped>>,
         slab_i <= SlabCount,
         \/ slab' = slab
         \/ /\ slab_i = 0 /\ slab' \in [PageFrames -> 0..SlabCount]
            /\ \A p \in PageFrames : slab'[p] \in {slab[p], 0},
         buddy' \in [PageFrames -> BOOLEAN], {mine', freed'} \subseteq PageFrames \cup {NULL},
         job' \in Jobs \ {"wild", "overrun"},
         slab_i = 0 => job' \notin {"init", "alloc_cache", "objects", "fill"},
         job' = "page_free" => mine' # NULL,
         slab_i # 0 => job' \notin {"none", "page_alloc", "page_free"},
         job' \in {"objects", "fill"} => cache[slab_i] # NULL
  PROVE  HeapInv'
<1>1. slab_i \in 0..(SlabCount + 1) /\ job # "wild" /\ SlabCount \in Nat
  BY HeapAssumption DEF HeapInv, Phases
<1>2. slab_i # 0 => slab_i \in Slabs
  BY <1>1 DEF Slabs
<1>3. Phases'
  BY <1>1, <1>2 DEF HeapInv, Phases
<1> QED BY <1>1, <1>3, KeptSteps

\* The page of a cache gets its uninitialised words with the first slab in it.
LEMMA CacheSteps ==
  ASSUME Levels > 1, Ind, HeapInv, AllocCacheDone, Page # NULL => Page = CachePage(slab_i)
  PROVE  HeapInv'
<1>0. PICK k, p : k = slab_i /\ p = Page
  OBVIOUS
<1>1. /\ job = "alloc_cache" /\ UNCHANGED <<front, mine, freed, slab_i, slab, objects, dropped>>
      /\ buddy' = (IF p = NULL THEN buddy ELSE [buddy EXCEPT ![p] = TRUE])
  BY <1>0 DEF AllocCacheDone, Returned, Owned, pages
<1>2. /\ k \in Slabs /\ k <= SlabCount /\ k \in Nat \ {0} /\ slab_i = k
      /\ DOMAIN cache = Slabs /\ DOMAIN store = PageFrames
      /\ objects = {} /\ dropped = {} /\ buddy \in [PageFrames -> BOOLEAN]
      /\ {mine, freed} \subseteq PageFrames \cup {NULL}
  BY <1>0, <1>1, HeapAssumption DEF HeapInv, Phases, PagesInv, PagesTyped, Served, Slabs
<1>3. p \in PageFrames \cup {NULL} /\ buddy' \in [PageFrames -> BOOLEAN]
  <2>1. p \in PageFrames \cup {NULL}
    BY <1>0, PageReturned
  <2> QED BY <1>1, <1>2, <2>1
<1>4. CASE p = NULL \/ ~Mapped(p)
  <2>1. job' = "panic" /\ UNCHANGED <<cache, store>>
    BY <1>0, <1>4 DEF AllocCacheDone
  <2> QED BY <1>1, <1>2, <1>3, <2>1, OpeningSteps DEF Jobs
<1>5. CASE ~(p = NULL \/ ~Mapped(p))
  <2>1. /\ job' = "objects" /\ cache' = [cache EXCEPT ![k] = vmm_virt2phys(p)]
        /\ \/ store[p] # NoCache /\ UNCHANGED store
           \/ store[p] = NoCache /\ \E index, sz \in Garbage :
                store' = [store EXCEPT ![p] = [index |-> index, entries_sz |-> sz,
                                               entries |-> <<>>]]
    BY <1>0, <1>5 DEF AllocCacheDone
  <2>2. p \in PageFrames /\ p = CachePage(k) /\ vmm_virt2phys(p) = p /\ p # NULL
    BY <1>0, <1>3, <1>5, MappedPage
  <2>3. PICK b : \/ store[p] # NoCache /\ store' = store
                 \/ store[p] = NoCache /\ b \in Blank /\ store' = [store EXCEPT ![p] = b]
    <3>1. CASE store[p] # NoCache
      BY <2>1, <3>1
    <3>2. CASE store[p] = NoCache
      <4>1. PICK index \in Garbage, sz \in Garbage :
              store' = [store EXCEPT ![p] = [index |-> index, entries_sz |-> sz, entries |-> <<>>]]
        BY <2>1, <3>2
      <4>2. [index |-> index, entries_sz |-> sz, entries |-> <<>>] \in Blank
        BY HeapAssumption DEF Blank
      <4> QED BY <3>2, <4>1, <4>2
    <3> QED BY <3>1, <3>2
  <2>4. /\ DOMAIN cache' = Slabs /\ cache'[k] = p
        /\ \A s \in Slabs : s # k => cache'[s] = cache[s]
        /\ DOMAIN store' = PageFrames /\ \A q \in PageFrames : q # p => store'[q] = store[q]
    BY <1>2, <2>1, <2>2, <2>3
  <2>5. Phases'
    BY <1>1, <1>2, <2>1 DEF HeapInv, Phases, Jobs
  <2>6. PagesInv'
    BY <1>1, <1>2, <1>3 DEF HeapInv, PagesInv, PagesTyped
  <2>7. \A s \in Slabs : s \in Nat /\ (s < k \/ s > k => s # k) /\ CachePage(s) \in PageFrames
    BY <1>2, SlabPage
  <2>8. ASSUME NEW s \in Slabs, s < k, s <= Deep PROVE ServedAt(s)'
    <3>1. ServedAt(s) /\ job # "wild"
      BY <1>0, <1>1, <2>8 DEF HeapInv, Served
    <3>2. store'[CachePage(s)] = store[CachePage(s)]
      <4>1. CASE CachePage(s) # p
        BY <2>4, <2>7, <4>1
      <4>2. CASE CachePage(s) = p
        <5>1. store[p] \in CacheT(s, Home(s))
          BY <3>1, <4>2 DEF ServedAt, CrowdAt, CacheAt, Sound
        <5>2. store[p] # NoCache
          BY <5>1 DEF CacheT, NoCache
        <5> QED BY <2>3, <5>2
      <4> QED BY <4>1, <4>2
    <3>3. InUse(s)' = InUse(s) /\ Lost(s)' = Lost(s) /\ (Crowded(s)' <=> Crowded(s))
      BY <1>1 DEF InUse, Lost, Crowded
    <3> QED BY <3>1, <3>2, <3>3, ServiceKept
  <2>9. ASSUME NEW s \in Slabs, s >= k, s <= Deep
        PROVE  store'[CachePage(s)] \in IF cache'[s] = NULL THEN {NoCache} ELSE Blank
    <3>1. store[CachePage(s)] \in IF cache[s] = NULL THEN {NoCache} ELSE Blank
      BY <1>0, <2>9 DEF HeapInv, Served
    <3>2. CASE s = k
      <4>1. store[p] \in Blank => store[p] # NoCache
        BY DEF Blank, NoCache
      <4> QED BY <1>2, <2>2, <2>3, <2>4, <3>1, <3>2, <4>1
    <3>3. CASE s # k
      <4>1. k <= Deep
        BY <1>2, <2>7, <2>9, SlabPage
      <4>2. CachePage(s) # p
        BY <1>2, <2>2, <2>9, <3>3, <4>1, Seats
      <4> QED BY <2>4, <2>7, <3>1, <3>3, <4>2
    <3> QED BY <3>2, <3>3
  <2>10. Served'
    <3>1. \A s \in Slabs : s < k => cache'[s] = CachePage(s)
      BY <1>0, <2>4, <2>7 DEF HeapInv, Served
    <3>2. \A s \in Slabs : s > k => cache'[s] = NULL
      BY <1>0, <2>4, <2>7 DEF HeapInv, Served
    <3>3. cache'[k] = CachePage(k) /\ cache'[k] # NULL /\ slab_i' = k
      BY <1>0, <1>1, <2>2, <2>4
    <3> QED BY <2>4, <2>8, <2>9, <3>1, <3>2, <3>3 DEF Served
  <2>11. ObjectsInv'
    BY <1>1, <1>2, FS_EmptySet DEF ObjectsInv, InUse
  <2> QED BY <2>5, <2>6, <2>10, <2>11 DEF HeapInv
<1> QED BY <1>4, <1>5

\* What fill_cache stores, into a page nobody has filled or one that has the
\* entries of a slab with smaller objects.
LEMMA EntriesFilled ==
  ASSUME NEW s \in Slabs, NEW p \in PageFrames
  PROVE  /\ StoreEntries(<<>>, fill_cache(s, p)) = fill_cache(s, p)
         /\ \A r \in Slabs : \A f \in [Places(r) -> InPage(p)] :
              r <= s => StoreEntries(f, fill_cache(s, p)) \in [Places(r) -> InPage(p)]
<1>1. PICK g : g = fill_cache(s, p)
  OBVIOUS
<1>2. g \in [Places(s) -> InPage(p)]
  BY <1>1, FillTyped
<1>3. StoreEntries(<<>>, g) = g
  <2>1. DOMAIN <<>> \cup DOMAIN g = DOMAIN g
    <3>1. DOMAIN <<>> = {}
      OBVIOUS
    <3> QED BY <3>1
  <2>2. StoreEntries(<<>>, g) = [d \in DOMAIN g |-> g[d]]
    BY <2>1 DEF StoreEntries
  <2> QED BY <1>2, <2>2
<1>4. ASSUME NEW r \in Slabs, NEW f \in [Places(r) -> InPage(p)], r <= s
      PROVE  StoreEntries(f, g) \in [Places(r) -> InPage(p)]
  <2>1. Places(s) \subseteq Places(r)
    <3>1. /\ ObjSize[r] \in Nat \ {0} /\ ObjSize[s] \in Nat \ {0} /\ ObjSize[r] <= ObjSize[s]
          /\ PerPage(r) \in Nat /\ PerPage(s) \in Nat
          /\ PerPage(r) * ObjSize[r] = PageWords /\ PerPage(s) * ObjSize[s] = PageWords
      BY <1>4, HeapAssumption, PerPageSizes
    <3>2. PerPage(s) <= PerPage(r)
      <4>1. PICK m, n, a, b : m = PerPage(r) /\ n = PerPage(s) /\ a = ObjSize[r] /\ b = ObjSize[s]
        OBVIOUS
      <4>2. SUFFICES ASSUME m < n PROVE FALSE
        BY <3>1, <4>1
      <4>3. /\ m \in Nat /\ n \in Nat /\ a \in Nat \ {0} /\ b \in Nat \ {0} /\ a <= b
            /\ m * a = PageWords /\ n * b = PageWords /\ PageWords \in Nat
        BY <3>1, <4>1, HeapAssumption
      <4>4. m * a + a <= n * a
        BY <4>2, <4>3, Cancel
      <4>5. a * n <= b * n /\ a * n = n * a /\ b * n = n * b
        BY <4>3, Monotone
      <4>6. n * a <= n * b /\ n * a \in Nat /\ n * b \in Nat
        BY <4>3, <4>5
      <4> QED BY <4>3, <4>4, <4>6
    <3> QED BY <3>1, <3>2 DEF Places
  <2>2. DOMAIN f \cup DOMAIN g = Places(r)
    BY <1>2, <2>1
  <2>3. StoreEntries(f, g) = [d \in Places(r) |-> IF d \in Places(s) THEN g[d] ELSE f[d]]
    BY <1>2, <2>2 DEF StoreEntries
  <2> QED BY <1>2, <2>3
<1> QED BY <1>1, <1>3, <1>4

\* The objects of a slab are put into its page.
LEMMA FillSteps ==
  ASSUME Levels > 1, Ind, HeapInv, FillCache, Page # NULL, Page = Home(slab_i)
  PROVE  HeapInv'
<1>0. PICK k, p, q : k = slab_i /\ p = Home(k) /\ q = CachePage(k)
  OBVIOUS
<1>1. /\ job = "fill" /\ job' = (IF k = SlabCount THEN "none" ELSE "init")
      /\ slab' = [slab EXCEPT ![p] = k] /\ buddy' = [buddy EXCEPT ![p] = TRUE]
      /\ store' = [store EXCEPT ![cache[k]].entries = StoreEntries(@, fill_cache(k, p))]
      /\ slab_i' = k + 1 /\ UNCHANGED <<front, mine, freed, cache, objects, dropped>>
  BY <1>0 DEF FillCache, Returned, Owned, pages
<1>2. k \in Slabs /\ k \in 1..SlabCount /\ SlabCount \in Nat
  BY <1>0, <1>1, HeapAssumption DEF HeapInv, Phases, Slabs
<1>3. /\ p \in PageFrames /\ q \in PageFrames /\ q # NULL /\ Deep \in Nat /\ Deep >= 1
      /\ \A s \in Slabs : s \in Nat \ {0} /\ CachePage(s) \in PageFrames /\ Home(s) \in PageFrames
  BY <1>0, <1>2, SlabPage
<1>4. /\ objects = {} /\ dropped = {} /\ job # "wild"
      /\ buddy \in [PageFrames -> BOOLEAN] /\ {mine, freed} \subseteq PageFrames \cup {NULL}
      /\ slab \in [PageFrames -> 0..SlabCount]
      /\ \A r \in PageFrames : slab[r] < k \/ slab[r] = 0
      /\ \A r \in PageFrames : slab[r] # 0 => r = Home(slab[r])
      /\ \A s \in Slabs : s < k => slab[Home(s)] >= s
  BY <1>0, <1>2 DEF HeapInv, Phases, PagesInv, PagesTyped
<1>5. /\ DOMAIN cache = Slabs /\ DOMAIN store = PageFrames /\ cache[k] = q
      /\ \A s \in Slabs : s < k => cache[s] = CachePage(s)
      /\ \A s \in Slabs : s > k => cache[s] = NULL
      /\ \A s \in Slabs : s < k /\ s <= Deep => ServedAt(s)
      /\ \A s \in Slabs : s >= k /\ s <= Deep =>
           store[CachePage(s)] \in IF cache[s] = NULL THEN {NoCache} ELSE Blank
  BY <1>0, <1>1, <1>2 DEF HeapInv, Served
<1>6. PICK c, g : c = store[q] /\ g = StoreEntries(c.entries, fill_cache(k, p))
  OBVIOUS
<1>7. /\ DOMAIN store' = PageFrames /\ \A r \in PageFrames : r # q => store'[r] = store[r]
      /\ store'[q] = [c EXCEPT !.entries = g]
  BY <1>1, <1>3, <1>5, <1>6
<1>8. /\ \A r \in PageFrames : slab'[r] = IF r = p THEN k ELSE slab[r]
      /\ slab' \in [PageFrames -> 0..SlabCount] /\ buddy' \in [PageFrames -> BOOLEAN]
  BY <1>1, <1>2, <1>3, <1>4
<1>9. \A s \in Slabs : /\ InUse(s)' = {} /\ Lost(s)' = {} /\ Taken(s)' = {}
                       /\ InUse(s) = {} /\ Lost(s) = {}
  BY <1>1, <1>4 DEF InUse, Lost, Taken
<1>10. Phases'
  BY <1>1, <1>2, <1>4 DEF Phases, Jobs, Slabs
<1>11. PagesInv'
  <2>1. \A r \in PageFrames : slab'[r] < k + 1 \/ slab'[r] = 0
    BY <1>2, <1>4, <1>8
  <2>2. \A r \in PageFrames : slab'[r] # 0 => r = Home(slab'[r])
    BY <1>0, <1>4, <1>8
  <2>3. ASSUME NEW s \in Slabs, s < k + 1 PROVE slab'[Home(s)] >= s
    <3>1. CASE Home(s) = p
      BY <1>2, <1>3, <1>8, <2>3, <3>1
    <3>2. CASE Home(s) # p
      <4>1. s # k
        BY <1>0, <3>2
      <4>2. s < k
        BY <1>2, <1>3, <2>3, <4>1
      <4> QED BY <1>3, <1>4, <1>8, <3>2, <4>2
    <3> QED BY <3>1, <3>2
  <2> QED BY <1>1, <1>4, <1>8, <2>1, <2>2, <2>3 DEF PagesInv, PagesTyped
<1>12. ASSUME NEW s \in Slabs, s < k, s < Deep PROVE ServedAt(s)'
  <2>1. ServedAt(s) /\ CachePage(s) # q
    <3>1. CachePage(s) = q => s = k \/ s >= Deep
      BY <1>0, <1>2, SlabPages
    <3> QED BY <1>2, <1>3, <1>5, <1>12, <3>1
  <2>2. Crowded(s)' <=> Crowded(s)
    BY <1>3, <1>12 DEF Crowded
  <2> QED BY <1>3, <1>4, <1>7, <1>9, <2>1, <2>2, ServiceKept
<1>13. ASSUME k <= Deep PROVE ServedAt(k)' /\ \A s \in Slabs : s <= Deep /\ s # k => CachePage(s) # q
  <2>1. c \in Blank
    BY <1>0, <1>2, <1>3, <1>5, <1>6, <1>13
  <2>2. g = fill_cache(k, p) /\ g \in [Places(k) -> InPage(p)]
    BY <1>2, <1>3, <1>6, <2>1, EntriesFilled, FillTyped DEF Blank
  <2>3. store'[q] \in CacheT(k, p) /\ store'[q].entries = fill_cache(k, p)
    BY <1>7, <2>1, <2>2 DEF CacheT, Blank
  <2>4. Sound(k, p, store'[q], {})
    BY <1>2, <1>3, <2>3, FillSound
  <2>5. CacheAt(k)'
    BY <1>0, <1>2, <1>9, <2>4 DEF CacheAt
  <2>6. ~Crowded(k)'
    BY <1>1, <1>2, <1>3, <1>13 DEF Crowded
  <2>7. ServedAt(k)'
    BY <2>5, <2>6 DEF ServedAt
  <2>8. \A s \in Slabs : s <= Deep /\ s # k => CachePage(s) # q
    BY <1>0, <1>2, <1>13, Seats
  <2> QED BY <2>7, <2>8
<1>14. ASSUME k > Deep PROVE Deep \in Slabs /\ ServedAt(Deep)'
  <2>1. Deep \in Slabs
    BY <1>2, <1>3, <1>14 DEF Slabs
  <2>2. ServedAt(Deep) /\ Home(Deep) = p /\ CachePage(Deep) = q
    <3>1. Home(Deep) = Home(k) /\ CachePage(Deep) = CachePage(k)
      BY <1>2, <1>3, <1>14, <2>1, SlabPages
    <3> QED BY <1>0, <1>2, <1>3, <1>5, <1>14, <2>1, <3>1
  <2>3. c \in CacheT(Deep, p)
    BY <1>6, <2>2 DEF ServedAt, CrowdAt, CacheAt, Sound
  <2>4. g \in [Places(Deep) -> InPage(p)]
    <3>1. c.entries \in [Places(Deep) -> InPage(p)] /\ Deep <= k
      BY <1>2, <1>3, <1>14, <2>3 DEF CacheT
    <3> QED BY <1>2, <1>3, <1>6, <2>1, <3>1, EntriesFilled
  <2>5. store'[q] \in CacheT(Deep, p) /\ store'[q].index \in Nat
    BY <1>7, <2>3, <2>4 DEF CacheT
  <2>6. Cardinality({}) = 0
    BY FS_EmptySet
  <2>7. CrowdAt(Deep)'
    BY <1>9, <2>1, <2>2, <2>5, <2>6 DEF CrowdAt
  <2>8. Crowded(Deep)'
    BY <1>1, <1>2, <1>3, <1>14 DEF Crowded
  <2> QED BY <2>1, <2>7, <2>8 DEF ServedAt
<1>15. Served'
  <2>1. \A s \in Slabs : s < k + 1 => cache'[s] = CachePage(s)
    <3>1. \A s \in Slabs : s < k + 1 => s < k \/ s = k
      BY <1>2, <1>3
    <3> QED BY <1>0, <1>1, <1>5, <3>1
  <2>2. \A s \in Slabs : s >= k + 1 => cache'[s] = NULL
    BY <1>1, <1>2, <1>3, <1>5
  <2>3. ASSUME NEW s \in Slabs, s < k + 1, s <= Deep PROVE ServedAt(s)'
    <3>1. CASE s = k
      BY <1>13, <2>3, <3>1
    <3>2. CASE s < k /\ s < Deep
      BY <1>12, <3>2
    <3>3. CASE s < k /\ s = Deep
      BY <1>14, <1>2, <1>3, <3>3
    <3> QED BY <1>2, <1>3, <2>3, <3>1, <3>2, <3>3
  <2>4. ASSUME NEW s \in Slabs, s >= k + 1, s <= Deep PROVE store'[CachePage(s)] = NoCache
    <3>1. k <= Deep /\ s # k /\ s > k /\ s >= k
      BY <1>2, <1>3, <2>4
    <3>2. CachePage(s) # q
      BY <1>13, <2>4, <3>1
    <3> QED BY <1>3, <1>5, <1>7, <2>4, <3>1, <3>2
  <2>5. \A s \in Slabs : s > k + 1 => s >= k + 1
    BY <1>2, <1>3
  <2>6. /\ DOMAIN cache' = Slabs /\ job' \notin {"objects", "fill"}
        /\ k + 1 \in Slabs => cache'[k + 1] = NULL
    <3>1. k + 1 >= k + 1
      BY <1>2
    <3> QED BY <1>1, <1>5, <2>2, <3>1
  <2> QED BY <1>1, <1>7, <2>1, <2>2, <2>3, <2>4, <2>5, <2>6 DEF Served
<1>16. ObjectsInv'
  BY <1>1, <1>4, <1>9, FS_EmptySet DEF ObjectsInv
<1> QED BY <1>10, <1>11, <1>15, <1>16 DEF HeapInv

\* Where kfree and ksize look for the slab of an object, and whose cache it is.
LEMMA Lookup ==
  ASSUME Levels > 1, HeapInv, NEW o \in objects
  PROVE  \E t \in Slabs :
           /\ t < slab_i /\ t <= Deep /\ slab_i = SlabCount + 1 /\ o.at \in Object
           /\ o.at.frame = Home(t) /\ slab[Home(t)] \in Slabs /\ slab[Home(t)] >= t
           /\ Home(slab[Home(t)]) = Home(t) /\ cache[slab[Home(t)]] = CachePage(t)
           /\ vmm_virt2slab(o.at) = IF Behind(o.at) THEN 0 ELSE slab[Home(t)]
<1>1. PICK t \in Slabs : t < slab_i /\ t <= Deep /\ o.at.frame = Home(t)
  BY DEF HeapInv, ObjectsInv
<1>2. /\ o.at \in Object /\ slab_i = SlabCount + 1 /\ SlabCount \in Nat
      /\ slab \in [PageFrames -> 0..SlabCount]
  BY HeapAssumption DEF HeapInv, Phases, PagesInv, PagesTyped, ObjectsInv
<1>3. /\ t \in Nat \ {0} /\ Home(t) \in PageFrames /\ CachePage(t) \in PageFrames
      /\ Home(t) + 1 = CachePage(t)
  BY SlabPage
<1>4. PICK r : r = slab[Home(t)]
  OBVIOUS
<1>5. r \in Slabs /\ r >= t /\ Home(r) = Home(t) /\ r < slab_i
  <2>1. r >= t /\ r \in 0..SlabCount
    BY <1>1, <1>2, <1>3, <1>4 DEF HeapInv, PagesInv
  <2>2. r \in Slabs
    BY <1>2, <1>3, <2>1 DEF Slabs
  <2>3. r # 0
    BY <1>3, <2>1
  <2> QED BY <1>2, <1>3, <1>4, <2>1, <2>2, <2>3 DEF HeapInv, PagesInv
<1>6. CachePage(r) = CachePage(t) /\ cache[r] = CachePage(t)
  BY <1>1, <1>5, SlabPages DEF HeapInv, Served
<1>7. slab[CachePage(t)] = 0
  <2>1. SUFFICES ASSUME slab[CachePage(t)] # 0 PROVE FALSE
    OBVIOUS
  <2>2. PICK z : z = slab[CachePage(t)]
    OBVIOUS
  <2>3. z \in Slabs /\ CachePage(t) = Home(z)
    BY <1>2, <1>3, <2>1, <2>2 DEF HeapInv, PagesInv, Slabs
  <2> QED BY <2>3, SlabPages
<1>8. vmm_virt2slab(o.at) = IF Behind(o.at) THEN 0 ELSE slab[Home(t)]
  BY <1>1, <1>2, <1>3, <1>7, NumberOf DEF vmm_virt2slab, HasPage
<1> QED BY <1>1, <1>2, <1>4, <1>5, <1>6, <1>8

\* The slab kmalloc chooses has objects that are large enough.
LEMMA SlabFits ==
  ASSUME NEW size \in Nat, kmalloc_index(size) \in Slabs
  PROVE  size <= ObjSize[kmalloc_index(size)]
<1> DEFINE Fit == {s \in Slabs : size <= ObjSize[s]}
<1>1. CASE Fit = {}
  <2>1. kmalloc_index(size) = SlabCount + 1
    BY <1>1 DEF kmalloc_index
  <2> QED BY <2>1, HeapAssumption DEF Slabs
<1>2. CASE Fit # {}
  <2>1. Fit \in SUBSET Nat
    BY DEF Slabs
  <2>2. PICK n \in Fit : \A m \in Fit : n <= m
    BY <1>2, <2>1, LeastNatural
  <2>3. n \in Slabs /\ n \in 1..SlabCount /\ SlabCount \in Nat
    BY HeapAssumption DEF Slabs
  <2>4. ASSUME NEW r \in 1..(n - 1) PROVE size > ObjSize[r]
    <3>1. r \in Slabs /\ ~(n <= r)
      BY <2>3, <2>4 DEF Slabs
    <3>2. r \notin Fit
      BY <2>2, <3>1
    <3>3. ObjSize[r] \in Nat
      BY <3>1, PerPageSizes
    <3> QED BY <3>1, <3>2, <3>3
  <2>5. \E s \in Slabs : size <= ObjSize[s] /\ \A r \in 1..(s - 1) : size > ObjSize[r]
    BY <2>2, <2>3, <2>4
  <2>6. kmalloc_index(size) =
          CHOOSE s \in Slabs : size <= ObjSize[s] /\ \A r \in 1..(s - 1) : size > ObjSize[r]
    BY <2>2 DEF kmalloc_index
  <2> QED BY <2>5, <2>6
<1> QED BY <1>1, <1>2

\* kmalloc and kfree work on the cache in one page and leave the others alone.
LEMMA ServiceSteps ==
  ASSUME Levels > 1, HeapInv, slab_i = SlabCount + 1, job \notin {"wild", "overrun"},
         UNCHANGED <<mine, freed, slab_i, buddy, slab, cache>>,
         NEW t \in Slabs, t <= Deep, ServedAt(t)',
         DOMAIN store' = PageFrames,
         \A q \in PageFrames : q # CachePage(t) => store'[q] = store[q],
         \A r \in Slabs : r # t /\ r <= Deep => InUse(r)' = InUse(r) /\ Lost(r)' = Lost(r),
         job' \in {"none", "wild", "overrun"},
         job' = "wild" => TooFar', job' = "overrun" => Crowded(Deep),
         ObjectsInv'
  PROVE  HeapInv'
<1>1. SlabCount \in Nat /\ SlabCount + 1 \notin Slabs
      /\ \A r \in Slabs : r < SlabCount + 1 /\ ~(r > SlabCount + 1) /\ ~(r >= SlabCount + 1)
  BY HeapAssumption DEF Slabs
<1>2. Phases'
  BY <1>1 DEF HeapInv, Phases, Jobs, Crowded
<1>3. PagesInv'
  BY DEF HeapInv, PagesInv, PagesTyped
<1>4. ASSUME NEW r \in Slabs, r <= Deep PROVE ServedAt(r)'
  <2>1. CASE r = t
    BY <2>1
  <2>2. CASE r # t
    <3>1. CachePage(r) # CachePage(t) /\ CachePage(r) \in PageFrames
      BY <1>4, <2>2, Seats, SlabPage
    <3>2. ServedAt(r)
      BY <1>1, <1>4 DEF HeapInv, Served
    <3>3. Crowded(r)' <=> Crowded(r)
      BY DEF Crowded
    <3> QED BY <1>4, <2>2, <3>1, <3>2, <3>3, ServiceKept
  <2> QED BY <2>1, <2>2
<1>5. Served'
  BY <1>1, <1>4 DEF HeapInv, Served
<1> QED BY <1>2, <1>3, <1>5 DEF HeapInv

\* A cache of several slabs: the objects, and room for them in front of its index.
LEMMA CrowdGet ==
  ASSUME NEW t \in Slabs, NEW p \in PageFrames, NEW c \in CacheT(t, p),
         NEW d, d = [c EXCEPT !.index = @ + 1]
  PROVE  /\ d \in CacheT(t, p) /\ d.index = c.index + 1 /\ d.entries_sz = c.entries_sz
         /\ d.entries = c.entries
BY DEF CacheT

\* The object kmalloc takes, wherever it is.
LEMMA Taking ==
  ASSUME NEW t \in Slabs, NEW p \in PageFrames, NEW c \in CacheT(t, p), c.index \in DOMAIN c.entries
  PROVE  /\ c.entries[c.index] \in Object /\ c.entries[c.index].frame = p
         /\ c.index \in Places(t) /\ c.index + 1 <= PerPage(t) /\ c.index \in Nat
<1>1. c.entries \in [Places(t) -> InPage(p)] /\ c.index \in Nat
  BY DEF CacheT
<1>2. c.index \in Places(t) /\ c.entries[c.index] \in InPage(p)
  BY <1>1
<1>3. PerPage(t) \in Nat
  BY PerPageSizes
<1> QED BY <1>1, <1>2, <1>3 DEF InPage, Object, Places

\* kmalloc.
LEMMA KmallocSteps ==
  ASSUME Levels > 1, HeapInv, NEW size \in Nat \ {0}, Kmalloc(size)
  PROVE  HeapInv'
<1>0. PICK s, c : /\ s = kmalloc_index(size)
                  /\ c = IF s \in Slabs /\ cache[s] # NULL THEN store[cache[s]] ELSE NoCache
  OBVIOUS
<1>1. /\ job = "none" /\ Unused # {}
      /\ UNCHANGED <<front, freed, mine, slab_i, buddy, slab, cache, dropped>>
      /\ \/ c = NoCache /\ job' = "no_cache" /\ UNCHANGED <<store, objects>>
         \/ /\ c # NoCache
            /\ c.index <= c.entries_sz
            /\ store' = [store EXCEPT ![cache[s]].index = @ + 1]
            /\ \/ c.index \notin DOMAIN c.entries /\ job' = "wild" /\ UNCHANGED objects
               \/ /\ c.index \in DOMAIN c.entries
                  /\ c.entries[c.index].off + size > PageWords
                  /\ job' = "overrun" /\ UNCHANGED objects
               \/ /\ c.index \in DOMAIN c.entries
                  /\ c.entries[c.index].off + size <= PageWords
                  /\ objects' = objects \cup
                       {[id |-> CHOOSE id \in Unused : \A n \in Unused : id <= n,
                         at |-> c.entries[c.index], size |-> size]}
                  /\ UNCHANGED job
  BY <1>0 DEF Kmalloc, pages
<1>2. CASE c = NoCache /\ job' = "no_cache" /\ UNCHANGED <<store, objects>>
  <2>1. Phases'
    BY <1>1, <1>2, HeapAssumption DEF HeapInv, Phases, Jobs
  <2>2. {mine, freed} \subseteq PageFrames \cup {NULL} /\ buddy \in [PageFrames -> BOOLEAN]
    BY DEF HeapInv, PagesInv, PagesTyped
  <2> QED BY <1>1, <1>2, <2>1, <2>2, KeptSteps
<1>3. CASE c # NoCache
  <2>1. s \in Slabs /\ c = store[cache[s]] /\ cache[s] # NULL /\ size <= ObjSize[s]
    BY <1>0, <1>3, SlabFits
  <2>2. /\ slab_i = SlabCount + 1 /\ SlabCount \in Nat
        /\ \A r \in Slabs : r \in Nat \ {0} /\ r < slab_i /\ r <= SlabCount
        /\ Deep \in Nat /\ Deep >= 1
    <3>1. SlabCount \in Nat /\ \A r \in Slabs : r \in Nat \ {0} /\ r <= SlabCount
      BY HeapAssumption DEF Slabs
    <3>2. slab_i \in {0, SlabCount + 1} /\ slab_i # 0
      BY <1>1, <2>1, <3>1 DEF HeapInv, Phases, Served
    <3>3. Deep \in Nat /\ Deep >= 1
      BY <2>1, SlabPage
    <3> QED BY <3>1, <3>2, <3>3
  <2>3. PICK t : t = IF s <= Deep THEN s ELSE Deep
    OBVIOUS
  <2>4. /\ t \in Slabs /\ t <= Deep /\ Home(s) = Home(t) /\ CachePage(s) = CachePage(t)
        /\ t # s => Crowded(t)
    <3>1. CASE s <= Deep
      BY <2>1, <2>3, <3>1
    <3>2. CASE ~(s <= Deep)
      <4>1. t = Deep /\ t \in Slabs /\ s >= Deep /\ t >= Deep
        BY <2>1, <2>2, <2>3, <3>2 DEF Slabs
      <4>2. Home(s) = Home(t) /\ CachePage(s) = CachePage(t)
        <5> HIDE <2>3
        <5> QED BY <2>1, <4>1, SlabPages
      <4>3. Crowded(t)
        BY <2>1, <2>2, <3>2, <4>1 DEF Crowded
      <4> QED BY <2>2, <4>1, <4>2, <4>3
    <3> QED BY <3>1, <3>2
  <2>5. PICK p, q : p = Home(t) /\ q = CachePage(t)
    OBVIOUS
  <2>6. /\ p \in PageFrames /\ q \in PageFrames /\ cache[s] = q /\ c = store[q]
        /\ DOMAIN store = PageFrames /\ cache[t] = q
    <3>1. cache[s] = CachePage(s) /\ cache[t] = CachePage(t) /\ DOMAIN store = PageFrames
      BY <2>1, <2>2, <2>4 DEF HeapInv, Served
    <3> QED BY <2>1, <2>4, <2>5, <3>1, SlabPage
  <2>7. ServedAt(t) /\ c \in CacheT(t, p) /\ job # "wild"
    <3>1. ServedAt(t)
      BY <2>2, <2>4 DEF HeapInv, Served
    <3> QED BY <1>1, <2>5, <2>6, <3>1 DEF ServedAt, CrowdAt, CacheAt, Sound
  <2>8. PICK d : d = [c EXCEPT !.index = @ + 1]
    OBVIOUS
  <2>9. /\ DOMAIN store' = PageFrames /\ \A r \in PageFrames : r # q => store'[r] = store[r]
        /\ store'[q] = d
    BY <1>1, <1>3, <2>6, <2>8
  <2>10. /\ d \in CacheT(t, p) /\ d.index = c.index + 1 /\ d.entries_sz = c.entries_sz
         /\ d.entries = c.entries /\ c.index \in Nat /\ c.entries_sz \in Nat
         /\ DOMAIN c.entries = Places(t) /\ PerPage(t) \in Nat
    <3>1. c.index \in Nat /\ c.entries_sz \in Nat /\ DOMAIN c.entries = Places(t)
      BY <2>7 DEF CacheT
    <3> QED BY <2>4, <2>6, <2>7, <2>8, <3>1, CrowdGet, PerPageSizes
  <2>11. /\ IsFiniteSet(objects)
         /\ \A o \in objects :
              /\ o \in [id : Nat, at : Object, size : Nat]
              /\ o.size <= ObjSize[slab[o.at.frame]]
              /\ \E r \in Slabs : r < slab_i /\ r <= Deep /\ o.at.frame = Home(r)
         /\ \A r \in Slabs : r <= Deep /\ ~Crowded(r) =>
              /\ \A o1, o2 \in InUse(r) : o1.at = o2.at => o1 = o2
              /\ \A o \in InUse(r) : o.at \notin dropped
         /\ \A x \in dropped : x \in Object /\ Behind(x)
    BY DEF HeapInv, ObjectsInv
  <2>12. \A r \in Slabs : Lost(r)' = Lost(r) /\ (Crowded(r)' <=> Crowded(r))
    BY <1>1 DEF Lost, Crowded
  <2>20. CASE UNCHANGED objects
    <3>1. \A r \in Slabs : InUse(r)' = InUse(r) /\ Taken(r)' = Taken(r)
      BY <1>1, <2>20 DEF InUse, Taken, Lost
    <3>2. ObjectsInv'
      BY <1>1, <2>11, <2>12, <2>20, <3>1 DEF ObjectsInv
    <3>3. CASE c.index \notin DOMAIN c.entries
      <4>1. job' = "wild" /\ c.index <= c.entries_sz
        BY <1>1, <1>3, <3>3
      <4>2. c.index >= PerPage(t) /\ c.entries_sz \notin Places(t)
        BY <2>10, <3>3, <4>1 DEF Places
      <4>3. ServedAt(t)'
        <5>1. CASE Crowded(t)
          <6>1. CrowdAt(t)
            BY <2>7, <5>1 DEF ServedAt
          <6>2. Cardinality(InUse(t)) <= c.index /\ Cardinality(InUse(t)) \in Nat
            <7>1. IsFiniteSet(InUse(t))
              BY <2>11, FS_Subset DEF InUse
            <7> QED BY <2>5, <2>6, <6>1, <7>1, FS_CardinalityType DEF CrowdAt
          <6>3. CrowdAt(t)'
            BY <2>4, <2>5, <2>9, <2>10, <3>1, <4>1, <6>2 DEF CrowdAt
          <6> QED BY <2>4, <2>12, <5>1, <6>3 DEF ServedAt
        <5>2. CASE ~Crowded(t)
          <6>1. Sound(t, p, c, Taken(t))
            BY <2>5, <2>6, <2>7, <5>2 DEF ServedAt, CacheAt
          <6>2. Sound(t, p, d, Taken(t))
            BY <2>4, <2>6, <2>8, <4>2, <6>1, BeyondSound
          <6>3. CacheAt(t)'
            BY <2>4, <2>5, <2>9, <3>1, <4>1, <6>2 DEF CacheAt
          <6> QED BY <2>4, <2>12, <5>2, <6>3 DEF ServedAt
        <5> QED BY <5>1, <5>2
      <4>4. TooFar'
        BY <1>1, <2>2, <2>4, <2>6, <2>9, <2>10, <4>2 DEF TooFar, Ready, CacheOf
      <4> QED BY <1>1, <2>2, <2>4, <2>5, <2>9, <2>12, <3>1, <3>2, <4>1, <4>3, <4>4, ServiceSteps
    <3>4. CASE c.index \in DOMAIN c.entries
      <4>0. PICK x : x = c.entries[c.index]
        OBVIOUS
      <4>1. x \in Object /\ x.frame = p /\ c.index \in Places(t) /\ c.index + 1 <= PerPage(t)
        BY <2>4, <2>6, <2>7, <3>4, <4>0, Taking
      <4>2. CASE x.off + size > PageWords
        <5>1. job' = "overrun"
          <6>1. x.off \in Nat /\ PageWords \in Nat
            BY <4>1, HeapAssumption DEF Object
          <6>2. ~(x.off + size <= PageWords)
            BY <4>2, <6>1
          <6> QED BY <1>1, <1>3, <3>4, <4>0, <6>2
        <5>2. Crowded(t)
          <6>1. SUFFICES ASSUME ~Crowded(t) PROVE FALSE
            OBVIOUS
          <6>2. t = s /\ Sound(t, p, c, Taken(t))
            BY <2>4, <2>5, <2>6, <2>7, <6>1 DEF ServedAt, CacheAt
          <6>3. x \in Filled(t, p)
            <7>1. c.index \in Left(t, c)
              BY <2>10, <4>1 DEF Left
            <7>2. x \in Kept(t, c)
              BY <4>0, <7>1 DEF Kept
            <7> QED BY <6>2, <7>2 DEF Sound
          <6>4. PICK e \in Places(t) : x = fill_cache(t, p)[e]
            BY <6>3 DEF Filled
          <6>5. x.off = e * ObjSize[t]
            <7>1. PICK n : n = e * ObjSize[t]
              OBVIOUS
            <7>2. x = [frame |-> p, off |-> n]
              BY <2>4, <2>6, <6>4, <7>1, FillTyped
            <7> QED BY <7>1, <7>2
          <6>6. /\ e * ObjSize[t] \in 0..(PageWords - 1) /\ e * ObjSize[t] + ObjSize[t] <= PageWords
                /\ ObjSize[t] \in Nat /\ PageWords \in Nat
            BY <2>4, ObjectEnds, PerPageSizes
          <6>7. size <= ObjSize[t] /\ size \in Nat
            BY <2>1, <6>2
          <6>8. x.off \in Nat /\ x.off + ObjSize[t] <= PageWords
            BY <6>5, <6>6
          <6> QED BY <4>2, <6>6, <6>7, <6>8
        <5>3. Crowded(Deep)
          <6>1. t >= Deep
            BY <5>2 DEF Crowded
          <6>2. t = Deep
            BY <2>2, <2>4, <6>1
          <6> QED BY <5>2, <6>2
        <5>4. CrowdAt(t)
          BY <2>7, <5>2 DEF ServedAt
        <5>5. Cardinality(InUse(t)) <= c.index /\ Cardinality(InUse(t)) \in Nat
          <6>1. IsFiniteSet(InUse(t))
            BY <2>11, FS_Subset DEF InUse
          <6> QED BY <2>5, <2>6, <5>4, <6>1, FS_CardinalityType DEF CrowdAt
        <5>6. CrowdAt(t)'
          BY <2>4, <2>5, <2>9, <2>10, <3>1, <4>1, <5>5 DEF CrowdAt
        <5>7. ServedAt(t)'
          BY <2>4, <2>12, <5>2, <5>6 DEF ServedAt
        <5> QED BY <1>1, <2>2, <2>4, <2>5, <2>9, <2>12, <3>1, <3>2, <5>1, <5>3, <5>7, ServiceSteps
      <4>3. CASE ~(x.off + size > PageWords)
        <5>1. PICK o : o \in objects' /\ o = [id |-> CHOOSE id \in Unused : \A n \in Unused : id <= n,
                                       at |-> c.entries[c.index], size |-> size]
          BY <1>1, <1>3, <3>4, <4>0, <4>3
        <5>2. o \in objects /\ o.id = CHOOSE id \in Unused : \A n \in Unused : id <= n
          BY <2>20, <5>1
        <5>3. o.id \in Unused
          <6>1. Unused \in SUBSET Nat
            BY DEF Unused
          <6>2. \E id \in Unused : \A n \in Unused : id <= n
            BY <1>1, <6>1, LeastNatural
          <6> QED BY <5>2, <6>2
        <5> QED BY <5>2, <5>3 DEF Unused
      <4> QED BY <4>2, <4>3
    <3> QED BY <3>3, <3>4
  <2>21. CASE objects' # objects
    <3>0. PICK x : x = c.entries[c.index]
      OBVIOUS
    <3>1. /\ c.index \in DOMAIN c.entries /\ job' = "none"
          /\ objects' = objects \cup
               {[id |-> CHOOSE id \in Unused : \A n \in Unused : id <= n, at |-> x, size |-> size]}
      BY <1>1, <1>3, <2>21, <3>0
    <3>2. x \in Object /\ x.frame = p /\ c.index \in Places(t) /\ c.index + 1 <= PerPage(t)
      BY <2>4, <2>6, <2>7, <3>0, <3>1, Taking
    <3>3. PICK i : i = CHOOSE id \in Unused : \A n \in Unused : id <= n
      OBVIOUS
    <3>4. i \in Unused /\ i \in Nat
      <4>1. Unused \in SUBSET Nat
        BY DEF Unused
      <4>2. \E id \in Unused : \A n \in Unused : id <= n
        BY <1>1, <4>1, LeastNatural
      <4> QED BY <3>3, <4>1, <4>2
    <3>5. PICK o : o = [id |-> i, at |-> x, size |-> size]
      OBVIOUS
    <3>6. /\ objects' = objects \cup {o} /\ o.at = x /\ o.size = size /\ o \notin objects
          /\ o \in [id : Nat, at : Object, size : Nat]
      BY <3>1, <3>2, <3>3, <3>4, <3>5 DEF Unused
    <3>7. /\ InUse(t)' = InUse(t) \cup {o}
          /\ \A r \in Slabs : r # t /\ r <= Deep => InUse(r)' = InUse(r)
      <4>1. \A r \in Slabs : r # t /\ r <= Deep => Home(r) # p
        BY <2>4, <2>5, Seats
      <4> QED BY <1>1, <2>5, <3>2, <3>6, <4>1 DEF InUse
    <3>8. Taken(t)' = Taken(t) \cup {x}
      BY <2>4, <2>12, <3>6, <3>7 DEF Taken
    <3>9. IsFiniteSet(objects') /\ IsFiniteSet(InUse(t))
      BY <2>11, <3>6, FS_AddElement, FS_Subset DEF InUse
    <3>10. o.size <= ObjSize[slab[o.at.frame]]
      <4>1. slab[p] >= s /\ slab[p] \in Slabs
        <5>1. slab[Home(s)] >= s /\ slab[p] \in 0..SlabCount
          BY <2>1, <2>2, <2>6 DEF HeapInv, PagesInv, PagesTyped
        <5> QED BY <2>1, <2>2, <2>4, <2>5, <5>1 DEF Slabs
      <4>2. PICK z : z = slab[p]
        OBVIOUS
      <4>3. ObjSize[s] <= ObjSize[z] /\ ObjSize[s] \in Nat /\ ObjSize[z] \in Nat
        BY <2>1, <4>1, <4>2, HeapAssumption, PerPageSizes
      <4>4. size <= ObjSize[z]
        BY <2>1, <4>3
      <4> QED BY <3>2, <3>6, <4>2, <4>4
    <3>11. CASE Crowded(t)
      <4>1. CrowdAt(t)
        BY <2>7, <3>11 DEF ServedAt
      <4>2. /\ Cardinality(InUse(t)) <= c.index /\ Cardinality(InUse(t)) \in Nat
            /\ Cardinality(InUse(t) \cup {o}) = Cardinality(InUse(t)) + 1
        <5>1. o \notin InUse(t)
          BY <3>6 DEF InUse
        <5> QED BY <2>5, <2>6, <3>9, <4>1, <5>1, FS_CardinalityType, FS_AddElement DEF CrowdAt
      <4>3. CrowdAt(t)'
        BY <2>4, <2>5, <2>9, <2>10, <3>2, <3>7, <4>2 DEF CrowdAt
      <4>4. ServedAt(t)'
        BY <2>4, <2>12, <3>11, <4>3 DEF ServedAt
      <4>5. ObjectsInv'
        <5>1. \A r \in Slabs : r <= Deep /\ ~Crowded(r) => InUse(r)' = InUse(r)
          BY <3>7, <3>11
        <5> QED BY <1>1, <2>2, <2>4, <2>5, <2>11, <2>12, <3>2, <3>6, <3>9, <3>10, <5>1 DEF ObjectsInv
      <4> QED BY <1>1, <2>2, <2>4, <2>5, <2>9, <2>12, <3>1, <3>7, <4>4, <4>5, ServiceSteps
    <3>12. CASE ~Crowded(t)
      <4>1. Sound(t, p, c, Taken(t))
        BY <2>5, <2>6, <2>7, <3>12 DEF ServedAt, CacheAt
      <4>2. x \in Filled(t, p) \ Taken(t) /\ Sound(t, p, d, Taken(t) \cup {x})
        BY <2>4, <2>6, <2>8, <3>0, <3>2, <4>1, GetSound
      <4>3. CacheAt(t)'
        BY <2>4, <2>5, <2>9, <2>10, <3>2, <3>8, <4>2 DEF CacheAt
      <4>4. ServedAt(t)'
        BY <2>4, <2>12, <3>12, <4>3 DEF ServedAt
      <4>5. ObjectsInv'
        <5>1. \A o2 \in InUse(t) : o2.at # x
          BY <4>2 DEF Taken
        <5>2. x \notin dropped
          BY <2>5, <3>2, <4>2 DEF Taken, Lost
        <5>3. ASSUME NEW r \in Slabs, r <= Deep, ~Crowded(r)
              PROVE  /\ \A o1, o2 \in InUse(r)' : o1.at = o2.at => o1 = o2
                     /\ \A o1 \in InUse(r)' : o1.at \notin dropped
          <6>1. CASE r = t
            BY <2>11, <3>6, <3>7, <5>1, <5>2, <5>3, <6>1
          <6>2. CASE r # t
            BY <2>11, <3>7, <5>3, <6>2
          <6> QED BY <6>1, <6>2
        <5> QED BY <1>1, <2>2, <2>4, <2>5, <2>11, <2>12, <3>2, <3>6, <3>9, <3>10, <5>3 DEF ObjectsInv
      <4> QED BY <1>1, <2>2, <2>4, <2>5, <2>9, <2>12, <3>1, <3>7, <4>4, <4>5, ServiceSteps
    <3> QED BY <3>11, <3>12
  <2> QED BY <2>20, <2>21
<1> QED BY <1>1, <1>2, <1>3

\* kfree.
LEMMA KfreeSteps ==
  ASSUME Levels > 1, HeapInv, NEW o, Kfree(o)
  PROVE  HeapInv' /\ job' = job
<1>0. PICK s, i : s = vmm_virt2slab(o.at) /\ i = store[cache[s]].index - 1
  OBVIOUS
<1>1. /\ job = "none" /\ o \in objects /\ objects' = objects \ {o}
      /\ UNCHANGED <<front, freed, mine, slab_i, buddy, slab, cache>>
      /\ \/ s = 0 /\ dropped' = dropped \cup {o.at} /\ UNCHANGED <<job, store>>
         \/ /\ s # 0
            /\ IF i < 0 THEN job' = "panic" /\ UNCHANGED store
               ELSE /\ store' = [store EXCEPT ![cache[s]].index = i,
                                              ![cache[s]].entries = StoreEntry(@, i, o.at)]
                    /\ UNCHANGED job
            /\ UNCHANGED dropped
  BY <1>0 DEF Kfree, pages
<1>2. PICK t \in Slabs :
        /\ t < slab_i /\ t <= Deep /\ slab_i = SlabCount + 1 /\ o.at \in Object
        /\ o.at.frame = Home(t) /\ slab[Home(t)] \in Slabs /\ slab[Home(t)] >= t
        /\ Home(slab[Home(t)]) = Home(t) /\ cache[slab[Home(t)]] = CachePage(t)
        /\ vmm_virt2slab(o.at) = IF Behind(o.at) THEN 0 ELSE slab[Home(t)]
  BY <1>1, Lookup
<1>3. PICK p, q : p = Home(t) /\ q = CachePage(t)
  OBVIOUS
<1>4. /\ p \in PageFrames /\ q \in PageFrames /\ DOMAIN store = PageFrames /\ t \in Nat
      /\ ServedAt(t) /\ 0 \notin Slabs
  BY <1>2, <1>3, SlabPage, HeapAssumption DEF HeapInv, Served, Slabs
<1>5. PICK c : c = store[q]
  OBVIOUS
<1>6. /\ c \in CacheT(t, p) /\ c.index \in Nat /\ PerPage(t) \in Nat
      /\ c.entries \in [Places(t) -> InPage(p)]
  <2>1. c \in CacheT(t, p)
    BY <1>3, <1>4, <1>5 DEF ServedAt, CrowdAt, CacheAt, Sound
  <2> QED BY <2>1, PerPageSizes DEF CacheT
<1>7. /\ IsFiniteSet(objects)
      /\ \A o1 \in objects :
           /\ o1 \in [id : Nat, at : Object, size : Nat]
           /\ o1.size <= ObjSize[slab[o1.at.frame]]
           /\ \E r \in Slabs : r < slab_i /\ r <= Deep /\ o1.at.frame = Home(r)
      /\ \A r \in Slabs : r <= Deep /\ ~Crowded(r) =>
           /\ \A o1, o2 \in InUse(r) : o1.at = o2.at => o1 = o2
           /\ \A o1 \in InUse(r) : o1.at \notin dropped
      /\ \A x \in dropped : x \in Object /\ Behind(x)
  BY DEF HeapInv, ObjectsInv
<1>8. \A r \in Slabs : r # t /\ r <= Deep => Home(r) # p
  BY <1>2, <1>3, Seats
<1>9. /\ InUse(t)' = InUse(t) \ {o} /\ o \in InUse(t)
      /\ \A r \in Slabs : r # t /\ r <= Deep => InUse(r)' = InUse(r)
  BY <1>1, <1>2, <1>3, <1>8 DEF InUse
<1>10. /\ \A r \in Slabs : Crowded(r)' <=> Crowded(r)
       /\ IsFiniteSet(objects') /\ IsFiniteSet(InUse(t))
  <2>1. InUse(t) \subseteq objects
    BY DEF InUse
  <2> QED BY <1>1, <1>7, <2>1, FS_RemoveElement, FS_Subset DEF Crowded
<1>11. Cardinality(InUse(t)) \in Nat \ {0} /\ Cardinality(InUse(t)') = Cardinality(InUse(t)) - 1
  <2>1. Cardinality(InUse(t)) \in Nat /\ Cardinality(InUse(t) \ {o}) = Cardinality(InUse(t)) - 1
    BY <1>9, <1>10, FS_RemoveElement, FS_CardinalityType
  <2>2. Cardinality(InUse(t)) # 0
    BY <1>9, <1>10, FS_EmptySet
  <2> QED BY <1>9, <2>1, <2>2
<1>12. ~Crowded(t) => /\ \A o1 \in InUse(t) : o1.at = o.at => o1 = o
                      /\ o.at \notin dropped /\ o.at \in Taken(t)
  BY <1>2, <1>7, <1>9 DEF Taken
<1>13. c.index <= PerPage(t)
  <2>1. CASE Crowded(t)
    BY <1>1, <1>3, <1>4, <1>5, <1>9, <2>1 DEF ServedAt, CrowdAt
  <2>2. CASE ~Crowded(t)
    BY <1>1, <1>3, <1>4, <1>5, <1>12, <2>2 DEF ServedAt, CacheAt
  <2> QED BY <2>1, <2>2
<1>14. CASE Behind(o.at)
  <2>1. dropped' = dropped \cup {o.at} /\ UNCHANGED <<job, store>>
    BY <1>0, <1>1, <1>2, <1>14
  <2>2. /\ Lost(t)' = Lost(t) \cup {o.at}
        /\ \A r \in Slabs : r # t /\ r <= Deep => Lost(r)' = Lost(r)
    BY <1>2, <1>3, <1>8, <2>1 DEF Lost
  <2>3. ObjectsInv'
    <3>1. ASSUME NEW r \in Slabs, r <= Deep, ~Crowded(r)
          PROVE  /\ \A o1, o2 \in InUse(r)' : o1.at = o2.at => o1 = o2
                 /\ \A o1 \in InUse(r)' : o1.at \notin dropped'
      <4>1. CASE r = t
        BY <1>7, <1>9, <1>12, <2>1, <3>1, <4>1
      <4>2. CASE r # t
        <5>1. \A o1 \in InUse(r) : o1.at # o.at
          BY <1>2, <1>3, <1>8, <3>1, <4>2 DEF InUse
        <5> QED BY <1>7, <1>9, <2>1, <3>1, <4>2, <5>1
      <4> QED BY <4>1, <4>2
    <3>2. \A x \in dropped' : x \in Object /\ Behind(x)
      BY <1>2, <1>7, <1>14, <2>1
    <3> QED BY <1>1, <1>7, <1>10, <3>1, <3>2 DEF ObjectsInv
  <2>4. ServedAt(t)'
    <3>1. CASE Crowded(t)
      <4>1. CrowdAt(t)
        BY <1>4, <3>1 DEF ServedAt
      <4>2. CrowdAt(t)'
        BY <1>3, <1>5, <1>6, <1>11, <1>13, <2>1, <4>1 DEF CrowdAt
      <4> QED BY <1>2, <1>10, <3>1, <4>2 DEF ServedAt
    <3>2. CASE ~Crowded(t)
      <4>1. Taken(t)' = Taken(t)
        <5>1. Taken(t)' = {o1.at : o1 \in InUse(t) \ {o}} \cup (Lost(t) \cup {o.at})
          BY <1>9, <2>2 DEF Taken
        <5> QED BY <1>9, <5>1 DEF Taken
      <4>2. CacheAt(t)
        BY <1>4, <3>2 DEF ServedAt
      <4>3. CacheAt(t)'
        BY <2>1, <4>1, <4>2 DEF CacheAt
      <4> QED BY <1>2, <1>10, <3>2, <4>3 DEF ServedAt
    <3> QED BY <3>1, <3>2
  <2>5. DOMAIN store' = PageFrames
    BY <1>4, <2>1
  <2>6. HeapInv'
    BY <1>1, <1>2, <1>9, <2>1, <2>2, <2>3, <2>4, <2>5, ServiceSteps
  <2> QED BY <2>1, <2>6
<1>15. CASE ~Behind(o.at)
  <2>1. s \in Slabs /\ s # 0 /\ cache[s] = q /\ i = c.index - 1
    BY <1>0, <1>2, <1>3, <1>4, <1>5, <1>15
  <2>2. PICK d : d = [c EXCEPT !.index = c.index - 1, !.entries = StoreEntry(@, c.index - 1, o.at)]
    OBVIOUS
  <2>3. i \in Nat
    <3>1. CASE Crowded(t)
      <4>1. Cardinality(InUse(t)) <= c.index
        BY <1>3, <1>4, <1>5, <3>1 DEF ServedAt, CrowdAt
      <4> QED BY <1>6, <1>11, <2>1, <4>1
    <3>2. CASE ~Crowded(t)
      <4>1. Sound(t, p, c, Taken(t))
        BY <1>3, <1>4, <1>5, <3>2 DEF ServedAt, CacheAt
      <4>2. c.index - 1 \in Nat
        BY <1>4, <1>12, <1>13, <2>2, <3>2, <4>1, PutSound
      <4> QED BY <2>1, <4>2
    <3> QED BY <3>1, <3>2
  <2>4. i \in Places(t)
    BY <1>6, <1>13, <2>1, <2>3 DEF Places
  <2>5. /\ store' = [store EXCEPT ![cache[s]].index = i,
                                  ![cache[s]].entries = StoreEntry(@, i, o.at)]
        /\ UNCHANGED <<job, dropped>>
    BY <1>1, <2>1, <2>3
  <2>6. /\ DOMAIN store' = PageFrames /\ \A r \in PageFrames : r # q => store'[r] = store[r]
        /\ store'[q] = d
    BY <1>4, <1>5, <2>1, <2>2, <2>5
  <2>7. d \in CacheT(t, p) /\ d.index = c.index - 1
    <3>1. PICK g : g = StoreEntry(c.entries, i, o.at)
      OBVIOUS
    <3>2. o.at \in InPage(p)
      BY <1>2, <1>3 DEF InPage, Object
    <3>3. g \in [Places(t) -> InPage(p)]
      BY <1>6, <2>4, <3>1, <3>2, EntryStored
    <3>4. d = [c EXCEPT !.index = i, !.entries = g]
      BY <2>1, <2>2, <3>1
    <3> QED BY <1>6, <2>1, <2>3, <3>3, <3>4 DEF CacheT
  <2>8. \A r \in Slabs : Lost(r)' = Lost(r)
    BY <2>5 DEF Lost
  <2>9. ObjectsInv'
    <3>1. ASSUME NEW r \in Slabs, r <= Deep, ~Crowded(r)
          PROVE  /\ \A o1, o2 \in InUse(r)' : o1.at = o2.at => o1 = o2
                 /\ \A o1 \in InUse(r)' : o1.at \notin dropped'
      <4>1. InUse(r)' \subseteq InUse(r)
        BY <1>9, <3>1
      <4> QED BY <1>7, <2>5, <3>1, <4>1
    <3> QED BY <1>1, <1>7, <1>10, <2>5, <3>1 DEF ObjectsInv
  <2>10. ServedAt(t)'
    <3>1. CASE Crowded(t)
      <4>1. Cardinality(InUse(t)) <= c.index
        BY <1>3, <1>4, <1>5, <3>1 DEF ServedAt, CrowdAt
      <4>2. CrowdAt(t)'
        BY <1>3, <1>6, <1>11, <1>13, <2>6, <2>7, <4>1 DEF CrowdAt
      <4> QED BY <1>2, <1>10, <3>1, <4>2 DEF ServedAt
    <3>2. CASE ~Crowded(t)
      <4>1. Sound(t, p, c, Taken(t))
        BY <1>3, <1>4, <1>5, <3>2 DEF ServedAt, CacheAt
      <4>2. Sound(t, p, d, Taken(t) \ {o.at})
        BY <1>4, <1>12, <1>13, <2>2, <3>2, <4>1, PutSound
      <4>3. Taken(t)' = Taken(t) \ {o.at}
        <5>1. Taken(t)' = {o1.at : o1 \in InUse(t) \ {o}} \cup Lost(t)
          BY <1>2, <1>9, <2>8 DEF Taken
        <5>2. o.at \notin Lost(t)
          BY <1>12, <3>2 DEF Lost
        <5> QED BY <1>9, <1>12, <3>2, <5>1, <5>2 DEF Taken
      <4>4. CacheAt(t)'
        BY <1>3, <1>6, <1>13, <2>6, <2>7, <4>2, <4>3 DEF CacheAt
      <4> QED BY <1>2, <1>10, <3>2, <4>4 DEF ServedAt
    <3> QED BY <3>1, <3>2
  <2>11. HeapInv'
    BY <1>1, <1>2, <1>3, <1>9, <2>5, <2>6, <2>8, <2>9, <2>10, ServiceSteps
  <2> QED BY <2>5, <2>11
<1> QED BY <1>14, <1>15

\* Every step of the allocator keeps the invariant, if init_slab gets for every
\* slab the two pages that are its own by the order in which they are handed out.
LEMMA HeapInvNext ==
  ASSUME Levels > 1, Ind, HeapInv, [HeapNext]_<<vars, heap>>,
         AllocCacheDone /\ Page # NULL => Page = CachePage(slab_i),
         FillCache /\ Page # NULL => Page = Home(slab_i)
  PROVE  HeapInv'
<1> USE DEF pages
<1>0. /\ job \in Jobs /\ {mine, freed} \subseteq PageFrames \cup {NULL}
      /\ buddy \in [PageFrames -> BOOLEAN] /\ slab \in [PageFrames -> 0..SlabCount]
      /\ SlabCount \in Nat \ {0}
      /\ job = "page_free" => mine # NULL
      /\ job \in {"page_alloc", "page_free"} => slab_i = 0
      /\ job \in {"init", "alloc_cache", "objects", "fill"} => slab_i \in Slabs
      /\ slab_i \in Slabs => slab_i # 0 /\ slab_i <= SlabCount
      /\ slab_i \in Slabs /\ job \in {"objects", "fill"} => cache[slab_i] # NULL
  BY HeapAssumption DEF HeapInv, Phases, PagesInv, PagesTyped, Served, Slabs
<1>1. ASSUME UNCHANGED heap PROVE HeapInv'
  <2>1. Phases'
    BY <1>1 DEF heap, HeapInv, Phases, TooFar, Ready, CacheOf, Crowded
  <2> QED BY <1>0, <1>1, <2>1, KeptSteps DEF heap
<1>2. ASSUME NEW n \in PageCounts, PageAlloc(n) PROVE HeapInv'
  <2>1. job' \in {"fault", "page_alloc", "none"}
    BY <1>2, JobAfterAlloc DEF PageAlloc
  <2> QED BY <1>0, <1>2, <2>1, OpeningSteps DEF PageAlloc, Jobs
<1>3. ASSUME PageAllocDone PROVE HeapInv'
  <2>1. PICK p : p = Page
    OBVIOUS
  <2>2. /\ p \in PageFrames \cup {NULL} /\ mine' = p
        /\ buddy' = IF p = NULL THEN buddy ELSE [buddy EXCEPT ![p] = TRUE]
    BY <1>3, <2>1, PageReturned DEF PageAllocDone, Owned
  <2>3. job = "page_alloc" /\ job' = "none" /\ UNCHANGED <<freed, slab_i, slab, cache, store, objects, dropped>>
    BY <1>3 DEF PageAllocDone, Returned
  <2>4. buddy' \in [PageFrames -> BOOLEAN]
    BY <1>0, <2>2
  <2> QED BY <1>0, <2>2, <2>3, <2>4, OpeningSteps DEF Jobs
<1>4. ASSUME PageFree PROVE HeapInv'
  BY <1>0, <1>4, OpeningSteps DEF PageFree, Jobs
<1>5. ASSUME PageFreeDone PROVE HeapInv'
  <2>1. PICK m : m = mine
    OBVIOUS
  <2>2. /\ job = "page_free" /\ job' = "none" /\ UNCHANGED <<slab_i, cache, store, objects, dropped>>
        /\ mine' = NULL /\ freed' = m
        /\ buddy' = [buddy EXCEPT ![m] = FALSE] /\ slab' = [slab EXCEPT ![m] = 0]
    BY <1>5, <2>1 DEF PageFreeDone, Returned
  <2>3. /\ buddy' \in [PageFrames -> BOOLEAN] /\ slab' \in [PageFrames -> 0..SlabCount]
        /\ \A p \in PageFrames : slab'[p] \in {slab[p], 0}
    <3>1. m \in PageFrames /\ 0 \in 0..SlabCount
      BY <1>0, <2>1, <2>2
    <3>2. buddy' \in [PageFrames -> BOOLEAN]
      BY <1>0, <2>2, <3>1
    <3>3. /\ slab' \in [PageFrames -> 0..SlabCount]
          /\ \A p \in PageFrames : slab'[p] \in {slab[p], 0}
      <4>1. slab \in [PageFrames -> 0..SlabCount] /\ slab' = [slab EXCEPT ![m] = 0]
        BY <1>0, <2>2
      <4> QED BY <3>1, <4>1
    <3> QED BY <3>2, <3>3
  <2> QED BY <1>0, <2>1, <2>2, <2>3, OpeningSteps DEF Jobs
<1>6. ASSUME PageFreeAgain PROVE HeapInv'
  BY <1>0, <1>6, OpeningSteps DEF PageFreeAgain, Jobs
<1>7. ASSUME InitSlab PROVE HeapInv'
  <2>1. /\ job = "none" /\ slab_i = 0 /\ slab_i' = 1 /\ job' = "init"
        /\ UNCHANGED <<freed, mine, buddy, slab, cache, store, objects, dropped>>
    BY <1>7 DEF InitSlab
  <2>2. objects = {} /\ dropped = {}
    BY <1>0, <2>1 DEF HeapInv, Phases
  <2>3. 1 \in Slabs /\ \A s \in Slabs : s > 0 /\ ~(s < 1) /\ s >= 0 /\ ~(s < 0)
    BY HeapAssumption DEF Slabs
  <2>4. Phases'
    BY <1>0, <2>1, <2>2, <2>3 DEF Phases, Jobs, Slabs
  <2>5. PagesInv'
    <3>1. \A p \in PageFrames : slab[p] = 0
      BY <1>0, <2>1 DEF HeapInv, PagesInv, PagesTyped
    <3> QED BY <2>1, <2>3, <3>1 DEF HeapInv, PagesInv, PagesTyped
  <2>6. Served'
    BY <2>1, <2>3 DEF HeapInv, Served, Blank
  <2>7. ObjectsInv'
    BY <2>1, <2>2, FS_EmptySet DEF ObjectsInv, InUse
  <2> QED BY <2>4, <2>5, <2>6, <2>7 DEF HeapInv
<1>9. ASSUME AllocCache PROVE HeapInv'
  <2>1. job' \in {"fault", "alloc_cache", "panic"}
    BY <1>9, JobAfterAlloc DEF AllocCache
  <2> QED BY <1>0, <1>9, <2>1, OpeningSteps DEF AllocCache, Jobs
<1>10. ASSUME AllocObjects PROVE HeapInv'
  <2>1. job' \in {"fault", "fill", "panic"}
    BY <1>10, JobAfterAlloc DEF AllocObjects
  <2> QED BY <1>0, <1>10, <2>1, OpeningSteps DEF AllocObjects, Jobs
<1>11. ASSUME AllocCacheDone PROVE HeapInv'
  BY <1>11, CacheSteps
<1>12. ASSUME FillCache PROVE HeapInv'
  <2>1. CASE Page # NULL
    BY <1>12, <2>1, FillSteps
  <2>2. CASE Page = NULL
    <3>1. /\ job = "fill" /\ job' = "panic"
          /\ UNCHANGED <<mine, freed, slab_i, buddy, slab, cache, store, objects, dropped>>
      BY <1>12, <2>2 DEF FillCache, Returned, Owned
    <3> QED BY <1>0, <3>1, OpeningSteps DEF Jobs
  <2> QED BY <2>1, <2>2
<1>13. ASSUME NEW size \in AskedSizes, Kmalloc(size) PROVE HeapInv'
  <2>1. size \in Nat \ {0}
    BY HeapAssumption
  <2> QED BY <1>13, <2>1, KmallocSteps
<1>14. ASSUME NEW o \in objects, Kfree(o) PROVE HeapInv'
  BY <1>14, KfreeSteps
<1>15. CASE HeapNext
  BY <1>15, <1>1, <1>2, <1>3, <1>4, <1>5, <1>6, <1>7, <1>9, <1>10, <1>11, <1>12, <1>13, <1>14
     DEF HeapNext
<1>16. CASE UNCHANGED <<vars, heap>>
  BY <1>1, <1>16
<1> QED BY <1>15, <1>16

-----------------------------------------------------------------------------
\* The types need nothing of the pages: page_alloc may hand out one twice, and
\* a cache may have the entries of any slabs.
Entries == UNION {[D -> Object] : D \in SUBSET Nat}
CacheRec == [index : Nat, entries_sz : Nat, entries : Entries]
Cached == {p \in PageFrames : store[p] # NoCache}
Full(s) == cache[s] \in Cached /\ Places(s) \subseteq DOMAIN store[cache[s]].entries
JobAt(j, i) ==
  /\ j \in Jobs /\ i \in 0..(SlabCount + 1)
  /\ j \in {"page_alloc", "page_free"} => i = 0
  /\ j \in {"init", "alloc_cache", "objects", "fill"} => i \in Slabs
  /\ j = "none" => i \in {0, SlabCount + 1}
TypeInv ==
  /\ JobAt(job, slab_i)
  /\ PagesTyped
  /\ DOMAIN cache = Slabs
  /\ store \in [PageFrames -> {NoCache} \cup CacheRec]
  /\ \A s \in Slabs : s < slab_i => Full(s)
  /\ \A s \in Slabs : s > slab_i => cache[s] = NULL
  /\ slab_i \in Slabs => cache[slab_i] \in {NULL} \cup Cached
  /\ job \in {"objects", "fill"} => cache[slab_i] # NULL
  /\ \A o \in objects : o.at \in Object

LEMMA RecordsAreCaches ==
  /\ NoCache \notin CacheRec
  /\ \A c \in CacheRec : /\ c.index \in Nat /\ DOMAIN c.entries \subseteq Nat
                         /\ \A e \in DOMAIN c.entries : c.entries[e] \in Object
  /\ \A c \in CacheRec, i \in Nat, f \in Entries :
       /\ [c EXCEPT !.index = i] \in CacheRec /\ [c EXCEPT !.index = i].entries = c.entries
       /\ [c EXCEPT !.entries = f] \in CacheRec /\ [c EXCEPT !.entries = f].entries = f
       /\ [c EXCEPT !.index = i, !.entries = f] \in CacheRec
       /\ [c EXCEPT !.index = i, !.entries = f].entries = f
<1>1. NoCache \notin CacheRec
  BY DEF NoCache, CacheRec
<1>2. ASSUME NEW c \in CacheRec
      PROVE  /\ c.index \in Nat /\ DOMAIN c.entries \subseteq Nat
             /\ \A e \in DOMAIN c.entries : c.entries[e] \in Object
  <2>1. c.index \in Nat /\ c.entries \in Entries
    BY DEF CacheRec
  <2>2. PICK D \in SUBSET Nat : c.entries \in [D -> Object]
    BY <2>1 DEF Entries
  <2> QED BY <2>1, <2>2
<1>3. ASSUME NEW c \in CacheRec, NEW i \in Nat, NEW f \in Entries
      PROVE  /\ [c EXCEPT !.index = i] \in CacheRec /\ [c EXCEPT !.index = i].entries = c.entries
             /\ [c EXCEPT !.entries = f] \in CacheRec /\ [c EXCEPT !.entries = f].entries = f
             /\ [c EXCEPT !.index = i, !.entries = f] \in CacheRec
             /\ [c EXCEPT !.index = i, !.entries = f].entries = f
  BY DEF CacheRec
<1> QED BY <1>1, <1>2, <1>3

LEMMA EntriesStored ==
  ASSUME NEW f \in Entries
  PROVE  /\ \A e \in Nat, x \in Object :
              StoreEntry(f, e, x) \in Entries /\ DOMAIN StoreEntry(f, e, x) = DOMAIN f \cup {e}
         /\ \A g \in Entries :
              StoreEntries(f, g) \in Entries /\ DOMAIN StoreEntries(f, g) = DOMAIN f \cup DOMAIN g
<1>1. PICK D \in SUBSET Nat : f \in [D -> Object]
  BY DEF Entries
<1>2. ASSUME NEW e \in Nat, NEW x \in Object
      PROVE  StoreEntry(f, e, x) \in Entries /\ DOMAIN StoreEntry(f, e, x) = DOMAIN f \cup {e}
  <2>1. StoreEntry(f, e, x) \in [D \cup {e} -> Object]
    BY <1>1 DEF StoreEntry
  <2> QED BY <1>1, <2>1 DEF Entries
<1>3. ASSUME NEW g \in Entries
      PROVE  StoreEntries(f, g) \in Entries /\ DOMAIN StoreEntries(f, g) = DOMAIN f \cup DOMAIN g
  <2>1. PICK E \in SUBSET Nat : g \in [E -> Object]
    BY DEF Entries
  <2>2. StoreEntries(f, g) \in [D \cup E -> Object]
    BY <1>1, <2>1 DEF StoreEntries
  <2> QED BY <1>1, <2>1, <2>2 DEF Entries
<1> QED BY <1>2, <1>3

LEMMA TypeInit == HeapInit => TypeInv
<1> SUFFICES ASSUME HeapInit PROVE TypeInv
  OBVIOUS
<1>1. /\ slab_i = 0 /\ job = "none" /\ mine = NULL /\ freed = NULL /\ objects = {}
      /\ buddy = [p \in PageFrames |-> FALSE] /\ slab = [p \in PageFrames |-> 0]
      /\ cache = [s \in Slabs |-> NULL] /\ store = [p \in PageFrames |-> NoCache]
  BY DEF HeapInit
<1>2. SlabCount \in Nat /\ 0 \notin Slabs /\ \A s \in Slabs : s \in Nat /\ ~(s < 0)
  BY HeapAssumption DEF Slabs
<1>3. JobAt(job, slab_i)
  BY <1>1, <1>2 DEF JobAt, Jobs
<1>4. PagesTyped
  BY <1>1, <1>2 DEF PagesTyped
<1> QED BY <1>1, <1>2, <1>3, <1>4 DEF TypeInv

\* A cache is written, and keeps the entries it has.
LEMMA TypeStored ==
  ASSUME TypeInv, NEW q \in PageFrames, NEW d \in CacheRec, store' = [store EXCEPT ![q] = d],
         store[q] # NoCache => DOMAIN store[q].entries \subseteq DOMAIN d.entries
  PROVE  /\ store' \in [PageFrames -> {NoCache} \cup CacheRec] /\ store'[q] = d
         /\ Cached \cup {q} \subseteq Cached'
         /\ \A s \in Slabs : Full(s) /\ cache'[s] = cache[s] => Full(s)'
<1>1. /\ store' \in [PageFrames -> {NoCache} \cup CacheRec] /\ store'[q] = d
      /\ \A p \in PageFrames : p # q => store'[p] = store[p]
  BY DEF TypeInv
<1>2. d # NoCache
  BY RecordsAreCaches
<1>3. Cached \cup {q} \subseteq Cached'
  BY <1>1, <1>2 DEF Cached
<1>4. \A p \in Cached : DOMAIN store[p].entries \subseteq DOMAIN store'[p].entries
  BY <1>1 DEF Cached
<1>5. ASSUME NEW s \in Slabs, Full(s), cache'[s] = cache[s] PROVE Full(s)'
  <2>1. PICK p : p = cache[s]
    OBVIOUS
  <2>2. p \in Cached /\ p \in Cached' /\ Places(s) \subseteq DOMAIN store'[p].entries
    BY <1>3, <1>4, <1>5, <2>1 DEF Full
  <2> QED BY <1>5, <2>1, <2>2 DEF Full
<1> QED BY <1>1, <1>3, <1>5

\* Steps that leave the pages and the caches alone.
LEMMA TypeKept ==
  ASSUME TypeInv, UNCHANGED <<slab_i, slab, cache, store>>, JobAt(job', slab_i),
         job' \in {"objects", "fill"} => job' = job \/ job = "objects",
         {mine', freed'} \subseteq PageFrames \cup {NULL}, buddy' \in [PageFrames -> BOOLEAN],
         \A o \in objects' : o.at \in Object
  PROVE  TypeInv'
<1>1. JobAt(job, slab_i)'
  BY DEF JobAt
<1>2. PagesTyped'
  BY DEF TypeInv, PagesTyped
<1>3. Cached' = Cached /\ \A s \in Slabs : Full(s) => Full(s)'
  BY DEF Full, Cached
<1>5. job' \in {"objects", "fill"} => cache'[slab_i'] # NULL
  BY DEF TypeInv
<1> QED BY <1>1, <1>2, <1>3, <1>5 DEF TypeInv

\* Steps of kmalloc and kfree that write a cache.
LEMMA TypeService ==
  ASSUME TypeInv, UNCHANGED <<slab_i, slab, cache, mine, freed, buddy>>, slab_i = SlabCount + 1,
         job' \in {"none", "wild", "overrun"},
         NEW q \in PageFrames, NEW d \in CacheRec, store' = [store EXCEPT ![q] = d],
         store[q] # NoCache => DOMAIN store[q].entries \subseteq DOMAIN d.entries,
         \A o \in objects' : o.at \in Object
  PROVE  TypeInv'
<1>1. SlabCount \in Nat \ {0} /\ \A r \in Slabs : r \in Nat /\ r < SlabCount + 1
  BY HeapAssumption DEF Slabs
<1>2. JobAt(job, slab_i)'
  BY <1>1 DEF JobAt, Jobs
<1>3. PagesTyped'
  BY DEF TypeInv, PagesTyped
<1>4. /\ store' \in [PageFrames -> {NoCache} \cup CacheRec]
      /\ \A s \in Slabs : Full(s) => Full(s)'
  BY TypeStored
<1>5. SlabCount + 1 \notin Slabs /\ \A r \in Slabs : ~(r > SlabCount + 1)
  BY <1>1 DEF Slabs
<1> QED BY <1>1, <1>2, <1>3, <1>4, <1>5 DEF TypeInv

LEMMA TypeKmalloc ==
  ASSUME TypeInv, NEW size, Kmalloc(size)
  PROVE  TypeInv'
<1>1. PICK s, c : /\ s = kmalloc_index(size)
                  /\ c = IF s \in Slabs /\ cache[s] # NULL THEN store[cache[s]] ELSE NoCache
  OBVIOUS
<1>2. /\ job = "none" /\ UNCHANGED <<front, freed, mine, slab_i, buddy, slab, cache>>
      /\ \/ c = NoCache /\ job' = "no_cache" /\ UNCHANGED <<store, objects>>
         \/ /\ c # NoCache
            /\ store' = [store EXCEPT ![cache[s]].index = @ + 1]
            /\ job' \in {job, "wild", "overrun"}
            /\ \A o \in objects' : o \in objects \/
                 (c.index \in DOMAIN c.entries /\ o.at = c.entries[c.index])
  <2>1. \/ c = NoCache /\ job' = "no_cache" /\ UNCHANGED <<store, objects>>
        \/ /\ c # NoCache
           /\ store' = [store EXCEPT ![cache[s]].index = @ + 1]
           /\ \/ c.index \notin DOMAIN c.entries /\ job' = "wild" /\ UNCHANGED objects
              \/ c.index \in DOMAIN c.entries /\ job' = "overrun" /\ UNCHANGED objects
              \/ /\ c.index \in DOMAIN c.entries
                 /\ \E i : objects' = objects \cup {[id |-> i, at |-> c.entries[c.index], size |-> size]}
                 /\ UNCHANGED job
    BY <1>1 DEF Kmalloc
  <2>2. \A i, x : [id |-> i, at |-> x, size |-> size].at = x
    OBVIOUS
  <2>3. job = "none" /\ UNCHANGED <<front, freed, mine, slab_i, buddy, slab, cache>>
    BY DEF Kmalloc, pages
  <2> QED BY <2>1, <2>2, <2>3
<1>3. /\ slab_i \in {0, SlabCount + 1} /\ DOMAIN cache = Slabs
      /\ {mine, freed} \subseteq PageFrames \cup {NULL} /\ buddy \in [PageFrames -> BOOLEAN]
      /\ \A o \in objects : o.at \in Object
  BY <1>2 DEF TypeInv, JobAt, PagesTyped
<1>4. CASE c = NoCache /\ job' = "no_cache" /\ UNCHANGED <<store, objects>>
  <2>1. JobAt(job', slab_i)
    BY <1>3, <1>4, HeapAssumption DEF JobAt, Jobs
  <2> QED BY <1>2, <1>3, <1>4, <2>1, TypeKept
<1>5. CASE c # NoCache
  <2>1. s \in Slabs /\ cache[s] # NULL /\ s \in Nat \ {0} /\ s <= SlabCount
    BY <1>1, <1>5, HeapAssumption DEF Slabs
  <2>2. slab_i = SlabCount + 1 /\ s < slab_i
    BY <1>3, <2>1, HeapAssumption DEF TypeInv
  <2>3. PICK q : q = cache[s]
    OBVIOUS
  <2>4. q \in PageFrames /\ c = store[q] /\ c \in CacheRec /\ store \in [PageFrames -> {NoCache} \cup CacheRec]
    BY <1>1, <1>5, <2>1, <2>2, <2>3 DEF TypeInv, Full, Cached
  <2>5. PICK i, d : i = c.index + 1 /\ d = [c EXCEPT !.index = i]
    OBVIOUS
  <2>6. i \in Nat /\ c.entries \in Entries
    BY <2>4, <2>5 DEF CacheRec
  <2>7. d \in CacheRec /\ d.entries = c.entries
    BY <2>4, <2>5, <2>6 DEF CacheRec
  <2>8. store' = [store EXCEPT ![q] = d] /\ job' \in {"none", "wild", "overrun"}
    <3>1. store' = [store EXCEPT ![cache[s]].index = @ + 1] /\ job' \in {job, "wild", "overrun"}
      BY <1>2, <1>5
    <3>2. store' = [store EXCEPT ![q].index = @ + 1]
      BY <2>3, <3>1
    <3> QED BY <1>2, <2>4, <2>5, <3>1, <3>2
  <2>9. \A o \in objects' : o.at \in Object
    BY <1>2, <1>3, <1>5, <2>4, RecordsAreCaches
  <2> QED BY <1>2, <2>2, <2>4, <2>7, <2>8, <2>9, TypeService
<1> QED BY <1>2, <1>4, <1>5

LEMMA TypeKfree ==
  ASSUME TypeInv, NEW o, Kfree(o)
  PROVE  TypeInv'
<1>1. PICK s, i : s = vmm_virt2slab(o.at) /\ i = store[cache[s]].index - 1
  OBVIOUS
<1>2. /\ job = "none" /\ o \in objects /\ objects' = objects \ {o}
      /\ UNCHANGED <<front, freed, mine, slab_i, buddy, slab, cache>>
      /\ \/ s = 0 /\ UNCHANGED <<job, store>>
         \/ s # 0 /\ i < 0 /\ job' = "panic" /\ UNCHANGED store
         \/ /\ s # 0 /\ ~(i < 0)
            /\ store' = [store EXCEPT ![cache[s]].index = i,
                                      ![cache[s]].entries = StoreEntry(@, i, o.at)]
            /\ UNCHANGED job
  BY <1>1 DEF Kfree, pages
<1>3. /\ slab_i \in {0, SlabCount + 1} /\ DOMAIN cache = Slabs
      /\ {mine, freed} \subseteq PageFrames \cup {NULL} /\ buddy \in [PageFrames -> BOOLEAN]
      /\ o.at \in Object /\ \A x \in objects' : x.at \in Object
      /\ slab \in [PageFrames -> 0..SlabCount] /\ SlabCount \in Nat
      /\ JobAt(job, slab_i)
  BY <1>2, HeapAssumption DEF TypeInv, JobAt, PagesTyped
<1>4. CASE UNCHANGED store /\ job' \in {job, "panic"}
  <2>1. JobAt(job', slab_i)
    BY <1>3, <1>4 DEF JobAt, Jobs
  <2> QED BY <1>2, <1>3, <1>4, <2>1, TypeKept
<1>5. CASE s # 0 /\ ~(i < 0) /\ job' = job
           /\ store' = [store EXCEPT ![cache[s]].index = i,
                                     ![cache[s]].entries = StoreEntry(@, i, o.at)]
  <2>1. s \in Slabs /\ s < slab_i
    <3>1. pfn(o.at) \in PageFrames /\ s = slab[pfn(o.at)]
      BY <1>1, <1>5 DEF vmm_virt2slab, HasPage
    <3>2. s \in 0..SlabCount /\ (s < slab_i \/ s = 0)
      BY <1>3, <3>1 DEF TypeInv, PagesTyped
    <3> QED BY <1>3, <1>5, <3>2 DEF Slabs
  <2>2. slab_i = SlabCount + 1
    BY <1>3, <2>1, HeapAssumption DEF Slabs
  <2>3. PICK q, c : q = cache[s] /\ c = store[q]
    OBVIOUS
  <2>4. q \in PageFrames /\ c \in CacheRec /\ store \in [PageFrames -> {NoCache} \cup CacheRec]
    BY <2>1, <2>3 DEF TypeInv, Full, Cached
  <2>5. i \in Nat /\ c.entries \in Entries
    <3>1. c.index \in Nat /\ c.entries \in Entries /\ i = c.index - 1
      BY <1>1, <2>3, <2>4 DEF CacheRec
    <3> QED BY <1>5, <3>1
  <2>6. PICK f, x, g : f = c.entries /\ x = o.at /\ g = StoreEntry(f, i, x)
    OBVIOUS
  <2>7. g \in Entries /\ DOMAIN c.entries \subseteq DOMAIN g
    <3>1. f \in Entries /\ x \in Object
      BY <1>3, <2>5, <2>6
    <3>2. g \in Entries /\ DOMAIN g = DOMAIN f \cup {i}
      BY <2>5, <2>6, <3>1, EntriesStored
    <3> QED BY <2>6, <3>2
  <2>8. PICK d : d = [c EXCEPT !.index = i, !.entries = g]
    OBVIOUS
  <2>9. d \in CacheRec /\ d.entries = g
    BY <2>4, <2>5, <2>7, <2>8, RecordsAreCaches
  <2>10. store' = [store EXCEPT ![q] = d]
    BY <1>5, <2>3, <2>4, <2>6, <2>8 DEF CacheRec
  <2>11. job' \in {"none", "wild", "overrun"}
    BY <1>2, <1>5
  <2> QED BY <1>2, <1>3, <2>2, <2>3, <2>4, <2>7, <2>9, <2>10, <2>11, TypeService
<1> QED BY <1>2, <1>4, <1>5

\* Steps of init_slab that change something of a cache or of a page.
LEMMA TypeAllocCacheDone ==
  ASSUME Ind, TypeInv, AllocCacheDone
  PROVE  TypeInv'
<1>1. PICK k, p : k = slab_i /\ p = Page
  OBVIOUS
<1>2. /\ job = "alloc_cache" /\ UNCHANGED <<front, mine, freed, slab_i, slab, objects>>
      /\ buddy' = (IF p = NULL THEN buddy ELSE [buddy EXCEPT ![p] = TRUE])
  BY <1>1 DEF AllocCacheDone, Returned, Owned, pages
<1>3. /\ k \in Slabs /\ DOMAIN cache = Slabs /\ p \in PageFrames \cup {NULL}
      /\ {mine, freed} \subseteq PageFrames \cup {NULL} /\ buddy' \in [PageFrames -> BOOLEAN]
      /\ slab_i \in 0..(SlabCount + 1) /\ \A o \in objects : o.at \in Object
  BY <1>1, <1>2, PageReturned DEF TypeInv, JobAt, PagesTyped
<1>4. CASE p = NULL \/ ~Mapped(p)
  <2>1. job' = "panic" /\ cache' = cache /\ store' = store
    BY <1>1, <1>4 DEF AllocCacheDone
  <2> QED BY <1>2, <1>3, <2>1, TypeKept DEF JobAt, Jobs
<1>5. CASE ~(p = NULL \/ ~Mapped(p))
  <2>1. /\ job' = "objects" /\ cache' = [cache EXCEPT ![k] = vmm_virt2phys(p)]
        /\ \/ store[p] # NoCache /\ UNCHANGED store
           \/ store[p] = NoCache /\ \E index, sz \in Garbage :
                store' = [store EXCEPT ![p] = [index |-> index, entries_sz |-> sz,
                                               entries |-> <<>>]]
    BY <1>1, <1>5 DEF AllocCacheDone
  <2>2. p \in PageFrames /\ vmm_virt2phys(p) = p /\ p # NULL
    BY <1>3, <1>5, MappedPage
  <2>3. /\ DOMAIN cache' = Slabs /\ cache'[k] = p
        /\ \A s \in Slabs : s # k => cache'[s] = cache[s]
    BY <1>3, <2>1, <2>2
  <2>4. /\ store' \in [PageFrames -> {NoCache} \cup CacheRec] /\ p \in Cached'
        /\ \A s \in Slabs : Full(s) /\ cache'[s] = cache[s] => Full(s)'
    <3>1. CASE store[p] # NoCache /\ UNCHANGED store
      <4>1. p \in Cached' /\ store \in [PageFrames -> {NoCache} \cup CacheRec]
        BY <2>2, <3>1 DEF Cached, TypeInv
      <4>2. \A s \in Slabs : Full(s) /\ cache'[s] = cache[s] => Full(s)'
        BY <3>1 DEF Full, Cached
      <4> QED BY <3>1, <4>1, <4>2
    <3>2. CASE store[p] = NoCache
      <4>1. PICK index \in Garbage, sz \in Garbage :
              store' = [store EXCEPT ![p] = [index |-> index, entries_sz |-> sz, entries |-> <<>>]]
        BY <2>1, <3>2
      <4>2. PICK d : d = [index |-> index, entries_sz |-> sz, entries |-> <<>>]
        OBVIOUS
      <4>3. <<>> \in [{} -> Object]
        OBVIOUS
      <4>4. d \in CacheRec
        BY <4>2, <4>3, HeapAssumption DEF CacheRec, Entries
      <4> QED BY <2>2, <3>2, <4>1, <4>2, <4>4, TypeStored
    <3> QED BY <2>1, <3>1, <3>2
  <2>5. JobAt(job, slab_i)'
    BY <1>1, <1>2, <1>3, <2>1 DEF JobAt, Jobs
  <2>6. PagesTyped'
    BY <1>2, <1>3 DEF TypeInv, PagesTyped
  <2>7. \A s \in Slabs : s \in Nat /\ (s > k \/ s < k => s # k)
    BY DEF Slabs
  <2> QED BY <1>1, <1>2, <1>3, <2>2, <2>3, <2>4, <2>5, <2>6, <2>7 DEF TypeInv
<1> QED BY <1>4, <1>5

LEMMA TypeFillCache ==
  ASSUME Ind, TypeInv, FillCache
  PROVE  TypeInv'
<1>1. PICK k, p, q : k = slab_i /\ p = Page /\ q = cache[k]
  OBVIOUS
<1>2. /\ job = "fill" /\ UNCHANGED <<front, mine, freed, cache, objects>>
      /\ buddy' = (IF p = NULL THEN buddy ELSE [buddy EXCEPT ![p] = TRUE])
  BY <1>1 DEF FillCache, Returned, Owned, pages
<1>3. /\ k \in Slabs /\ k \in 1..SlabCount /\ SlabCount \in Nat /\ DOMAIN cache = Slabs
      /\ {mine, freed} \subseteq PageFrames \cup {NULL} /\ buddy' \in [PageFrames -> BOOLEAN]
      /\ slab \in [PageFrames -> 0..SlabCount] /\ p \in PageFrames \cup {NULL}
      /\ \A o \in objects : o.at \in Object
  BY <1>1, <1>2, PageReturned, HeapAssumption DEF TypeInv, JobAt, PagesTyped, Slabs
<1>4. CASE p = NULL
  <2>1. job' = "panic" /\ UNCHANGED <<slab_i, slab, store>>
    BY <1>1, <1>4 DEF FillCache
  <2>2. JobAt("panic", slab_i)
    BY <1>1, <1>3 DEF JobAt, Jobs
  <2> QED BY <1>2, <1>3, <2>1, <2>2, TypeKept
<1>5. CASE p # NULL
  <2>1. /\ job' = (IF k = SlabCount THEN "none" ELSE "init") /\ slab_i' = k + 1
        /\ slab' = [slab EXCEPT ![p] = k]
        /\ store' = [store EXCEPT ![q].entries = StoreEntries(@, fill_cache(k, p))]
    BY <1>1, <1>5 DEF FillCache
  <2>2. p \in PageFrames
    BY <1>3, <1>5
  <2>3. /\ \A s \in Slabs : s < k => Full(s)
        /\ \A s \in Slabs : s > k => cache[s] = NULL
        /\ \A r \in PageFrames : slab[r] < k \/ slab[r] = 0
        /\ q \in Cached
    BY <1>1, <1>2, <1>3 DEF TypeInv, PagesTyped
  <2>4. /\ slab' \in [PageFrames -> 0..SlabCount] /\ slab'[p] = k
        /\ \A r \in PageFrames : r # p => slab'[r] = slab[r]
    BY <1>3, <2>1, <2>2
  <2>5. PICK c, f : c = store[q] /\ f = fill_cache(k, p)
    OBVIOUS
  <2>6. c \in CacheRec /\ q \in PageFrames /\ c.entries \in Entries
        /\ store \in [PageFrames -> {NoCache} \cup CacheRec]
    BY <2>3, <2>5 DEF TypeInv, Cached, CacheRec
  <2>7. f \in Entries /\ DOMAIN f = Places(k)
    <3>1. f \in [Places(k) -> Object]
      BY <1>3, <2>2, <2>5, FillTyped
    <3>2. Places(k) \in SUBSET Nat
      BY <1>3, PerPageSizes DEF Places
    <3> QED BY <3>1, <3>2 DEF Entries
  <2>8. PICK g : g = StoreEntries(c.entries, f)
    OBVIOUS
  <2>9. g \in Entries /\ DOMAIN g = DOMAIN c.entries \cup Places(k)
    <3>1. PICK e : e = c.entries
      OBVIOUS
    <3>2. e \in Entries /\ g = StoreEntries(e, f)
      BY <2>6, <2>8, <3>1
    <3>3. g \in Entries /\ DOMAIN g = DOMAIN e \cup DOMAIN f
      BY <2>7, <3>2, EntriesStored
    <3> QED BY <2>7, <3>1, <3>3
  <2>10. PICK d : d = [c EXCEPT !.entries = g]
    OBVIOUS
  <2>11. d \in CacheRec /\ d.entries = g
    BY <2>6, <2>9, <2>10, RecordsAreCaches
  <2>12. store' = [store EXCEPT ![q] = d]
    BY <2>1, <2>5, <2>6, <2>8, <2>10
  <2>13. /\ store' \in [PageFrames -> {NoCache} \cup CacheRec] /\ store'[q] = d /\ q \in Cached'
         /\ \A s \in Slabs : Full(s) /\ cache'[s] = cache[s] => Full(s)'
    BY <2>5, <2>6, <2>9, <2>11, <2>12, TypeStored
  <2>14. Full(k)'
    BY <1>1, <1>2, <2>9, <2>11, <2>13 DEF Full
  <2>15. \A s \in Slabs : s \in 1..SlabCount
    BY DEF Slabs
  <2>16. \A s \in Slabs : s < slab_i' => Full(s)'
    BY <1>2, <1>3, <2>1, <2>3, <2>13, <2>14, <2>15
  <2>17. \A s \in Slabs : s > slab_i' \/ s = slab_i' => cache'[s] = NULL
    BY <1>2, <1>3, <2>1, <2>3, <2>15
  <2>18. JobAt(job, slab_i)'
    BY <1>3, <2>1 DEF JobAt, Jobs, Slabs
  <2>19. PagesTyped'
    <3>1. \A r \in PageFrames : slab'[r] < k + 1 \/ slab'[r] = 0
      BY <1>3, <2>3, <2>4
    <3> QED BY <1>2, <1>3, <2>1, <2>4, <3>1 DEF PagesTyped
  <2>20. job' \notin {"objects", "fill"}
    BY <2>1
  <2> QED BY <1>2, <1>3, <2>13, <2>16, <2>17, <2>18, <2>19, <2>20 DEF TypeInv
<1> QED BY <1>4, <1>5

LEMMA TypeNext ==
  ASSUME Ind, TypeInv, [HeapNext]_<<vars, heap>>
  PROVE  TypeInv'
<1>0. /\ JobAt(job, slab_i) /\ {mine, freed} \subseteq PageFrames \cup {NULL}
      /\ buddy \in [PageFrames -> BOOLEAN] /\ slab \in [PageFrames -> 0..SlabCount]
      /\ SlabCount \in Nat \ {0} /\ 0 \notin Slabs /\ DOMAIN cache = Slabs
      /\ \A o \in objects : o.at \in Object
  BY HeapAssumption DEF TypeInv, PagesTyped, Slabs
<1>1. ASSUME UNCHANGED heap PROVE TypeInv'
  BY <1>0, <1>1, TypeKept DEF heap
<1>2. ASSUME NEW n \in PageCounts, PageAlloc(n) PROVE TypeInv'
  <2>1. job' \in {"fault", "page_alloc", "none"} /\ slab_i = 0
    BY <1>2, JobAfterAlloc DEF PageAlloc
  <2>2. JobAt(job', slab_i)
    BY <1>0, <2>1 DEF JobAt, Jobs
  <2> QED BY <1>0, <1>2, <2>1, <2>2, TypeKept DEF PageAlloc, pages
<1>3. ASSUME PageAllocDone PROVE TypeInv'
  <2>1. PICK p : p = Page
    OBVIOUS
  <2>2. /\ p \in PageFrames \cup {NULL} /\ mine' = p
        /\ buddy' = IF p = NULL THEN buddy ELSE [buddy EXCEPT ![p] = TRUE]
    BY <1>3, <2>1, PageReturned DEF PageAllocDone, Owned
  <2>3. job = "page_alloc" /\ job' = "none" /\ UNCHANGED <<freed, slab_i, slab, cache, store, objects>>
    BY <1>3 DEF PageAllocDone, Returned
  <2>4. JobAt(job', slab_i) /\ buddy' \in [PageFrames -> BOOLEAN]
    BY <1>0, <2>2, <2>3 DEF JobAt, Jobs
  <2> QED BY <1>0, <2>2, <2>3, <2>4, TypeKept
<1>4. ASSUME PageFree PROVE TypeInv'
  <2>1. job' \in {"fault", "page_free"} /\ slab_i = 0 /\ UNCHANGED <<mine, freed, slab_i, buddy, slab, cache, store, objects>>
    BY <1>4 DEF PageFree, pages
  <2>2. JobAt(job', slab_i)
    BY <1>0, <2>1 DEF JobAt, Jobs
  <2> QED BY <1>0, <2>1, <2>2, TypeKept
<1>5. ASSUME PageFreeDone PROVE TypeInv'
  <2>1. /\ job = "page_free" /\ job' = "none" /\ UNCHANGED <<slab_i, cache, store, objects>>
        /\ mine' = NULL /\ freed' = mine
        /\ buddy' = [buddy EXCEPT ![mine] = FALSE] /\ slab' = [slab EXCEPT ![mine] = 0]
    BY <1>5 DEF PageFreeDone, Returned
  <2>2. slab_i = 0 /\ \A s \in Slabs : s > 0 /\ ~(s < 0)
    BY <1>0, <2>1 DEF TypeInv, JobAt, Slabs
  <2>3. JobAt(job, slab_i)'
    BY <1>0, <2>1, <2>2 DEF JobAt, Jobs
  <2>4. PagesTyped'
    <3>1. buddy' \in [PageFrames -> BOOLEAN]
      BY <1>0, <2>1
    <3>2. \A p \in PageFrames : slab'[p] = IF p = mine THEN 0 ELSE slab[p]
      BY <1>0, <2>1
    <3>3. slab \in [PageFrames -> 0..SlabCount] /\ 0 \in 0..SlabCount
      BY <1>0, HeapAssumption DEF TypeInv, PagesTyped
    <3>4. slab' \in [PageFrames -> 0..SlabCount]
      <4>1. PICK m : m = mine
        OBVIOUS
      <4>2. slab' = [slab EXCEPT ![m] = 0]
        BY <2>1, <4>1
      <4> QED BY <3>3, <4>2
    <3> QED BY <1>0, <2>1, <2>2, <3>1, <3>2, <3>4 DEF TypeInv, PagesTyped
  <2> QED BY <1>0, <2>1, <2>2, <2>3, <2>4 DEF TypeInv
<1>6. ASSUME PageFreeAgain PROVE TypeInv'
  <2>1. job' = "fault" /\ UNCHANGED <<mine, freed, slab_i, buddy, slab, cache, store, objects>>
    BY <1>6 DEF PageFreeAgain, pages
  <2>2. JobAt(job', slab_i)
    BY <1>0, <2>1 DEF JobAt, Jobs
  <2> QED BY <1>0, <2>1, <2>2, TypeKept
<1>7. ASSUME InitSlab PROVE TypeInv'
  <2>1. /\ slab_i = 0 /\ slab_i' = 1 /\ job' = "init"
        /\ UNCHANGED <<freed, mine, buddy, slab, cache, store, objects>>
    BY <1>7 DEF InitSlab, pages
  <2>2. /\ 1 \in Slabs
        /\ \A s \in Slabs : ~(s < 1) /\ s > 0
    BY <1>0, <2>1 DEF TypeInv, Slabs
  <2>3. \A s \in Slabs : cache'[s] = NULL
    BY <2>1, <2>2 DEF TypeInv
  <2>4. JobAt(job, slab_i)'
    BY <1>0, <2>1, <2>2 DEF JobAt, Jobs
  <2>5. PagesTyped'
    BY <1>0, <2>1 DEF TypeInv, PagesTyped
  <2> QED BY <1>0, <2>1, <2>2, <2>3, <2>4, <2>5 DEF TypeInv
<1>8. ASSUME AllocCache PROVE TypeInv'
  <2>1. job' \in {"fault", "alloc_cache", "panic"} /\ job = "init"
    BY <1>8, JobAfterAlloc DEF AllocCache
  <2>2. JobAt(job', slab_i)
    BY <1>0, <2>1 DEF JobAt, Jobs
  <2> QED BY <1>0, <1>8, <2>1, <2>2, TypeKept DEF AllocCache, pages
<1>9. ASSUME AllocObjects PROVE TypeInv'
  <2>1. job' \in {"fault", "fill", "panic"} /\ job = "objects"
    BY <1>9, JobAfterAlloc DEF AllocObjects
  <2>2. JobAt(job', slab_i)
    BY <1>0, <2>1 DEF JobAt, Jobs
  <2> QED BY <1>0, <1>9, <2>1, <2>2, TypeKept DEF AllocObjects, pages
<1>10. ASSUME NEW size, Kmalloc(size) PROVE TypeInv'
  BY <1>10, TypeKmalloc
<1>11. ASSUME NEW o, Kfree(o) PROVE TypeInv'
  BY <1>11, TypeKfree
<1>12. CASE HeapNext
  BY <1>1, <1>2, <1>3, <1>4, <1>5, <1>6, <1>7, <1>8, <1>9, <1>10, <1>11, <1>12,
     TypeAllocCacheDone, TypeFillCache DEF HeapNext
<1>13. CASE UNCHANGED <<vars, heap>>
  BY <1>1, <1>13
<1> QED BY <1>12, <1>13

\* The variables of slab.c have their types in every state, and what a filled
\* cache holds are objects inside a page.
THEOREM HeapTypes == HeapSpec => []HeapTypeOK
<1>1. HeapInit => Ind /\ TypeInv
  BY IndInit, TypeInit DEF HeapInit
<1>2. Ind /\ TypeInv /\ [HeapNext]_<<vars, heap>> => (Ind /\ TypeInv)'
  <2>1. [HeapNext]_<<vars, heap>> => [Next]_vars
    BY BuddySteps
  <2> QED BY <2>1, NextInd, TypeNext
<1>3. TypeInv => HeapTypeOK
  <2> SUFFICES ASSUME TypeInv PROVE HeapTypeOK
    OBVIOUS
  <2>1. ASSUME NEW s \in Slabs, Ready(s), NEW e \in 0..(PerPage(s) - 1)
        PROVE  e \in DOMAIN CacheOf(s).entries /\ CacheOf(s).entries[e] \in Object
    <3>1. cache[s] \in PageFrames /\ store[cache[s]] # NoCache /\ e \in DOMAIN store[cache[s]].entries
      BY <2>1 DEF TypeInv, Ready, Full, Cached, Places
    <3>2. store[cache[s]] \in CacheRec
      BY <3>1 DEF TypeInv
    <3> QED BY <3>1, <3>2, RecordsAreCaches DEF CacheOf
  <2>2. job \in Jobs /\ slab_i \in 0..(SlabCount + 1) /\ {mine, freed} \subseteq PageFrames \cup {NULL}
    BY DEF TypeInv, JobAt, PagesTyped
  <2> QED BY <2>1, <2>2 DEF HeapTypeOK, Jobs
<1> QED BY <1>1, <1>2, <1>3, PTL DEF HeapSpec

-----------------------------------------------------------------------------
(***************************************************************************)
(* The pages themselves: page_alloc and page_free of single pages, and the *)
(* two pages that init_slab takes for every slab.                          *)
(***************************************************************************)
\* The counter of the buddy suffices for what page_alloc compares with it.
Roomy == \A s \in Slabs : 2 * s <= Max /\ 2 * (s - 1) + CacheRequest(s) <= Max

\* The callers of page_alloc have every block that is held; or every block but
\* one, the page p that they are about to get.
AllGot == got = {g \in Handles : live[g] # NoBlock}
NewPage(p) ==
  \E g \in Handles \ got : /\ live[g] # NoBlock /\ live[g].ptr = p
                           /\ \A f \in Handles \ got : live[f] # NoBlock => f = g

\* Before init_slab, for pages that get the name h.
PagePhase(h) ==
  /\ OneInv(h)
  /\ job \in {"none", "page_alloc", "page_free", "fault", "no_cache"}
  /\ job \notin {"page_alloc", "page_free"} => pc = "idle"
  /\ \A p \in PageFrames : buddy[p] => p = mine
  /\ job = "none" => AllGot
  /\ job = "none" /\ mine = NULL => live[h] = NoBlock
  /\ job = "none" /\ mine # NULL => live[h] # NoBlock /\ live[h].ptr = mine /\ buddy[mine]
  /\ job = "page_alloc" => mine = NULL /\ got = {} /\ (pc = "walk" \/ (pc = "idle" /\ live[h] # NoBlock))
  /\ job = "page_free" => mine # NULL /\ live[h] = NoBlock /\ pc \in {"merge", "idle"}
  /\ job = "fault" => front \/ (mine = NULL /\ freed # NULL)

\* Slab i + 1: walk w finds the page of the cache, the call after it the page of
\* the objects, and the next walk is walk v.  With the kernel's direct map this
\* ends at the first cache.
InitPhase(i, w, v) ==
  /\ job \in {"init", "alloc_cache", "objects", "fill", "fault", "panic"}
  /\ job # "alloc_cache" => pc = "idle"
  /\ job = "init" => BeforeWalk(w) /\ AllGot /\ available >= Max - 2 * i
  /\ job = "alloc_cache" => /\ (DuringWalk(w) /\ AllGot) \/ (AfterWalk(w) /\ NewPage(TopAt(w)))
                            /\ available >= Max - 2 * i - 1
  /\ job = "objects" => /\ AfterWalk(w) /\ AllGot /\ available >= Max - 2 * i - 1
                        /\ DM_START = 0
  /\ job = "fill" => /\ BeforeWalk(v) /\ NewPage(TopAt(w) - 1)
                     /\ available >= Max - 2 * i - 2 /\ DM_START = 0
  /\ job = "fault" => front
  /\ job = "panic" => DM_START # 0 \/ ~Roomy

CachesMapped == \A s \in Slabs : cache[s] # NULL => DM_START = 0

Ended == {"none", "no_cache", "wild", "overrun"}
PoolInv(h) ==
  /\ slab_i = 0 => PagePhase(h)
  /\ slab_i \in Slabs => InitPhase(slab_i - 1, WalkOf(slab_i - 1), WalkOf(slab_i))
  /\ slab_i = SlabCount + 1 => pc = "idle" /\ job \in Ended /\ DM_START = 0
  /\ CachesMapped

LEMMA AreaForPages ==
  ASSUME Levels > 1
  PROVE  Deep # 0 /\ Deep \in Nat /\ Fits(1) /\ Max \in Nat
<1>1. Deep = Levels - 1 /\ Levels \in Nat /\ Max \in Nat
  BY BuddyAssumption, AreaCells, Sizes DEF Deep
<1>2. 2 * 1 <= Max
  <2>1. PICK j : j = Levels - 2
    OBVIOUS
  <2>2. j \in 0..(Levels - 1) /\ j \in 0..Levels /\ j + 1 = Levels - 1
    BY <1>1, <2>1
  <2>3. Shl[j + 1] = 2 * Shl[j] /\ Shl[j] \in Nat \ {0}
    BY <2>2, ShlAssumption
  <2> QED BY <2>2, <2>3 DEF Max
<1>3. Fits(1)
  BY <1>1, <1>2 DEF Fits
<1> QED BY <1>1, <1>3

LEMMA AtSlab ==
  ASSUME Levels > 1, NEW h, PoolInv(h), slab_i \in Slabs, NEW i, i = slab_i - 1
  PROVE  /\ i \in Nat /\ slab_i = i + 1 /\ i + 1 \in Slabs /\ Max \in Nat
         /\ \E w, v : /\ w = WalkOf(i) /\ v = WalkOf(i + 1) /\ v = WalkOf(w + 1)
                     /\ w \in Nat /\ w < Deep /\ v \in Nat /\ v < Deep
                     /\ CachePage(slab_i) = TopAt(w) /\ Home(slab_i) = TopAt(w) - 1
                     /\ TopAt(w) \in PageFrames /\ TopAt(w) - 1 \in PageFrames
                     /\ InitPhase(i, w, v)
<1>1. i \in Nat /\ slab_i = i + 1 /\ i + 1 \in Slabs /\ Max \in Nat
  BY HeapAssumption, AreaForPages DEF Slabs
<1>2. PICK w, v : w = WalkOf(i) /\ v = WalkOf(i + 1)
  OBVIOUS
<1>3. v = WalkOf(w + 1) /\ w \in Nat /\ w < Deep
  BY <1>1, <1>2, WalkRange
<1>4. v \in Nat /\ v < Deep
  <2>1. i + 1 \in Nat
    BY <1>1
  <2> QED BY <1>2, <2>1, WalkRange
<1>5. InitPhase(i, w, v)
  BY <1>1, <1>2 DEF PoolInv
<1>6. CachePage(slab_i) = TopAt(w) /\ Home(slab_i) = TopAt(w) - 1
  BY <1>2 DEF CachePage, Home
<1> QED BY <1>1, <1>2, <1>3, <1>4, <1>5, <1>6, TopPages

LEMMA RoomForSlab ==
  ASSUME Roomy, NEW i \in Nat, i + 1 \in Slabs
  PROVE  /\ CacheRequest(i + 1) \in Nat /\ Max \in Nat
         /\ 2 * (i + 1) <= Max /\ 2 * i + CacheRequest(i + 1) <= Max
<1>1. CacheRequest(i + 1) \in Nat
  <2>1. PerPage(i + 1) \in Nat /\ PageWords \in Nat \ {0}
    BY PerPageSizes, HeapAssumption
  <2>2. \A x \in Nat, y \in Nat \ {0} : (2 + x) \div y + 1 \in Nat
    OBVIOUS
  <2> QED BY <2>1, <2>2 DEF CacheRequest, CacheWords
<1>2. (i + 1) - 1 = i
  OBVIOUS
<1> QED BY <1>1, <1>2, AreaCells, Sizes DEF Roomy

\* What page_alloc hands out.
LEMMA PageIs ==
  ASSUME NEW p, NewPage(p)
  PROVE  Page = p
<1> DEFINE new == {h \in Handles \ got : live[h] # NoBlock}
<1>1. PICK g \in Handles \ got : /\ live[g] # NoBlock /\ live[g].ptr = p
                                 /\ \A f \in Handles \ got : live[f] # NoBlock => f = g
  BY DEF NewPage
<1>2. g \in new /\ \A f \in new : f = g
  BY <1>1
<1>3. Page = IF new = {} THEN NULL ELSE live[CHOOSE h \in new : TRUE].ptr
  BY DEF Page
<1> HIDE DEF new
<1> QED BY <1>1, <1>2, <1>3

LEMMA GrantedIsNew ==
  ASSUME Ind, AllGot, NEW p \in PageFrames, Granted(p), got' = got
  PROVE  NewPage(p)'
<1>1. PICK g \in Handles : live[g] = NoBlock /\ live' = [live EXCEPT ![g] = [ptr |-> p, bkt |-> Deep]]
  BY DEF Granted
<1>2. live'[g].ptr = p /\ \A f \in Handles \ {g} : live'[f] = live[f]
  BY <1>1 DEF Ind, TypeOK
<1>3. live'[g] # NoBlock
  BY <1>2, FramesAreNotNull DEF NoBlock
<1>4. g \notin got' /\ \A f \in Handles \ got' : live[f] = NoBlock
  BY <1>1 DEF AllGot
<1>5. \A f \in Handles \ got' : live'[f] # NoBlock => f = g
  BY <1>2, <1>4
<1> QED BY <1>2, <1>3, <1>4, <1>5 DEF NewPage

LEMMA ReturnedGot ==
  ASSUME NEW then, Returned(then)
  PROVE  AllGot'
<1>1. live' = live /\ got' = {h \in Handles : live[h] # NoBlock}
  BY DEF Returned, vars
<1> QED BY <1>1 DEF AllGot

\* What holds of the buddy holds while it is left alone.
LEMMA BuddySame ==
  ASSUME UNCHANGED vars, NEW h, NEW i
  PROVE  /\ pc' = pc /\ live' = live /\ available' = available
         /\ OneInv(h) => OneInv(h)'
         /\ BeforeWalk(i) => BeforeWalk(i)'
         /\ DuringWalk(i) => DuringWalk(i)'
         /\ AfterWalk(i) => AfterWalk(i)'
<1>1. /\ mem' = mem /\ tree' = tree /\ available' = available /\ order' = order /\ live' = live
      /\ pc' = pc /\ node' = node /\ walker' = walker /\ bkt' = bkt
  BY DEF vars
<1>2. OneInv(h) => OneInv(h)'
  BY <1>1 DEF OneInv, Split
<1>3. (SplitLeft(i) => SplitLeft(i)') /\ (SplitLeft(i + 1) => SplitLeft(i + 1)')
  BY <1>1 DEF SplitLeft
<1>4. (Unsplit(i) => Unsplit(i)') /\ (Unsplit(i + 1) => Unsplit(i + 1)')
  BY <1>1 DEF Unsplit
<1>5. BeforeWalk(i) => BeforeWalk(i)'
  BY <1>1, <1>3, <1>4 DEF BeforeWalk
<1>6. DuringWalk(i) => DuringWalk(i)'
  BY <1>1, <1>3, <1>4 DEF DuringWalk, Holders
<1>7. AfterWalk(i) => AfterWalk(i)'
  BY <1>1, <1>3, <1>4 DEF AfterWalk
<1> QED BY <1>1, <1>2, <1>5, <1>6, <1>7

\* Iterations are those of a call.
LEMMA IterationBusy == Iteration => pc \in {"walk", "merge"}
BY DEF Iteration, WalkFull, WalkSplit, WalkFails, FreeMerge, FreeDone

\* Where the three parts of PoolInv apply.
LEMMA PoolFrom ==
  ASSUME NEW h, CachesMapped', \/ slab_i' = 0 /\ PagePhase(h)'
                              \/ \E i \in Nat : \E w, v :
                                   /\ slab_i' = i + 1 /\ slab_i' \in Slabs
                                   /\ w = WalkOf(i) /\ v = WalkOf(i + 1) /\ InitPhase(i, w, v)'
                              \/ /\ slab_i' = SlabCount + 1 /\ pc' = "idle"
                                 /\ job' \in Ended /\ DM_START = 0
  PROVE  PoolInv(h)'
<1>1. SlabCount \in Nat \ {0} /\ 0 \notin Slabs /\ SlabCount + 1 \notin Slabs /\ SlabCount + 1 # 0
  BY HeapAssumption DEF Slabs
<1>2. CASE slab_i' = 0 /\ PagePhase(h)'
  BY <1>1, <1>2 DEF PoolInv
<1>3. ASSUME NEW i \in Nat, NEW w, NEW v, slab_i' = i + 1, slab_i' \in Slabs,
             w = WalkOf(i), v = WalkOf(i + 1), InitPhase(i, w, v)'
      PROVE  PoolInv(h)'
  <2>1. slab_i' - 1 = i /\ slab_i' # 0 /\ slab_i' # SlabCount + 1
    BY <1>1, <1>3
  <2>2. slab_i' \in Slabs => InitPhase(slab_i - 1, WalkOf(slab_i - 1), WalkOf(slab_i))'
    BY <1>3, <2>1
  <2> QED BY <1>3, <2>1, <2>2 DEF PoolInv
<1>4. CASE /\ slab_i' = SlabCount + 1 /\ pc' = "idle" /\ job' \in Ended /\ DM_START = 0
  BY <1>1, <1>4 DEF PoolInv
<1> QED BY <1>2, <1>3, <1>4

LEMMA CachesSame == CachesMapped /\ UNCHANGED cache => CachesMapped'
BY DEF CachesMapped

LEMMA PoolInit ==
  ASSUME NEW h, First(h), HeapInit
  PROVE  PoolInv(h)
<1>1. /\ slab_i = 0 /\ job = "none" /\ mine = NULL /\ pc = "idle" /\ Init
      /\ buddy = [p \in PageFrames |-> FALSE] /\ cache = [s \in Slabs |-> NULL]
      /\ live = [g \in Handles |-> NoBlock] /\ got = {}
  BY DEF HeapInit, Init, First
<1>2. OneInv(h)
  BY <1>1, OneInit DEF First
<1>3. PagePhase(h)
  <2>1. live[h] = NoBlock /\ AllGot
    BY <1>1 DEF First, AllGot
  <2> QED BY <1>1, <1>2, <2>1 DEF PagePhase
<1>4. 0 \notin Slabs /\ SlabCount + 1 # 0
  BY HeapAssumption DEF Slabs
<1>5. CachesMapped
  BY <1>1 DEF CachesMapped
<1> QED BY <1>1, <1>3, <1>4, <1>5 DEF PoolInv

-----------------------------------------------------------------------------
\* Steps before init_slab: one page at a time.
LEMMA PoolPageAlloc ==
  ASSUME Ind, NEW h, First(h), PoolInv(h), Levels > 1, NEW n, PageAlloc(n)
  PROVE  PoolInv(h)'
<1>1. /\ job = "none" /\ slab_i = 0 /\ mine = NULL /\ page_alloc(n, "page_alloc", "none")
      /\ UNCHANGED <<front, freed, mine, slab_i, buddy, got, slab, cache, store, objects, dropped>>
  BY DEF PageAlloc, pages
<1>2. PagePhase(h) /\ CachesMapped'
  BY <1>1, CachesSame DEF PoolInv
<1>3. /\ OneInv(h) /\ pc = "idle" /\ live[h] = NoBlock /\ AllGot
      /\ \A p \in PageFrames : buddy[p] => p = mine
  BY <1>1, <1>2 DEF PagePhase
<1>0. got = {}
  BY <1>3 DEF OneInv, AllGot
<1>4. ASSUME UNCHANGED vars, job' = "none" \/ (job' = "fault" /\ front) PROVE PagePhase(h)'
  <2>1. OneInv(h)' /\ pc' = "idle" /\ live'[h] = NoBlock /\ AllGot'
    BY <1>1, <1>3, <1>4, BuddySame DEF AllGot
  <2> QED BY <1>1, <1>3, <1>4, <2>1 DEF PagePhase
<1>5. ASSUME job' = "page_alloc", AllocWalk(1) \/ AllocPop(1) PROVE PagePhase(h)'
  <2>1. Deep # 0 /\ Fits(1) /\ 0 \in Nat /\ 0 < Deep
    BY AreaForPages
  <2>2. BeforeWalk(0)
    BY <1>3, <2>1, BeforeFirst
  <2>3. DuringWalk(0)' /\ live' = live
    BY <1>5, <2>1, <2>2, WalkBegins
  <2>4. pc' = "walk"
    BY <2>3 DEF DuringWalk
  <2>5. OneInv(h)'
    <3>1. CASE AllocWalk(1)
      BY <1>3, <2>1, <3>1, OneWalkBegins
    <3>2. CASE AllocPop(1)
      BY <1>3, <2>1, <3>2, OnePop
    <3> QED BY <1>5, <3>1, <3>2
  <2> QED BY <1>0, <1>1, <1>3, <1>5, <2>4, <2>5 DEF PagePhase
<1>6. PagePhase(h)'
  BY <1>1, <1>4, <1>5 DEF page_alloc
<1> QED BY <1>1, <1>2, <1>6, PoolFrom

LEMMA PoolPageAllocDone ==
  ASSUME Ind, PagesTyped, NEW h, First(h), PoolInv(h), slab_i = 0, PageAllocDone
  PROVE  PoolInv(h)'
<1>1. /\ job = "page_alloc" /\ pc = "idle" /\ UNCHANGED vars
      /\ job' = "none" /\ mine' = Page /\ Owned
      /\ UNCHANGED <<front, freed, slab_i, slab, cache, store, objects, dropped>>
  BY DEF PageAllocDone, Returned
<1>0. AllGot'
  BY ReturnedGot DEF PageAllocDone
<1>2. PagePhase(h) /\ CachesMapped'
  BY <1>1, CachesSame DEF PoolInv
<1>3. PICK p : p = live[h].ptr
  OBVIOUS
<1>4. /\ live[h] # NoBlock /\ mine = NULL /\ OneInv(h) /\ h \in Handles /\ got = {}
      /\ \A q \in PageFrames : buddy[q] => q = mine
  BY <1>1, <1>2 DEF PagePhase, First
<1>5. p \in PageFrames
  BY <1>3, <1>4 DEF Ind, TypeOK, Block
<1>7. NewPage(p)
  BY <1>3, <1>4 DEF NewPage, OneInv
<1>8. Page = p
  BY <1>7, PageIs
<1>9. mine' = p /\ p # NULL /\ buddy' = [buddy EXCEPT ![p] = TRUE] /\ buddy \in [PageFrames -> BOOLEAN]
  BY <1>1, <1>5, <1>8, FramesAreNotNull DEF Owned, PagesTyped
<1>10. \A q \in PageFrames : buddy'[q] <=> q = p
  BY <1>4, <1>5, <1>9, FramesAreNotNull
<1>11. OneInv(h)' /\ pc' = "idle" /\ live' = live
  BY <1>1, <1>4, BuddySame
<1>12. PagePhase(h)'
  BY <1>0, <1>1, <1>3, <1>4, <1>5, <1>9, <1>10, <1>11 DEF PagePhase
<1> QED BY <1>1, <1>2, <1>12, PoolFrom

LEMMA PoolPageFree ==
  ASSUME Ind, NEW h, First(h), PoolInv(h), PageFree
  PROVE  PoolInv(h)'
<1>1. /\ job = "none" /\ slab_i = 0 /\ mine # NULL
      /\ IF buddy[mine]
         THEN job' = "page_free" /\ \E g \in Handles : live[g].ptr = mine /\ Free(g)
         ELSE job' = "fault" /\ UNCHANGED vars
      /\ UNCHANGED <<front, freed, mine, slab_i, buddy, got, slab, cache, store, objects, dropped>>
  BY DEF PageFree, pages
<1>2. PagePhase(h) /\ CachesMapped'
  BY <1>1, CachesSame DEF PoolInv
<1>3. buddy[mine] /\ OneInv(h) /\ \A p \in PageFrames : buddy[p] => p = mine
  BY <1>1, <1>2 DEF PagePhase
<1>4. PICK g \in Handles : live[g].ptr = mine /\ Free(g)
  BY <1>1, <1>3
<1>5. OneInv(h)' /\ live'[h] = NoBlock
  BY <1>3, <1>4, OneFree DEF First
<1>6. pc' = "merge" /\ job' = "page_free"
  BY <1>1, <1>3, <1>4 DEF Free
<1>7. PagePhase(h)'
  BY <1>1, <1>3, <1>5, <1>6 DEF PagePhase
<1> QED BY <1>1, <1>2, <1>7, PoolFrom

LEMMA PoolPageFreeDone ==
  ASSUME Ind, PagesTyped, NEW h, First(h), PoolInv(h), slab_i = 0, PageFreeDone
  PROVE  PoolInv(h)'
<1>1. /\ job = "page_free" /\ pc = "idle" /\ UNCHANGED vars
      /\ job' = "none" /\ mine' = NULL /\ freed' = mine /\ buddy' = [buddy EXCEPT ![mine] = FALSE]
      /\ UNCHANGED <<front, slab_i, cache, store, objects, dropped>>
  BY DEF PageFreeDone, Returned
<1>0. AllGot'
  BY ReturnedGot DEF PageFreeDone
<1>2. PagePhase(h) /\ CachesMapped'
  BY <1>1, CachesSame DEF PoolInv
<1>3. /\ live[h] = NoBlock /\ OneInv(h) /\ \A p \in PageFrames : buddy[p] => p = mine
  BY <1>1, <1>2 DEF PagePhase
<1>4. \A p \in PageFrames : ~buddy'[p]
  <2>1. buddy \in [PageFrames -> BOOLEAN]
    BY DEF PagesTyped
  <2> QED BY <1>1, <1>3, <2>1
<1>5. OneInv(h)' /\ pc' = "idle" /\ live'[h] = NoBlock
  BY <1>1, <1>3, BuddySame
<1>6. PagePhase(h)'
  BY <1>0, <1>1, <1>4, <1>5 DEF PagePhase
<1> QED BY <1>1, <1>2, <1>6, PoolFrom

LEMMA PoolPageFreeAgain ==
  ASSUME Ind, NEW h, First(h), PoolInv(h), PageFreeAgain
  PROVE  PoolInv(h)'
<1>1. /\ job = "none" /\ slab_i = 0 /\ mine = NULL /\ freed # NULL /\ job' = "fault"
      /\ UNCHANGED vars /\ UNCHANGED <<front, freed, mine, slab_i, buddy, got, slab, cache, store, objects, dropped>>
  BY DEF PageFreeAgain, pages
<1>2. PagePhase(h) /\ CachesMapped'
  BY <1>1, CachesSame DEF PoolInv
<1>3. OneInv(h) /\ pc = "idle" /\ \A p \in PageFrames : buddy[p] => p = mine
  BY <1>1, <1>2 DEF PagePhase
<1>4. OneInv(h)' /\ pc' = "idle"
  BY <1>1, <1>3, BuddySame
<1>5. PagePhase(h)'
  BY <1>1, <1>3, <1>4 DEF PagePhase
<1> QED BY <1>1, <1>2, <1>5, PoolFrom

\* An iteration of the call in progress.
LEMMA PoolIterates ==
  ASSUME Ind, Phases, NEW h, First(h), PoolInv(h), Levels > 1, Iteration, UNCHANGED heap
  PROVE  PoolInv(h)'
<1>1. /\ UNCHANGED <<front, job, slab_i, buddy, got, cache, mine, freed>>
      /\ pc \in {"walk", "merge"}
  BY IterationBusy DEF heap
<1>2. CachesMapped'
  BY <1>1, CachesSame DEF PoolInv
<1>3. CASE slab_i = 0
  <2>1. PagePhase(h)
    BY <1>3 DEF PoolInv
  <2>2. /\ OneInv(h) /\ job \in {"page_alloc", "page_free"}
        /\ \A p \in PageFrames : buddy[p] => p = mine
    BY <1>1, <2>1 DEF PagePhase
  <2>3. /\ OneInv(h)'
        /\ pc = "walk" => pc' \in {"walk", "idle"} /\ (pc' = "idle" => live'[h] # NoBlock)
        /\ pc = "merge" => pc' \in {"merge", "idle"} /\ live' = live
    BY <2>2, OneIterates
  <2>4. job = "page_alloc" => mine = NULL /\ got = {} /\ pc = "walk"
    BY <1>1, <2>1 DEF PagePhase
  <2>5. job = "page_free" => mine # NULL /\ live[h] = NoBlock /\ pc = "merge"
    BY <1>1, <2>1 DEF PagePhase
  <2>6. PagePhase(h)'
    BY <1>1, <2>2, <2>3, <2>4, <2>5 DEF PagePhase
  <2> QED BY <1>1, <1>2, <1>3, <2>6, PoolFrom
<1>4. CASE slab_i \in Slabs
  <2>1. PICK i : i = slab_i - 1
    OBVIOUS
  <2>2. i \in Nat /\ slab_i = i + 1 /\ Max \in Nat
    BY <1>4, <2>1, AtSlab
  <2>3. PICK w, v : /\ w = WalkOf(i) /\ v = WalkOf(i + 1) /\ w \in Nat /\ w < Deep
                    /\ TopAt(w) \in PageFrames /\ InitPhase(i, w, v)
    BY <1>4, <2>1, AtSlab
  <2>4. job = "alloc_cache"
    BY <1>1, <2>3 DEF InitPhase
  <2>5. DuringWalk(w) /\ AllGot /\ available >= Max - 2 * i - 1
    BY <1>1, <2>3, <2>4 DEF InitPhase, AfterWalk
  <2>6. /\ available' = available
        /\ \/ DuringWalk(w)' /\ live' = live
           \/ AfterWalk(w)' /\ Granted(TopAt(w))
    BY <2>3, <2>5, WalkGoesOn
  <2>7. PICK p : p = TopAt(w)
    OBVIOUS
  <2>8. (DuringWalk(w)' /\ AllGot') \/ (AfterWalk(w)' /\ NewPage(p)')
    <3>1. CASE DuringWalk(w)' /\ live' = live
      BY <1>1, <2>5, <3>1 DEF AllGot
    <3>2. CASE AfterWalk(w)' /\ Granted(TopAt(w))
      BY <1>1, <2>3, <2>5, <2>7, <3>2, GrantedIsNew
    <3> QED BY <2>6, <3>1, <3>2
  <2>9. InitPhase(i, w, v)'
    BY <1>1, <2>3, <2>4, <2>5, <2>6, <2>7, <2>8 DEF InitPhase
  <2> QED BY <1>1, <1>2, <1>4, <2>2, <2>3, <2>9, PoolFrom
<1>5. CASE slab_i = SlabCount + 1
  BY <1>1, <1>5 DEF PoolInv
<1>6. slab_i \in {0, SlabCount + 1} \cup Slabs
  BY HeapAssumption DEF Phases, Slabs
<1> QED BY <1>3, <1>4, <1>5, <1>6

-----------------------------------------------------------------------------
\* Steps of init_slab, for slab i + 1.
LEMMA PoolInitSlab ==
  ASSUME NEW h, PoolInv(h), Levels > 1, InitSlab
  PROVE  PoolInv(h)'
<1>1. /\ job = "none" /\ slab_i = 0 /\ mine = NULL /\ slab_i' = 1 /\ job' = "init" /\ UNCHANGED vars
      /\ UNCHANGED <<front, freed, mine, buddy, got, slab, cache, store, objects, dropped>>
  BY DEF InitSlab, pages
<1>2. PagePhase(h) /\ CachesMapped'
  BY <1>1, CachesSame DEF PoolInv
<1>3. OneInv(h) /\ pc = "idle" /\ live[h] = NoBlock /\ AllGot
  BY <1>1, <1>2 DEF PagePhase
<1>4. Deep # 0 /\ Deep \in Nat /\ Max \in Nat /\ 1 \in Slabs
  BY AreaForPages, HeapAssumption DEF Slabs
<1>5. BeforeWalk(0) /\ available >= Max
  BY <1>3, <1>4, BeforeFirst
<1>6. BeforeWalk(0)' /\ pc' = "idle" /\ available' >= Max - 2 * 0 /\ live' = live
  BY <1>1, <1>3, <1>4, <1>5, BuddySame
<1>7. AllGot'
  BY <1>1, <1>3, <1>6 DEF AllGot
<1>8. PICK v : v = WalkOf(0 + 1)
  OBVIOUS
<1>9. InitPhase(0, 0, v)'
  BY <1>1, <1>6, <1>7 DEF InitPhase
<1>10. WalkOf(0) = 0 /\ slab_i' = 0 + 1
  BY <1>1, <1>4 DEF WalkOf
<1> QED BY <1>1, <1>2, <1>4, <1>8, <1>9, <1>10, PoolFrom

LEMMA PoolAllocCache ==
  ASSUME Ind, NEW h, PoolInv(h), Levels > 1, slab_i \in Slabs, AllocCache
  PROVE  PoolInv(h)'
<1>1. PICK i : i = slab_i - 1
  OBVIOUS
<1>2. i \in Nat /\ slab_i = i + 1 /\ i + 1 \in Slabs /\ Max \in Nat
  BY <1>1, AtSlab
<1>3. /\ job = "init" /\ page_alloc(CacheRequest(i + 1), "alloc_cache", "panic")
      /\ UNCHANGED <<front, freed, mine, slab_i, buddy, got, slab, cache, store, objects, dropped>>
  BY <1>2 DEF AllocCache, pages
<1>4. PICK w, v : /\ w = WalkOf(i) /\ v = WalkOf(i + 1) /\ w \in Nat /\ w < Deep
                  /\ InitPhase(i, w, v)
  BY <1>1, AtSlab
<1>5. BeforeWalk(w) /\ AllGot /\ available >= Max - 2 * i /\ pc = "idle"
  BY <1>3, <1>4 DEF InitPhase
<1>6. CachesMapped'
  BY <1>3, CachesSame DEF PoolInv
<1>7. CASE front /\ job' = "fault" /\ UNCHANGED vars
  <2>1. pc' = "idle"
    BY <1>5, <1>7, BuddySame
  <2>2. InitPhase(i, w, v)'
    BY <1>3, <1>4, <1>7, <2>1 DEF InitPhase
  <2> QED BY <1>2, <1>3, <1>4, <1>6, <2>2, PoolFrom
<1>8. available \in Nat
  BY DEF Ind, TypeOK
<1>10. CASE available < CacheRequest(i + 1) /\ job' = "panic" /\ UNCHANGED vars
  <2>1. ~Roomy
    BY <1>2, <1>5, <1>8, <1>10, RoomForSlab
  <2>2. pc' = "idle"
    BY <1>5, <1>10, BuddySame
  <2>3. InitPhase(i, w, v)'
    BY <1>4, <1>10, <2>1, <2>2 DEF InitPhase
  <2> QED BY <1>2, <1>3, <1>4, <1>6, <2>3, PoolFrom
<1>9. CASE job' = "alloc_cache" /\ (AllocWalk(1) \/ AllocPop(1))
  <2>1. DuringWalk(w)' /\ live' = live /\ available' = available - 1
    BY <1>4, <1>5, <1>9, WalkBegins
  <2>2. AllGot' /\ available' >= Max - 2 * i - 1
    BY <1>2, <1>3, <1>5, <1>8, <2>1 DEF AllGot
  <2>3. InitPhase(i, w, v)'
    BY <1>4, <1>9, <2>1, <2>2 DEF InitPhase
  <2> QED BY <1>2, <1>3, <1>4, <1>6, <2>3, PoolFrom
<1> QED BY <1>3, <1>7, <1>9, <1>10 DEF page_alloc

LEMMA PoolAllocCacheDone ==
  ASSUME Ind, Served, NEW h, PoolInv(h), Levels > 1, slab_i \in Slabs, AllocCacheDone
  PROVE  PoolInv(h)'
<1>1. PICK i : i = slab_i - 1
  OBVIOUS
<1>2. i \in Nat /\ slab_i = i + 1 /\ i + 1 \in Slabs /\ Max \in Nat
  BY <1>1, AtSlab
<1>3. PICK w, v : /\ w = WalkOf(i) /\ v = WalkOf(i + 1) /\ w \in Nat /\ w < Deep
                  /\ TopAt(w) \in PageFrames /\ InitPhase(i, w, v)
  BY <1>1, AtSlab
<1>4. /\ job = "alloc_cache" /\ pc = "idle" /\ UNCHANGED vars
      /\ UNCHANGED <<front, freed, mine, slab_i, slab, objects, dropped>>
  BY DEF AllocCacheDone, Returned, pages
<1>5. PICK p : p = TopAt(w)
  OBVIOUS
<1>6. AfterWalk(w) /\ NewPage(p) /\ available >= Max - 2 * i - 1
  BY <1>3, <1>4, <1>5 DEF InitPhase, DuringWalk
<1>7. Page = p /\ p # NULL /\ p \in PageFrames
  BY <1>3, <1>5, <1>6, PageIs, FramesAreNotNull
<1>8. AllGot'
  BY ReturnedGot DEF AllocCacheDone
<1>9. CachesMapped
  BY DEF PoolInv
<1>12. pc' = "idle" /\ AfterWalk(w)' /\ available' = available
  BY <1>4, <1>6, BuddySame
<1>13. CASE ~Mapped(p)
  <2>1. job' = "panic" /\ cache' = cache
    BY <1>7, <1>13 DEF AllocCacheDone
  <2>2. DM_START # 0
    BY <1>7, <1>13, AreaCells, Sizes, BuddyAssumption DEF Mapped, PageFrames
  <2>3. InitPhase(i, w, v)' /\ CachesMapped'
    BY <1>9, <1>12, <2>1, <2>2, CachesSame DEF InitPhase
  <2> QED BY <1>2, <1>3, <1>4, <2>3, PoolFrom
<1>14. CASE Mapped(p)
  <2>1. job' = "objects"
    BY <1>7, <1>14 DEF AllocCacheDone
  <2>2. DM_START = 0
    BY <1>7, <1>14, MappedPage
  <2>3. InitPhase(i, w, v)'
    BY <1>6, <1>8, <1>12, <2>1, <2>2 DEF InitPhase
  <2>4. CachesMapped'
    BY <2>2 DEF CachesMapped
  <2> QED BY <1>2, <1>3, <1>4, <2>3, <2>4, PoolFrom
<1> QED BY <1>13, <1>14

LEMMA PoolAllocObjects ==
  ASSUME Ind, NEW h, PoolInv(h), Levels > 1, slab_i \in Slabs, AllocObjects
  PROVE  PoolInv(h)'
<1>1. PICK i : i = slab_i - 1
  OBVIOUS
<1>2. i \in Nat /\ slab_i = i + 1 /\ i + 1 \in Slabs /\ Max \in Nat
  BY <1>1, AtSlab
<1>3. /\ job = "objects" /\ page_alloc(1, "fill", "panic")
      /\ UNCHANGED <<front, freed, mine, slab_i, buddy, got, slab, cache, store, objects, dropped>>
  BY DEF AllocObjects, pages
<1>4. PICK w, v : /\ w = WalkOf(i) /\ v = WalkOf(i + 1) /\ v = WalkOf(w + 1)
                  /\ w \in Nat /\ w < Deep /\ TopAt(w) - 1 \in PageFrames
                  /\ InitPhase(i, w, v)
  BY <1>1, AtSlab
<1>5. /\ AfterWalk(w) /\ AllGot /\ available >= Max - 2 * i - 1
      /\ pc = "idle" /\ DM_START = 0
  BY <1>3, <1>4 DEF InitPhase
<1>6. CachesMapped'
  BY <1>3, CachesSame DEF PoolInv
<1>7. CASE front /\ job' = "fault" /\ UNCHANGED vars
  <2>1. pc' = "idle"
    BY <1>5, <1>7, BuddySame
  <2>2. InitPhase(i, w, v)'
    BY <1>3, <1>4, <1>7, <2>1 DEF InitPhase
  <2> QED BY <1>2, <1>3, <1>4, <1>6, <2>2, PoolFrom
<1>8. available \in Nat
  BY DEF Ind, TypeOK
<1>10. CASE available < 1 /\ job' = "panic" /\ UNCHANGED vars
  <2>1. ~Roomy
    BY <1>2, <1>5, <1>8, <1>10, RoomForSlab
  <2>2. pc' = "idle"
    BY <1>5, <1>10, BuddySame
  <2>3. InitPhase(i, w, v)'
    BY <1>4, <1>10, <2>1, <2>2 DEF InitPhase
  <2> QED BY <1>2, <1>3, <1>4, <1>6, <2>3, PoolFrom
<1>9. CASE job' = "fill" /\ (AllocWalk(1) \/ AllocPop(1))
  <2>1. BeforeWalk(v)' /\ Granted(TopAt(w) - 1) /\ available' = available - 1
    BY <1>4, <1>5, <1>9, PagePopped
  <2>2. PICK p : p = TopAt(w) - 1
    OBVIOUS
  <2>3. NewPage(p)'
    BY <1>3, <1>4, <1>5, <2>1, <2>2, GrantedIsNew
  <2>4. available' >= Max - 2 * i - 2 /\ pc' = "idle"
    BY <1>2, <1>5, <1>8, <2>1 DEF BeforeWalk
  <2>5. InitPhase(i, w, v)'
    BY <1>5, <1>9, <2>1, <2>2, <2>3, <2>4 DEF InitPhase
  <2> QED BY <1>2, <1>3, <1>4, <1>6, <2>5, PoolFrom
<1> QED BY <1>3, <1>7, <1>9, <1>10 DEF page_alloc

LEMMA PoolFillCache ==
  ASSUME Ind, NEW h, PoolInv(h), Levels > 1, slab_i \in Slabs, FillCache
  PROVE  PoolInv(h)'
<1>1. PICK i : i = slab_i - 1
  OBVIOUS
<1>2. i \in Nat /\ slab_i = i + 1 /\ i + 1 \in Slabs /\ Max \in Nat
  BY <1>1, AtSlab
<1>3. PICK w, v : /\ w = WalkOf(i) /\ v = WalkOf(i + 1) /\ w \in Nat /\ w < Deep
                  /\ TopAt(w) - 1 \in PageFrames /\ InitPhase(i, w, v)
  BY <1>1, AtSlab
<1>4. /\ job = "fill" /\ pc = "idle" /\ UNCHANGED vars
      /\ UNCHANGED <<front, freed, mine, cache, objects, dropped>>
  BY DEF FillCache, Returned, pages
<1>5. PICK p : p = TopAt(w) - 1
  OBVIOUS
<1>6. /\ BeforeWalk(v) /\ NewPage(p) /\ DM_START = 0 /\ available >= Max - 2 * i - 2
  BY <1>3, <1>4, <1>5 DEF InitPhase
<1>7. Page = p /\ p # NULL /\ p \in PageFrames
  BY <1>3, <1>5, <1>6, PageIs, FramesAreNotNull
<1>8. AllGot' /\ CachesMapped'
  BY <1>4, ReturnedGot, CachesSame DEF FillCache, PoolInv
<1>9. job' = (IF slab_i = SlabCount THEN "none" ELSE "init") /\ slab_i' = slab_i + 1
  BY <1>7 DEF FillCache
<1>11. pc' = "idle" /\ BeforeWalk(v)' /\ available' = available
  BY <1>4, <1>6, BuddySame
<1>13. CASE slab_i = SlabCount
  BY <1>6, <1>8, <1>9, <1>11, <1>13, PoolFrom DEF Ended
<1>14. CASE slab_i # SlabCount
  <2>1. PICK k : k = i + 1
    OBVIOUS
  <2>2. k \in Nat /\ k + 1 \in Slabs /\ slab_i' = k + 1
    BY <1>2, <1>9, <1>14, <2>1, HeapAssumption DEF Slabs
  <2>3. available' >= Max - 2 * k
    <3>1. available \in Nat
      BY DEF Ind, TypeOK
    <3> QED BY <1>2, <1>6, <1>11, <2>1, <3>1
  <2>4. PICK z : z = WalkOf(k + 1)
    OBVIOUS
  <2>5. InitPhase(k, v, z)'
    BY <1>8, <1>9, <1>11, <1>14, <2>3 DEF InitPhase
  <2>6. v = WalkOf(k)
    BY <1>3, <2>1
  <2> QED BY <1>8, <2>2, <2>4, <2>5, <2>6, PoolFrom
<1> QED BY <1>13, <1>14

-----------------------------------------------------------------------------
\* kmalloc and kfree leave the pages and the caches' places alone.
LEMMA PoolCaches ==
  ASSUME HeapInv, NEW h, PoolInv(h), job = "none", UNCHANGED vars,
         UNCHANGED <<front, mine, freed, slab_i, buddy, got, cache>>,
         job' \in Ended, slab_i = 0 => job' \in {"none", "no_cache"}
  PROVE  PoolInv(h)'
<1>0. CachesMapped'
  BY CachesSame DEF PoolInv
<1>1. CASE slab_i = 0
  <2>1. PagePhase(h)
    BY <1>1 DEF PoolInv
  <2>2. OneInv(h)' /\ pc' = pc /\ live' = live
    BY <2>1, BuddySame DEF PagePhase
  <2>3. PagePhase(h)'
    BY <1>1, <2>1, <2>2 DEF PagePhase, AllGot
  <2> QED BY <1>0, <1>1, <2>3, PoolFrom
<1>2. CASE slab_i = SlabCount + 1
  <2>1. pc' = "idle" /\ DM_START = 0
    BY <1>2, BuddySame DEF PoolInv
  <2> QED BY <1>0, <1>2, <2>1, PoolFrom
<1> QED BY <1>1, <1>2 DEF HeapInv, Phases

LEMMA PoolKmalloc ==
  ASSUME HeapInv, NEW h, PoolInv(h), NEW size, Kmalloc(size)
  PROVE  PoolInv(h)'
<1>1. PICK s : s = kmalloc_index(size)
  OBVIOUS
<1>2. /\ job = "none" /\ UNCHANGED vars
      /\ UNCHANGED <<front, freed, mine, slab_i, buddy, got, slab, cache>>
      /\ \/ job' = "no_cache"
         \/ s \in Slabs /\ cache[s] # NULL /\ job' \in Ended
  BY <1>1 DEF Kmalloc, pages, Ended
<1>3. s \in Slabs /\ cache[s] # NULL => slab_i # 0
  BY HeapAssumption DEF HeapInv, Served, Slabs
<1>4. job' \in Ended /\ (slab_i = 0 => job' \in {"none", "no_cache"})
  BY <1>2, <1>3 DEF Ended
<1> QED BY <1>2, <1>4, PoolCaches

LEMMA PoolKfree ==
  ASSUME Levels > 1, HeapInv, NEW h, PoolInv(h), NEW o \in objects, Kfree(o)
  PROVE  PoolInv(h)'
<1>1. job = "none" /\ job' = job
  BY KfreeSteps DEF Kfree
<1>2. UNCHANGED vars /\ UNCHANGED <<front, freed, mine, slab_i, buddy, got, cache>>
  BY DEF Kfree, pages
<1>3. job' \in Ended /\ job' \in {"none", "no_cache"}
  BY <1>1 DEF Ended
<1> QED BY <1>1, <1>2, <1>3, PoolCaches

LEMMA PoolSame ==
  ASSUME NEW h, Levels > 1, HeapInv, PoolInv(h), UNCHANGED <<vars, heap>>
  PROVE  PoolInv(h)'
<1>1. UNCHANGED <<front, job, slab_i, buddy, got, slab, cache, mine, freed, store, objects, dropped>> /\ UNCHANGED vars
  BY DEF heap
<1>2. CachesMapped'
  BY <1>1, CachesSame DEF PoolInv
<1>3. pc' = pc /\ live' = live /\ available' = available
  BY <1>1, BuddySame
<1>4. CASE slab_i = 0
  <2>1. PagePhase(h)
    BY <1>4 DEF PoolInv
  <2>2. OneInv(h)'
    BY <1>1, <2>1, BuddySame DEF PagePhase
  <2>3. PagePhase(h)'
    BY <1>1, <1>3, <2>1, <2>2 DEF PagePhase, AllGot
  <2> QED BY <1>1, <1>2, <1>4, <2>3, PoolFrom
<1>5. CASE slab_i \in Slabs
  <2>1. PICK i : i = slab_i - 1
    OBVIOUS
  <2>2. i \in Nat /\ slab_i = i + 1
    BY <1>5, <2>1, HeapAssumption DEF Slabs
  <2>3. PICK w, v : w = WalkOf(i) /\ v = WalkOf(i + 1) /\ InitPhase(i, w, v)
    BY <1>5, <2>1, AtSlab
  <2>4. /\ BeforeWalk(w) => BeforeWalk(w)'
        /\ BeforeWalk(v) => BeforeWalk(v)'
        /\ DuringWalk(w) => DuringWalk(w)'
        /\ AfterWalk(w) => AfterWalk(w)'
    BY <1>1, BuddySame
  <2>5. /\ AllGot => AllGot'
        /\ \A q : NewPage(q) => NewPage(q)'
    BY <1>1, <1>3 DEF AllGot, NewPage
  <2>6. InitPhase(i, w, v)'
    BY <1>1, <1>3, <2>3, <2>4, <2>5 DEF InitPhase
  <2> QED BY <1>1, <1>2, <1>5, <2>2, <2>3, <2>6, PoolFrom
<1>6. CASE slab_i = SlabCount + 1
  BY <1>1, <1>2, <1>3, <1>6, PoolFrom DEF PoolInv
<1> QED BY <1>4, <1>5, <1>6, HeapAssumption DEF HeapInv, Phases, Slabs

LEMMA PoolNext ==
  ASSUME Ind, HeapInv, NEW h, First(h), PoolInv(h), Levels > 1, [HeapNext]_<<vars, heap>>
  PROVE  PoolInv(h)'
<1>1. /\ Phases /\ PagesTyped /\ Served
      /\ job \in {"page_alloc", "page_free"} => slab_i = 0
      /\ job \in {"init", "alloc_cache", "objects", "fill"} => slab_i \in Slabs
  BY DEF HeapInv, Phases, PagesInv
<1>2. CASE Iteration /\ UNCHANGED heap
  BY <1>1, <1>2, PoolIterates
<1>3. ASSUME NEW n \in PageCounts, PageAlloc(n) PROVE PoolInv(h)'
  BY <1>3, PoolPageAlloc
<1>4. CASE PageAllocDone
  BY <1>1, <1>4, PoolPageAllocDone DEF PageAllocDone, Returned
<1>5. CASE PageFree
  BY <1>5, PoolPageFree
<1>6. CASE PageFreeDone
  BY <1>1, <1>6, PoolPageFreeDone DEF PageFreeDone, Returned
<1>7. CASE PageFreeAgain
  BY <1>7, PoolPageFreeAgain
<1>8. CASE InitSlab
  BY <1>8, PoolInitSlab
<1>9. CASE AllocCache
  BY <1>1, <1>9, PoolAllocCache DEF AllocCache
<1>10. CASE AllocCacheDone
  BY <1>1, <1>10, PoolAllocCacheDone DEF AllocCacheDone, Returned
<1>11. CASE AllocObjects
  BY <1>1, <1>11, PoolAllocObjects DEF AllocObjects
<1>12. CASE FillCache
  BY <1>1, <1>12, PoolFillCache DEF FillCache, Returned
<1>13. ASSUME NEW size \in AskedSizes, Kmalloc(size) PROVE PoolInv(h)'
  BY <1>13, PoolKmalloc
<1>14. ASSUME NEW o \in objects, Kfree(o) PROVE PoolInv(h)'
  BY <1>14, PoolKfree
<1>15. CASE UNCHANGED <<vars, heap>>
  BY <1>15, PoolSame
<1> QED BY <1>2, <1>3, <1>4, <1>5, <1>6, <1>7, <1>8, <1>9, <1>10, <1>11, <1>12, <1>13, <1>14, <1>15
        DEF HeapNext

\* The two pages that init_slab gets for a slab.
LEMMA NextPages ==
  ASSUME HeapInv, Levels > 1, NEW h, PoolInv(h)
  PROVE  /\ AllocCacheDone => Page = CachePage(slab_i)
         /\ FillCache => Page = Home(slab_i)
<1>1. ASSUME AllocCacheDone \/ FillCache PROVE slab_i \in Slabs
  BY <1>1 DEF AllocCacheDone, FillCache, Returned, HeapInv, Phases
<1>2. SUFFICES ASSUME slab_i \in Slabs
               PROVE  /\ AllocCacheDone => Page = CachePage(slab_i)
                      /\ FillCache => Page = Home(slab_i)
  BY <1>1
<1>3. PICK i : i = slab_i - 1
  OBVIOUS
<1>4. PICK w, v : /\ InitPhase(i, w, v)
                  /\ CachePage(slab_i) = TopAt(w) /\ Home(slab_i) = TopAt(w) - 1
  BY <1>2, <1>3, AtSlab
<1>5. ASSUME AllocCacheDone PROVE Page = TopAt(w)
  <2>1. NewPage(TopAt(w))
    BY <1>4, <1>5 DEF AllocCacheDone, Returned, InitPhase, DuringWalk
  <2> QED BY <2>1, PageIs
<1>6. ASSUME FillCache PROVE Page = TopAt(w) - 1
  <2>1. NewPage(TopAt(w) - 1)
    BY <1>4, <1>6 DEF FillCache, Returned, InitPhase
  <2> QED BY <2>1, PageIs
<1> QED BY <1>4, <1>5, <1>6

LEMMA FirstExists ==
  ASSUME Handles # {}
  PROVE  \E h : First(h)
<1>1. Handles \subseteq Nat
  BY BuddyAssumption
<1> QED BY <1>1, LeastNatural DEF First

\* What the slabs need and what they are given: with the name h for the pages
\* of the callers that come before init_slab.
LEMMA HeapInvariant ==
  ASSUME NEW h, First(h), Levels > 1
  PROVE  HeapSpec => [](Ind /\ HeapInv /\ PoolInv(h))
<1>1. HeapInit => Ind /\ HeapInv /\ PoolInv(h)
  BY IndInit, HeapInvInit, PoolInit DEF HeapInit
<1>2. Ind /\ HeapInv /\ PoolInv(h) /\ [HeapNext]_<<vars, heap>> => (Ind /\ HeapInv /\ PoolInv(h))'
  <2>1. [HeapNext]_<<vars, heap>> => [Next]_vars
    BY BuddySteps
  <2> QED BY <2>1, NextInd, NextPages, HeapInvNext, PoolNext
<1> QED BY <1>1, <1>2, PTL DEF HeapSpec

-----------------------------------------------------------------------------
\* The slabs from the one on that the tree has no new page for.
LEMMA OnlyDeepShare ==
  ASSUME Levels > 1, HeapInv, NEW s \in Slabs, Ready(s), Shares(s)
  PROVE  s >= Deep
<1>1. PICK r \in Slabs \ {s} : cache[r] = cache[s]
  BY DEF Shares
<1>2. /\ CachePage(s) # NULL /\ r \in Nat /\ s < slab_i /\ slab_i \in Nat
      /\ cache[s] = CachePage(s)
  BY SlabPage, HeapAssumption DEF HeapInv, Served, Phases, Ready
<1>3. cache[r] = CachePage(r)
  <2>1. r < slab_i \/ r > slab_i \/ r = slab_i
    BY <1>2
  <2>2. CASE r < slab_i
    BY <2>2 DEF HeapInv, Served
  <2>3. CASE r > slab_i
    BY <1>1, <1>2, <2>3 DEF HeapInv, Served
  <2>4. CASE r = slab_i
    BY <1>1, <1>2, <2>4 DEF HeapInv, Served
  <2> QED BY <2>1, <2>2, <2>3, <2>4
<1> QED BY <1>1, <1>2, <1>3, SlabPages

LEMMA DeepShare ==
  ASSUME Levels > 1, HeapInv, slab_i > Deep + 1
  PROVE  /\ Deep \in Slabs /\ Ready(Deep)
         /\ \A s \in Slabs : s >= Deep /\ Ready(s) => Shares(s)
<1>1. /\ slab_i \in 0..(SlabCount + 1) /\ SlabCount \in Nat /\ Deep \in Nat /\ Deep >= 1
  BY HeapAssumption, BuddyAssumption DEF HeapInv, Phases, Deep
<1>2. Deep \in Slabs /\ Deep + 1 \in Slabs /\ Deep + 1 >= Deep /\ Deep # Deep + 1
  BY <1>1 DEF Slabs
<1>3. Deep < slab_i /\ Deep + 1 < slab_i
  BY <1>1
<1>4. cache[Deep] = CachePage(Deep) /\ cache[Deep + 1] = CachePage(Deep + 1)
  BY <1>2, <1>3 DEF HeapInv, Served
<1>5. ASSUME NEW s \in Slabs, s >= Deep, s < slab_i PROVE Shares(s)
  <2>1. cache[s] = CachePage(s)
    BY <1>5 DEF HeapInv, Served
  <2>2. CachePage(s) = CachePage(Deep) /\ CachePage(s) = CachePage(Deep + 1)
    BY <1>1, <1>2, <1>5, SlabPages
  <2>3. CASE s = Deep
    BY <1>2, <1>4, <2>1, <2>2, <2>3 DEF Shares
  <2>4. CASE s # Deep
    BY <1>2, <1>4, <2>1, <2>2, <2>4 DEF Shares
  <2> QED BY <2>3, <2>4
<1> QED BY <1>2, <1>3, <1>5 DEF Ready

\* A slab with its pages to itself.
LEMMA OwnPages ==
  ASSUME Levels > 1, HeapInv, NEW s \in Slabs, Ready(s), ~Shares(s)
  PROVE  /\ s <= Deep /\ ~Crowded(s) /\ cache[s] = CachePage(s) /\ CacheAt(s)
         /\ Home(s) \in PageFrames /\ \A q \in PageFrames : slab[q] = s <=> q = Home(s)
<1>1. /\ s < slab_i /\ slab_i \in Nat /\ s \in Nat \ {0} /\ Deep \in Nat
      /\ Home(s) \in PageFrames /\ SlabCount \in Nat
  BY SlabPage, HeapAssumption DEF HeapInv, Phases, Ready
<1>2. s >= Deep => ~(slab_i > Deep + 1)
  BY DeepShare
<1>3. s <= Deep /\ ~Crowded(s)
  BY <1>1, <1>2 DEF Crowded
<1>4. cache[s] = CachePage(s) /\ CacheAt(s)
  BY <1>1, <1>3 DEF HeapInv, Served, ServedAt
<1>5. PICK r : r = slab[Home(s)]
  OBVIOUS
<1>6. r >= s /\ r \in 0..SlabCount /\ r < slab_i
  BY <1>1, <1>5 DEF HeapInv, PagesInv, PagesTyped
<1>7. r \in Slabs /\ Home(r) = Home(s)
  <2>1. r \in Slabs
    BY <1>1, <1>6 DEF Slabs
  <2>2. slab[Home(s)] # 0
    BY <1>1, <1>5, <1>6
  <2> QED BY <1>1, <1>5, <2>1, <2>2 DEF HeapInv, PagesInv
<1>8. r = s
  <2>1. SUFFICES ASSUME r # s PROVE FALSE
    OBVIOUS
  <2>2. r >= Deep /\ s >= Deep
    BY <1>7, <2>1, SlabPages
  <2> QED BY <1>1, <1>2, <1>6, <2>1, <2>2
<1>9. ASSUME NEW q \in PageFrames, slab[q] = s PROVE q = Home(s)
  <2>1. slab[q] # 0
    BY <1>1, <1>9
  <2> QED BY <1>9, <2>1 DEF HeapInv, PagesInv
<1> QED BY <1>1, <1>3, <1>4, <1>5, <1>8, <1>9

\* An object of such a slab is one of those its page was filled with.
LEMMA ObjectsPlace ==
  ASSUME Levels > 1, HeapInv, NEW s \in Slabs, Ready(s), ~Shares(s), NEW o \in InUse(s)
  PROVE  o.at \in Object /\ \E e \in Places(s) : o.at.off = e * ObjSize[s]
<1>1. Sound(s, Home(s), store[CachePage(s)], Taken(s)) /\ Home(s) \in PageFrames
  BY OwnPages DEF CacheAt
<1>2. o.at \in Filled(s, Home(s))
  BY <1>1 DEF Sound, Taken
<1>3. PICK e \in Places(s) : o.at = fill_cache(s, Home(s))[e]
  BY <1>2 DEF Filled
<1>4. o.at = [frame |-> Home(s), off |-> e * ObjSize[s]]
  BY <1>1, <1>3, FillTyped
<1>5. o.at.off = e * ObjSize[s]
  BY <1>4
<1>6. o \in objects
  BY DEF InUse
<1>7. o.at \in Object
  BY <1>6 DEF HeapInv, ObjectsInv
<1> QED BY <1>5, <1>7

LEMMA WordsApart ==
  ASSUME Levels > 1, HeapInv, NEW o1 \in objects, NEW o2 \in objects, o1 # o2,
         ~Shares(slab[o1.at.frame])
  PROVE  Words(o1) \cap Words(o2) = {}
<1> SUFFICES ASSUME NEW v \in 0..(o1.size - 1), NEW w \in 0..(o2.size - 1),
                    <<o1.at.frame, o1.at.off + v>> = <<o2.at.frame, o2.at.off + w>>
             PROVE  FALSE
  BY DEF Words
<1>1. PICK s : s = slab[o1.at.frame]
  OBVIOUS
<1>2. o1.at.frame = o2.at.frame /\ o1.at.off + v = o2.at.off + w
  OBVIOUS
<1>3. s \in Slabs /\ o1.at.frame = Home(s) /\ slab_i = SlabCount + 1
  BY <1>1, Lookup
<1>4. Ready(s) /\ ~Shares(s)
  BY <1>1, <1>3, HeapAssumption DEF Ready, Slabs
<1>5. o1 \in InUse(s) /\ o2 \in InUse(s)
  BY <1>2, <1>3 DEF InUse
<1>6. /\ o1.size \in Nat /\ o2.size \in Nat /\ ObjSize[s] \in Nat
      /\ o1.size <= ObjSize[s] /\ o2.size <= ObjSize[s]
  <2>1. \A o \in objects : o.size \in Nat /\ o.size <= ObjSize[slab[o.at.frame]]
    BY DEF HeapInv, ObjectsInv
  <2>2. slab[o2.at.frame] = s
    BY <1>1, <1>2
  <2>3. ObjSize[s] \in Nat
    BY <1>3, PerPageSizes
  <2> QED BY <1>1, <2>1, <2>2, <2>3
<1>7. PICK e \in Places(s) : o1.at.off = e * ObjSize[s]
  BY <1>3, <1>4, <1>5, ObjectsPlace
<1>8. PICK f \in Places(s) : o2.at.off = f * ObjSize[s]
  BY <1>3, <1>4, <1>5, ObjectsPlace
<1>9. v \in Nat /\ w \in Nat /\ v < ObjSize[s] /\ w < ObjSize[s]
  BY <1>6
<1>10. e = f
  BY <1>2, <1>3, <1>7, <1>8, <1>9, PlacesApart
<1>11. o1.at = o2.at
  BY <1>2, <1>7, <1>8, <1>10 DEF HeapInv, ObjectsInv, Object
<1>12. s <= Deep /\ ~Crowded(s)
  BY <1>3, <1>4, OwnPages
<1>13. \A x, y \in InUse(s) : x.at = y.at => x = y
  BY <1>3, <1>12 DEF HeapInv, ObjectsInv
<1> QED BY <1>5, <1>11, <1>13

\* As many objects are left in a cache as it has entries for them.
LEMMA KeptOnce ==
  ASSUME NEW s \in Slabs, NEW p, NEW c, NEW U, Sound(s, p, c, U)
  PROVE  Cardinality(Kept(s, c)) = Cardinality(Left(s, c))
<1> DEFINE f == [e \in Left(s, c) |-> c.entries[e]]
<1>1. IsFiniteSet(Left(s, c))
  <2>1. 0 \in Int /\ PerPage(s) - 1 \in Int
    BY PerPageSizes
  <2>2. IsFiniteSet(Places(s))
    BY <2>1, FS_Interval DEF Places
  <2> QED BY <2>2, FS_Subset DEF Left
<1>2. f \in [Left(s, c) -> Kept(s, c)] /\ \A t \in Kept(s, c) : \E e \in Left(s, c) : f[e] = t
  BY DEF Kept
<1>3. \A e1, e2 \in Left(s, c) : f[e1] = f[e2] => e1 = e2
  BY DEF Sound
<1>4. f \in Bijection(Left(s, c), Kept(s, c))
  BY <1>2, <1>3 DEF Bijection, Injection, Surjection, IsInjective
<1>5. ExistsBijection(Left(s, c), Kept(s, c))
  BY <1>4 DEF ExistsBijection
<1> QED BY <1>1, <1>5, FS_Bijection

\* The slabs that share no page have it to themselves: their objects in use are
\* apart, each is as large as its owner asked for, and every object of the page
\* is in use, in the cache, was dropped by kfree behind the boundary in the page
\* or was skipped from the beginning, and only one of these.  Only slabs from
\* the one on that the tree has no page for share any.  A caller gets a word
\* nobody stored only when entries_sz, which nothing sets, was too large.
THEOREM ObjectsApart ==
  ASSUME Handles # {}, Levels > 1
  PROVE  HeapSpec => []Exclusive
<1>0. PICK h : First(h)
  BY FirstExists
<1>1. HeapInv => Exclusive
  <2> SUFFICES ASSUME HeapInv PROVE Exclusive
    OBVIOUS
  <2>1. \A s \in Slabs : Ready(s) /\ Shares(s) => s >= Levels - 1
    BY OnlyDeepShare DEF Deep
  <2>2. \A o1, o2 \in objects :
          o1 # o2 => Words(o1) \cap Words(o2) = {} \/ Shares(slab[o1.at.frame])
    BY WordsApart
  <2>3. ASSUME NEW o \in objects
        PROVE  IF Behind(o.at) THEN ksize(o) = 0 ELSE ksize(o) >= o.size
    <3>1. PICK r : r = slab[o.at.frame]
      OBVIOUS
    <3>2. r \in Slabs /\ r # 0 /\ vmm_virt2slab(o.at) = IF Behind(o.at) THEN 0 ELSE r
      BY <3>1, Lookup DEF Slabs
    <3>3. ObjSize[r] \in Nat /\ o.size \in Nat /\ o.size <= ObjSize[r]
      BY <3>1, <3>2, PerPageSizes DEF HeapInv, ObjectsInv
    <3>4. ksize(o) = IF Behind(o.at) THEN 0 ELSE ObjSize[r]
      BY <3>2 DEF ksize
    <3> QED BY <3>3, <3>4
  <2>4. ASSUME NEW s \in Slabs, Ready(s), ~Shares(s)
        PROVE  LET p == CHOOSE q \in PageFrames : slab[q] = s
                   filled == fill_cache(s, p)
                   used == {o.at : o \in {x \in objects : x.at.frame = p}}
                   lost == {x \in dropped : x.frame = p}
                   left == {e \in DOMAIN filled : e >= CacheOf(s).index}
                   kept == {CacheOf(s).entries[e] : e \in left}
                   skipped == {filled[e] : e \in {n \in DOMAIN filled :
                                 n < CacheOf(s).index - Cardinality(used \cup lost)}}
               IN  /\ used \cap kept = {} /\ used \cap lost = {} /\ lost \cap kept = {}
                   /\ Cardinality(kept) = Cardinality(left)
                   /\ used \cup lost \cup kept \cup skipped = {filled[e] : e \in DOMAIN filled}
    <3> DEFINE p == CHOOSE q \in PageFrames : slab[q] = s
               filled == fill_cache(s, p)
               used == {o.at : o \in {x \in objects : x.at.frame = p}}
               lost == {x \in dropped : x.frame = p}
               left == {e \in DOMAIN filled : e >= CacheOf(s).index}
               kept == {CacheOf(s).entries[e] : e \in left}
               skipped == {filled[e] : e \in {n \in DOMAIN filled :
                             n < CacheOf(s).index - Cardinality(used \cup lost)}}
    <3>1. /\ s <= Deep /\ ~Crowded(s) /\ CacheAt(s) /\ cache[s] = CachePage(s)
          /\ Home(s) \in PageFrames /\ \A q \in PageFrames : slab[q] = s <=> q = Home(s)
      BY <2>4, OwnPages
    <3>2. p = Home(s)
      BY <3>1
    <3>3. PICK c : c = CacheOf(s)
      OBVIOUS
    <3>4. c = store[CachePage(s)]
      BY <3>1, <3>3 DEF CacheOf
    <3> HIDE DEF p
    <3>5. used = {o.at : o \in InUse(s)} /\ lost = Lost(s)
      BY <3>2 DEF InUse, Lost
    <3>6. used \cup lost = Taken(s)
      BY <3>5 DEF Taken
    <3>7. used \cap lost = {}
      <4>1. \A o \in InUse(s) : o.at \notin dropped
        BY <3>1 DEF HeapInv, ObjectsInv
      <4> QED BY <3>5, <4>1 DEF Lost
    <3> HIDE DEF used, lost
    <3>8. DOMAIN filled = Places(s)
      BY <3>1, <3>2, FillTyped
    <3>9. left = Left(s, c)
      BY <3>3, <3>8 DEF Left
    <3>10. kept = Kept(s, c)
      BY <3>3, <3>9 DEF Kept
    <3>11. skipped = Skipped(s, Home(s), c, Taken(s))
      BY <3>2, <3>3, <3>6, <3>8 DEF Skipped
    <3>12. {filled[e] : e \in DOMAIN filled} = Filled(s, Home(s))
      BY <3>2, <3>8 DEF Filled
    <3>13. Sound(s, Home(s), c, Taken(s))
      BY <3>1, <3>4 DEF CacheAt
    <3>14. Cardinality(kept) = Cardinality(left)
      BY <3>9, <3>10, <3>13, KeptOnce
    <3>15. /\ (used \cup lost) \cap kept = {}
           /\ (used \cup lost) \cup kept \cup skipped = {filled[e] : e \in DOMAIN filled}
      BY <3>6, <3>10, <3>11, <3>12, <3>13 DEF Sound
    <3> HIDE DEF filled, left, kept, skipped
    <3>16. /\ used \cap kept = {} /\ used \cap lost = {} /\ lost \cap kept = {}
           /\ Cardinality(kept) = Cardinality(left)
           /\ used \cup lost \cup kept \cup skipped = {filled[e] : e \in DOMAIN filled}
      BY <3>7, <3>14, <3>15
    <3> QED BY <3>16 DEF p, filled, used, lost, left, kept, skipped
  <2>5. \A x \in dropped : Behind(x)
    BY DEF HeapInv, ObjectsInv
  <2>6. job = "wild" => \E s \in Slabs : Ready(s) /\ CacheOf(s).entries_sz \notin DOMAIN CacheOf(s).entries
    BY DEF HeapInv, Phases, TooFar
  <2>7. job = "overrun" => \E s \in Slabs : Ready(s) /\ Shares(s)
    <3>1. SUFFICES ASSUME job = "overrun" PROVE \E s \in Slabs : Ready(s) /\ Shares(s)
      OBVIOUS
    <3>2. slab_i > Deep + 1
      BY <3>1 DEF HeapInv, Phases, Crowded
    <3>3. Deep \in Nat /\ Deep >= Deep
      BY BuddyAssumption DEF Deep
    <3> QED BY <3>2, <3>3, DeepShare
  <2> QED BY <2>1, <2>2, <2>3, <2>4, <2>5, <2>6, <2>7 DEF Exclusive
<1>2. HeapSpec => [](Ind /\ HeapInv /\ PoolInv(h))
  BY <1>0, HeapInvariant
<1> QED BY <1>1, <1>2, PTL

-----------------------------------------------------------------------------
\* page_alloc and page_free of single pages never fault or read a wild entry in
\* the buddy, whatever an earlier caller has done, and init_slab gets every page
\* it asks for: only an area without a buddy in front, and a page returned
\* twice, end in a fault, and nothing in a panic.
THEOREM PagesServed ==
  ASSUME Handles # {}, Levels > 1, Roomy, DM_START = 0
  PROVE  HeapSpec => []FaultsHaveAReason
<1>1. PICK h : First(h)
  BY FirstExists
<1>2. HeapInv /\ PoolInv(h) => FaultsHaveAReason
  <2> SUFFICES ASSUME HeapInv, PoolInv(h) PROVE FaultsHaveAReason
    OBVIOUS
  <2>1. slab_i = 0 \/ slab_i \in Slabs \/ slab_i = SlabCount + 1
    BY HeapAssumption DEF HeapInv, Phases, Slabs
  <2>2. CASE slab_i = 0
    <3>1. PagePhase(h)
      BY <2>2 DEF PoolInv
    <3>2. pc \notin {"fault", "wild"}
      BY <3>1 DEF PagePhase, OneInv
    <3> QED BY <3>1, <3>2 DEF PagePhase, FaultsHaveAReason
  <2>3. CASE slab_i \in Slabs
    <3>1. PICK i : i = slab_i - 1
      OBVIOUS
    <3>2. PICK w, v : InitPhase(i, w, v)
      BY <2>3, <3>1, AtSlab
    <3>3. pc \notin {"fault", "wild"}
      BY <3>2 DEF InitPhase, DuringWalk, AfterWalk
    <3> QED BY <3>2, <3>3 DEF InitPhase, FaultsHaveAReason
  <2>4. CASE slab_i = SlabCount + 1
    BY <2>4 DEF PoolInv, Ended, FaultsHaveAReason
  <2> QED BY <2>1, <2>2, <2>3, <2>4
<1>3. HeapSpec => [](Ind /\ HeapInv /\ PoolInv(h))
  BY <1>1, HeapInvariant
<1> QED BY <1>2, <1>3, PTL

\* With the kernel's direct map, which is above physical memory, init_slab ends
\* at the address of the first cache: no slab ever has one, so kmalloc finds no
\* cache for any size.
NoneCached == \A s \in Slabs : cache[s] = NULL
THEOREM NoCacheInKernel ==
  ASSUME Handles # {}, Levels > 1, DM_START # 0
  PROVE  HeapSpec => []NoneCached
<1>1. PICK h : First(h)
  BY FirstExists
<1>2. PoolInv(h) => NoneCached
  BY DEF PoolInv, CachesMapped, NoneCached
<1>3. HeapSpec => [](Ind /\ HeapInv /\ PoolInv(h))
  BY <1>1, HeapInvariant
<1> QED BY <1>2, <1>3, PTL

\* The cache that is longer than its page is the one of the first slab, and that
\* one gets the last page of the buddy: what it has beyond the page is behind it.
THEOREM CacheEndsOutside ==
  ASSUME Handles # {}, Levels > 1, \A s \in Slabs : s # 1 => CacheWords(s) <= PageWords
  PROVE  HeapSpec => []OverflowOutside
<1>1. PICK h : First(h)
  BY FirstExists
<1>2. HeapInv => OverflowOutside
  <2> SUFFICES ASSUME HeapInv, NEW s \in Slabs, Ready(s), NEW w \in 0..(CacheWords(s) - 1),
                      NEW f, f = cache[s] + w \div PageWords, f # cache[s]
               PROVE  f \notin PageFrames
    BY DEF OverflowOutside
  <2>1. PerPage(s) \in Nat /\ PageWords \in Nat \ {0} /\ cache[s] = CachePage(s)
    BY PerPageSizes, HeapAssumption DEF HeapInv, Served, Ready
  <2>2. CacheWords(s) \in Nat /\ w \in Nat /\ w < CacheWords(s)
    BY <2>1 DEF CacheWords
  <2>3. PICK q : q = w \div PageWords
    OBVIOUS
  <2>4. q \in Nat /\ (w < PageWords => q = 0)
    BY <2>1, <2>2, <2>3
  <2>5. f = CachePage(s) + q /\ f # CachePage(s) /\ CachePage(s) \in Nat
    BY <2>1, <2>3, SlabPage
  <2>6. s = 1
    <3>1. SUFFICES ASSUME s # 1 PROVE FALSE
      OBVIOUS
    <3>2. w < PageWords
      BY <2>1, <2>2, <3>1
    <3> QED BY <2>4, <2>5, <3>2
  <2>7. CachePage(s) = Base + Max - 1 /\ Base \in Nat /\ Max \in Nat
    <3>1. WalkOf(0) = 0
      BY WalkRange
    <3>2. s - 1 = 0
      BY <2>6
    <3>3. BlockSize(0) = Max /\ Max \in Nat /\ Base \in Nat
      BY AreaCells, Sizes, BuddyAssumption DEF BlockSize, Max
    <3> QED BY <3>1, <3>2, <3>3 DEF CachePage, TopAt
  <2>8. f \notin Base..(Base + Max - 1)
    BY <2>4, <2>5, <2>7
  <2> QED BY <2>8 DEF PageFrames
<1>3. HeapSpec => [](Ind /\ HeapInv /\ PoolInv(h))
  BY <1>1, HeapInvariant
<1> QED BY <1>2, <1>3, PTL
=============================================================================
