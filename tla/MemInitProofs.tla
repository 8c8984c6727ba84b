--------------------------- MODULE MemInitProofs ---------------------------
(***************************************************************************)
(* For every memory map, every length of the kernel image and every amount *)
(* of reserved memory: what the passes over the boot loader's tags leave,  *)
(* where page_init puts page maps and buddies, and how booting ends.       *)
(***************************************************************************)
EXTENDS MemInit, NatLemmas, SequenceTheorems

-----------------------------------------------------------------------------
\* FlattenSeq of the community modules: what a flattened sequence of sequences
\* begins with, and where its elements come from.

\* The function behind FlattenSeq, on the first m of the sequences p.
Flat(f, p, m) == f = [l \in 1..m |-> IF l = 1 THEN p[l] ELSE f[l - 1] \o p[l]]

LEMMA FlatValues ==
  ASSUME NEW f, NEW p, NEW m \in Nat, Flat(f, p, m)
  PROVE  \A l \in 1..m : f[l] = IF l = 1 THEN p[l] ELSE f[l - 1] \o p[l]
  BY DEF Flat

\* Names that the provers do not look into: they would rewrite the sum and the
\* concatenation wherever these occur.
Follows(a, b) == a \in Nat /\ b = a + 1
Cat(s, t) == s \o t

LEMMA FlatNext ==
  ASSUME NEW f, NEW p, NEW m \in Nat, Flat(f, p, m), NEW a, NEW b \in 1..m, Follows(a, b)
  PROVE  /\ a = 0 => f[b] = p[b]
         /\ a # 0 => f[b] = Cat(f[a], p[b]) /\ a \in 1..m
<1>1. f[b] = IF b = 1 THEN p[b] ELSE f[b - 1] \o p[b]
  BY FlatValues
<1>2. a \in Nat /\ (b = 1 <=> a = 0) /\ b - 1 = a /\ (a # 0 => a \in 1..m)
  BY DEF Follows
<1>3. CASE a = 0
  BY <1>1, <1>2, <1>3
<1>4. CASE a # 0
  BY <1>1, <1>2, <1>4 DEF Cat
<1> QED
  BY <1>3, <1>4

LEMMA FlatExists ==
  ASSUME NEW p, NEW m \in Nat
  PROVE  \E f : Flat(f, p, m)
<1> DEFINE Bad == {k \in Nat : ~ \E f : Flat(f, p, k)}
<1>1. SUFFICES ASSUME Bad # {}
               PROVE  FALSE
  OBVIOUS
<1>2. PICK k \in Bad : \A j \in Bad : k <= j
  <2>1. Bad \subseteq Nat
    OBVIOUS
  <2> HIDE DEF Bad
  <2> QED
    BY <1>1, <2>1, LeastNatural
<1>3. CASE k = 0
  <2>1. Flat([l \in 1..0 |-> 0], p, 0)
    BY DEF Flat
  <2> QED
    BY <1>3, <2>1
<1>4. CASE k # 0
  <2>1. k - 1 \in Nat /\ k - 1 \notin Bad
    BY <1>2, <1>4
  <2>2. PICK f : Flat(f, p, k - 1)
    BY <2>1
  <2> DEFINE g == [l \in 1..k |-> IF l # k THEN f[l] ELSE IF k = 1 THEN p[k] ELSE f[k - 1] \o p[k]]
  <2>3. \A l \in 1..k : g[l] = IF l = 1 THEN p[l] ELSE g[l - 1] \o p[l]
    <3> TAKE l \in 1..k
    <3>1. \A j \in 1..(k - 1) : g[j] = f[j]
      OBVIOUS
    <3>2. g[k] = IF k = 1 THEN p[k] ELSE f[k - 1] \o p[k]
      BY <1>4
    <3> HIDE DEF g
    <3>3. CASE l = k
      <4>1. k # 1 => k - 1 \in 1..(k - 1)
        BY <1>4
      <4> QED
        BY <3>1, <3>2, <3>3, <4>1
    <3>4. CASE l # k
      <4>1. l \in 1..(k - 1) /\ (l # 1 => l - 1 \in 1..(k - 1))
        BY <3>4
      <4> QED
        BY <2>1, <2>2, <3>1, <4>1, FlatValues
    <3> QED
      BY <3>3, <3>4
  <2>4. Flat(g, p, k)
    <3>1. g = [l \in 1..k |-> g[l]]
      OBVIOUS
    <3> HIDE DEF g
    <3> QED
      BY <2>3, <3>1 DEF Flat
  <2> QED
    BY <2>4
<1> QED
  BY <1>3, <1>4

\* Two such functions agree as far as their sequences do.
LEMMA FlatUnique ==
  ASSUME NEW f, NEW g, NEW p, NEW q, NEW m \in Nat, NEW n \in Nat, m <= n,
         Flat(f, p, m), Flat(g, q, n), \A l \in 1..m : p[l] = q[l]
  PROVE  \A l \in 1..m : f[l] = g[l]
<1> DEFINE Bad == {l \in 1..m : f[l] # g[l]}
<1>1. SUFFICES ASSUME Bad # {}
               PROVE  FALSE
  OBVIOUS
<1>2. PICK k \in Bad : \A j \in Bad : k <= j
  <2>1. Bad \subseteq Nat
    OBVIOUS
  <2> HIDE DEF Bad
  <2> QED
    BY <1>1, <2>1, LeastNatural
<1>3. /\ k \in 1..m /\ k \in 1..n
      /\ f[k] = IF k = 1 THEN p[k] ELSE f[k - 1] \o p[k]
      /\ g[k] = IF k = 1 THEN q[k] ELSE g[k - 1] \o q[k]
  BY FlatValues
<1>4. CASE k = 1
  BY <1>2, <1>3, <1>4
<1>5. CASE k # 1
  <2>1. k - 1 \in 1..m /\ k - 1 \notin Bad
    BY <1>2, <1>5
  <2> QED
    BY <1>2, <1>3, <1>5, <2>1
<1> QED
  BY <1>4, <1>5

\* Its values are sequences of the same elements.
LEMMA FlatType ==
  ASSUME NEW X, NEW m \in Nat, NEW p, \A l \in 1..m : p[l] \in Seq(X),
         NEW f, Flat(f, p, m)
  PROVE  \A l \in 1..m : f[l] \in Seq(X)
<1> DEFINE Bad == {l \in 1..m : f[l] \notin Seq(X)}
<1>1. SUFFICES ASSUME Bad # {}
               PROVE  FALSE
  OBVIOUS
<1>2. PICK k \in Bad : \A j \in Bad : k <= j
  <2>1. Bad \subseteq Nat
    OBVIOUS
  <2> HIDE DEF Bad
  <2> QED
    BY <1>1, <2>1, LeastNatural
<1>3. f[k] = IF k = 1 THEN p[k] ELSE f[k - 1] \o p[k]
  BY FlatValues
<1>4. CASE k = 1
  BY <1>2, <1>3, <1>4
<1>5. CASE k # 1
  <2>1. k - 1 \in 1..m /\ k - 1 \notin Bad
    BY <1>2, <1>5
  <2>2. f[k - 1] \in Seq(X) /\ p[k] \in Seq(X)
    BY <2>1
  <2>3. f[k - 1] \o p[k] \in Seq(X)
    BY <2>2, ConcatProperties
  <2> QED
    BY <1>2, <1>3, <1>5, <2>3
<1> QED
  BY <1>4, <1>5

\* n sequences over X, and the first u of them.
Parts(p, n, X) == p \in [1..n -> Seq(X)]
Cut(p, u) == [l \in 1..u |-> p[l]]

LEMMA PartsFacts ==
  ASSUME NEW X, NEW n \in Nat, NEW p, Parts(p, n, X)
  PROVE  /\ Len(p) = n
         /\ \A l \in 1..n : p[l] \in Seq(X)
         /\ n = 0 => p = <<>>
<1>1. Len(p) = n
  BY DEF Parts
<1>2. p \in Seq(Seq(X))
  BY DEF Parts
<1>3. n = 0 => p = <<>>
  BY <1>1, <1>2, EmptySeq
<1>4. \A l \in 1..n : p[l] \in Seq(X)
  BY DEF Parts
<1> QED
  BY <1>1, <1>3, <1>4

LEMMA CutFacts ==
  ASSUME NEW X, NEW n \in Nat, NEW p, Parts(p, n, X)
  PROVE  /\ \A u \in 0..n : Parts(Cut(p, u), u, X) /\ \A l \in 1..u : Cut(p, u)[l] = p[l]
         /\ Cut(p, n) = p
  BY DEF Parts, Cut

\* FlattenSeq is the last value of that function.
LEMMA FlattenValue ==
  ASSUME NEW p, NEW n \in Nat, n # 0, Len(p) = n
  PROVE  \E f : Flat(f, p, n) /\ FlattenSeq(p) = f[n]
<1> DEFINE f == CHOOSE f : Flat(f, p, n)
<1>1. Flat(f, p, n)
  BY FlatExists
<1>2. FlattenSeq(p) = f[n]
  BY DEF FlattenSeq, Flat
<1> QED
  BY <1>1, <1>2

LEMMA FlattenPrefix ==
  ASSUME NEW p, NEW q, NEW m \in Nat, NEW n \in Nat, n # 0, n <= m,
         Len(p) = m, Len(q) = n, \A l \in 1..n : q[l] = p[l]
  PROVE  \E f : Flat(f, p, m) /\ FlattenSeq(p) = f[m] /\ FlattenSeq(q) = f[n]
<1>1. PICK f : Flat(f, p, m) /\ FlattenSeq(p) = f[m]
  <2>1. m # 0
    OBVIOUS
  <2> QED
    BY <2>1, FlattenValue
<1>2. PICK g : Flat(g, q, n) /\ FlattenSeq(q) = g[n]
  BY FlattenValue
<1>3. \A l \in 1..n : g[l] = f[l]
  <2>1. Flat(g, q, n) /\ Flat(f, p, m)
    BY <1>1, <1>2
  <2> QED
    BY <2>1, FlatUnique
<1>4. g[n] = f[n]
  BY <1>3
<1> QED
  BY <1>1, <1>2, <1>4

\* It is a sequence of the same elements; of no sequences, the empty one.
LEMMA FlattenType ==
  ASSUME NEW X, NEW n \in Nat, NEW p, Parts(p, n, X)
  PROVE  /\ FlattenSeq(p) \in Seq(X)
         /\ n = 0 => FlattenSeq(p) = <<>>
<1>1. CASE n = 0
  <2>1. FlattenSeq(p) = p
    BY <1>1, PartsFacts DEF FlattenSeq
  <2>2. p = <<>> /\ <<>> \in Seq(X)
    BY <1>1, PartsFacts, EmptySeq
  <2> QED
    BY <2>1, <2>2
<1>2. CASE n # 0
  <2>1. Len(p) = n /\ \A l \in 1..n : p[l] \in Seq(X)
    BY PartsFacts
  <2>2. PICK f : Flat(f, p, n) /\ FlattenSeq(p) = f[n]
    BY <1>2, <2>1, FlattenValue
  <2>3. f[n] \in Seq(X)
    BY <1>2, <2>1, <2>2, FlatType
  <2> QED
    BY <1>2, <2>2, <2>3
<1> QED
  BY <1>1, <1>2

\* One sequence more.
LEMMA FlattenNext ==
  ASSUME NEW X, NEW m \in Nat, NEW p, Parts(p, m, X), NEW n \in Nat, Follows(n, m),
         NEW q, Parts(q, n, X), \A l \in 1..n : q[l] = p[l]
  PROVE  FlattenSeq(p) = Cat(FlattenSeq(q), p[m])
<1>1. m # 0 /\ m \in 1..m /\ n <= m
  BY DEF Follows
<1>2. Len(p) = m /\ Len(q) = n /\ p[m] \in Seq(X)
  BY <1>1, PartsFacts
<1>3. CASE n = 0
  <2>1. PICK f : Flat(f, p, m) /\ FlattenSeq(p) = f[m]
    BY <1>1, <1>2, FlattenValue
  <2>2. f[m] = p[m]
    BY <1>1, <1>3, <2>1, FlatNext
  <2>3. FlattenSeq(q) = <<>>
    BY <1>3, FlattenType
  <2>4. <<>> \o p[m] = p[m]
    BY <1>2, ConcatEmptySeq
  <2> QED
    BY <2>1, <2>2, <2>3, <2>4 DEF Cat
<1>4. CASE n # 0
  <2>1. PICK f : Flat(f, p, m) /\ FlattenSeq(p) = f[m] /\ FlattenSeq(q) = f[n]
    BY <1>1, <1>2, <1>4, FlattenPrefix
  <2>2. f[m] = Cat(f[n], p[m])
    BY <1>1, <1>4, <2>1, FlatNext
  <2> QED
    BY <2>1, <2>2
<1> QED
  BY <1>3, <1>4

\* What the first u sequences flatten to, for the arguments by induction.
Begin(p, u) == FlattenSeq(Cut(p, u))

LEMMA BeginFacts ==
  ASSUME NEW X, NEW n \in Nat, NEW p, Parts(p, n, X)
  PROVE  /\ \A u \in 0..n : Begin(p, u) \in Seq(X) /\ Len(Begin(p, u)) \in Nat
         /\ Begin(p, 0) = <<>> /\ Len(Begin(p, 0)) = 0
         /\ Begin(p, n) = FlattenSeq(p)
<1>1. ASSUME NEW u \in 0..n
      PROVE  Begin(p, u) \in Seq(X) /\ Len(Begin(p, u)) \in Nat
  <2>1. u \in Nat /\ Parts(Cut(p, u), u, X)
    BY CutFacts
  <2>2. Begin(p, u) \in Seq(X)
    BY <2>1, FlattenType DEF Begin
  <2> QED
    BY <2>2, LenProperties
<1>2. Begin(p, 0) = <<>>
  <2>1. 0 \in Nat /\ 0 \in 0..n
    OBVIOUS
  <2>2. Parts(Cut(p, 0), 0, X)
    BY <2>1, CutFacts
  <2> QED
    BY <2>1, <2>2, FlattenType DEF Begin
<1>3. Begin(p, n) = FlattenSeq(p)
  BY CutFacts DEF Begin
<1>4. Len(Begin(p, 0)) = 0
  BY <1>2, EmptySeq
<1> QED
  BY <1>1, <1>2, <1>3, <1>4

\* r is s followed by t.
Joined(s, t, r) ==
  /\ Len(s) \in Nat /\ Len(t) \in Nat
  /\ Len(r) = Len(s) + Len(t)
  /\ \A j \in 1..Len(s) : j \in 1..Len(r) /\ r[j] = s[j]
  /\ \A j \in 1..Len(t) : r[Len(s) + j] = t[j]

LEMMA BeginNext ==
  ASSUME NEW X, NEW n \in Nat, NEW p, Parts(p, n, X),
         NEW v \in 0..n, NEW u \in 1..n, Follows(v, u)
  PROVE  Joined(Begin(p, v), p[u], Begin(p, u))
<1>1. Begin(p, u) = Cat(Begin(p, v), p[u])
  <2>1. u \in 0..n /\ u \in Nat /\ v \in Nat /\ u \in 1..u /\ \A l \in 1..v : l \in 1..u
    BY DEF Follows
  <2>2. Parts(Cut(p, u), u, X) /\ Parts(Cut(p, v), v, X)
    BY <2>1, CutFacts
  <2>3. Cut(p, u)[u] = p[u] /\ \A l \in 1..v : Cut(p, v)[l] = Cut(p, u)[l]
    BY <2>1, CutFacts
  <2>4. FlattenSeq(Cut(p, u)) = Cat(FlattenSeq(Cut(p, v)), Cut(p, u)[u])
    BY <2>1, <2>2, <2>3, FlattenNext
  <2> QED
    BY <2>3, <2>4 DEF Begin
<1>2. Begin(p, v) \in Seq(X) /\ Len(Begin(p, v)) \in Nat
  BY BeginFacts
<1>3. p[u] \in Seq(X)
  BY PartsFacts
<1>4. Len(p[u]) \in Nat
  BY <1>3, LenProperties
<1>5. /\ Len(Begin(p, u)) = Len(Begin(p, v)) + Len(p[u])
      /\ \A j \in 1..(Len(Begin(p, v)) + Len(p[u])) : Begin(p, u)[j] =
           IF j <= Len(Begin(p, v)) THEN Begin(p, v)[j] ELSE p[u][j - Len(Begin(p, v))]
  BY <1>1, <1>2, <1>3, ConcatProperties DEF Cat
<1>6. ASSUME NEW j \in 1..Len(Begin(p, v))
      PROVE  j \in 1..Len(Begin(p, u)) /\ Begin(p, u)[j] = Begin(p, v)[j]
  <2>1. j \in 1..(Len(Begin(p, v)) + Len(p[u])) /\ j <= Len(Begin(p, v))
    BY <1>2, <1>4
  <2> QED
    BY <1>5, <2>1
<1>7. ASSUME NEW j \in 1..Len(p[u])
      PROVE  Begin(p, u)[Len(Begin(p, v)) + j] = p[u][j]
  <2> DEFINE k == Len(Begin(p, v)) + j
  <2>1. k \in 1..(Len(Begin(p, v)) + Len(p[u])) /\ ~(k <= Len(Begin(p, v)))
        /\ k - Len(Begin(p, v)) = j
    BY <1>2, <1>4
  <2> HIDE DEF k
  <2>2. Begin(p, u)[k] = p[u][j]
    BY <1>5, <2>1
  <2> QED
    BY <2>2 DEF k
<1> QED
  BY <1>2, <1>4, <1>5, <1>6, <1>7 DEF Joined

\* The number before a positive one.
LEMMA Before ==
  ASSUME NEW n \in Nat, NEW t \in 0..n, NEW S \in SUBSET (t..n), S # {}
  PROVE  \E u \in t..n : u \in S /\ (u # t => \E v \in t..n : v \notin S /\ Follows(v, u))
<1>1. PICK u \in t..n : u \in S /\ (u # t => u - 1 \in t..n /\ u - 1 \notin S)
  <2>1. t \in Nat
    OBVIOUS
  <2> QED
    BY <2>1, FirstOf
<1>2. u # t => Follows(u - 1, u)
  BY <1>1 DEF Follows
<1> QED
  BY <1>1, <1>2

\* The first t of the sequences give a beginning of the whole.
LEMMA FlattenBegins ==
  ASSUME NEW X, NEW n \in Nat, NEW p, Parts(p, n, X), NEW t \in 0..n
  PROVE  /\ Len(Begin(p, t)) <= Len(FlattenSeq(p))
         /\ \A j \in 1..Len(Begin(p, t)) : FlattenSeq(p)[j] = Begin(p, t)[j]
<1> DEFINE Begins(u) == \A j \in 1..Len(Begin(p, t)) :
                          j \in 1..Len(Begin(p, u)) /\ Begin(p, u)[j] = Begin(p, t)[j]
           Bad == {u \in t..n : ~Begins(u)}
<1>1. Begins(t)
  OBVIOUS
<1>2. ASSUME NEW v \in t..n, NEW u \in t..n, Follows(v, u), Begins(v)
      PROVE  Begins(u)
  <2>1. u \in 1..n /\ v \in 0..n
    BY <1>2 DEF Follows
  <2>2. Joined(Begin(p, v), p[u], Begin(p, u))
    BY <1>2, <2>1, BeginNext
  <2>3. \A j \in 1..Len(Begin(p, v)) : j \in 1..Len(Begin(p, u)) /\ Begin(p, u)[j] = Begin(p, v)[j]
    BY <2>2 DEF Joined
  <2> QED
    BY <1>2, <2>3
<1> HIDE DEF Begins
<1>3. Bad = {}
  <2>1. SUFFICES ASSUME Bad # {}
                 PROVE  FALSE
    OBVIOUS
  <2>2. Bad \in SUBSET (t..n)
    OBVIOUS
  <2>3. PICK u \in t..n : u \in Bad /\ (u # t => \E v \in t..n : v \notin Bad /\ Follows(v, u))
    <3> HIDE DEF Bad
    <3> QED
      BY <2>1, <2>2, Before
  <2>4. u # t
    BY <1>1, <2>3
  <2>5. PICK v \in t..n : v \notin Bad /\ Follows(v, u)
    BY <2>3, <2>4
  <2> QED
    BY <1>2, <2>3, <2>5
<1>4. Begins(n) /\ Begin(p, n) = FlattenSeq(p)
  <2>1. n \in t..n
    OBVIOUS
  <2> QED
    BY <1>3, <2>1, BeginFacts
<1>5. \A j \in 1..Len(Begin(p, t)) :
        j \in 1..Len(FlattenSeq(p)) /\ FlattenSeq(p)[j] = Begin(p, t)[j]
  BY <1>4 DEF Begins
<1>6. Len(Begin(p, t)) \in Nat /\ Len(FlattenSeq(p)) \in Nat
  <2>1. n \in 0..n
    OBVIOUS
  <2>2. Len(Begin(p, n)) \in Nat
    BY <2>1, BeginFacts
  <2> QED
    BY <1>4, <2>2, BeginFacts
<1>7. Len(Begin(p, t)) <= Len(FlattenSeq(p))
  BY <1>5, <1>6
<1> QED
  BY <1>5, <1>7

\* Every element comes from one of the sequences.
LEMMA FlattenElements ==
  ASSUME NEW X, NEW n \in Nat, NEW p, Parts(p, n, X)
  PROVE  \A j \in 1..Len(FlattenSeq(p)) :
           \E l \in 1..n : \E k \in 1..Len(p[l]) : FlattenSeq(p)[j] = p[l][k]
<1> DEFINE From(x) == \E l \in 1..n : \E k \in 1..Len(p[l]) : x = p[l][k]
           All(u) == \A j \in 1..Len(Begin(p, u)) : From(Begin(p, u)[j])
           Bad == {u \in 0..n : ~All(u)}
<1>1. All(0)
  <2>1. Len(Begin(p, 0)) = 0
    BY BeginFacts
  <2> QED
    BY <2>1
<1>2. ASSUME NEW v \in 0..n, NEW u \in 0..n, Follows(v, u), All(v)
      PROVE  All(u)
  <2>1. u \in 1..n
    BY <1>2 DEF Follows
  <2>2. Joined(Begin(p, v), p[u], Begin(p, u))
    BY <1>2, <2>1, BeginNext
  <2>3. /\ Len(Begin(p, v)) \in Nat /\ Len(p[u]) \in Nat
        /\ Len(Begin(p, u)) = Len(Begin(p, v)) + Len(p[u])
    BY <2>2 DEF Joined
  <2>4. \A j \in 1..Len(Begin(p, v)) : Begin(p, u)[j] = Begin(p, v)[j]
    BY <2>2 DEF Joined
  <2>5. \A j \in 1..Len(p[u]) : Begin(p, u)[Len(Begin(p, v)) + j] = p[u][j]
    BY <2>2 DEF Joined
  <2>6. \A k \in 1..Len(p[u]) : From(p[u][k])
    BY <2>1
  <2> HIDE DEF From
  <2>7. ASSUME NEW j \in 1..Len(Begin(p, u))
        PROVE  From(Begin(p, u)[j])
    <3>1. CASE j \in 1..Len(Begin(p, v))
      BY <1>2, <2>4, <3>1
    <3>2. CASE j \notin 1..Len(Begin(p, v))
      <4>1. PICK k \in 1..Len(p[u]) : j = Len(Begin(p, v)) + k
        <5>1. j - Len(Begin(p, v)) \in 1..Len(p[u])
              /\ j = Len(Begin(p, v)) + (j - Len(Begin(p, v)))
          BY <2>3, <3>2
        <5> QED
          BY <5>1
      <4>2. Begin(p, u)[j] = p[u][k]
        BY <2>5, <4>1
      <4> QED
        BY <2>6, <4>2
    <3> QED
      BY <3>1, <3>2
  <2> QED
    BY <2>7
<1> HIDE DEF All
<1>3. Bad = {}
  <2>1. SUFFICES ASSUME Bad # {}
                 PROVE  FALSE
    OBVIOUS
  <2>2. Bad \in SUBSET (0..n) /\ 0 \in 0..n
    OBVIOUS
  <2>3. PICK u \in 0..n : u \in Bad /\ (u # 0 => \E v \in 0..n : v \notin Bad /\ Follows(v, u))
    <3> HIDE DEF Bad
    <3> QED
      BY <2>1, <2>2, Before
  <2>4. u # 0
    BY <1>1, <2>3
  <2>5. PICK v \in 0..n : v \notin Bad /\ Follows(v, u)
    BY <2>3, <2>4
  <2> QED
    BY <1>2, <2>3, <2>5
<1>4. All(n) /\ Begin(p, n) = FlattenSeq(p)
  <2>1. n \in 0..n
    OBVIOUS
  <2> QED
    BY <1>3, <2>1, BeginFacts
<1> QED
  BY <1>4 DEF All

-----------------------------------------------------------------------------
\* The entries of the boot loader that MemInitAssumption speaks of.
Good(e, ke) ==
  /\ e \in Entry /\ ke \in Nat
  /\ PGROUNDUP(ke) + ListStruct <= DirectMapEnd
  /\ IF PGROUNDUP(e.addr) = 0 THEN PGROUNDUP(ke) <= e.len ELSE ke <= e.addr

\* What becomes of an entry e, with the image ending at ke: filled in, moved
\* behind the kernel, with its page map, and with its buddy.
AddrOf(e, ke) == IF PGROUNDUP(e.addr) = 0 THEN PGROUNDUP(ke) ELSE e.addr
UsedOf(e, ke) == IF PGROUNDUP(e.addr) = 0 THEN PGROUNDUP(ke) ELSE 0
PagesOf(e, ke) == (e.len - UsedOf(e, ke)) \div PGSIZE
MapSizeOf(e, ke) == PagesOf(e, ke) * PageStruct

Filled(e) == [addr |-> e.addr, len |-> e.len, base |-> 0, map_sz |-> 0, used |-> 0,
              buddies |-> "zero"]
Adjusted(e, ke) == [addr |-> AddrOf(e, ke), len |-> e.len, base |-> 0, map_sz |-> 0,
                    used |-> UsedOf(e, ke), buddies |-> "zero"]
Laid(e, ke) == [addr |-> AddrOf(e, ke), len |-> e.len,
                base |-> AddrOf(e, ke) + MapSizeOf(e, ke), map_sz |-> PagesOf(e, ke),
                used |-> UsedOf(e, ke) + MapSizeOf(e, ke), buddies |-> "zero"]
Final(e, ke) == [addr |-> AddrOf(e, ke), len |-> e.len,
                 base |-> AddrOf(e, ke) + MapSizeOf(e, ke), map_sz |-> PagesOf(e, ke),
                 used |-> UsedOf(e, ke) + MapSizeOf(e, ke),
                 buddies |-> IF e.len >= BUDDY_MAX_SIZE THEN "one" ELSE "zero"]

TagParts == [t \in DOMAIN Tags |-> UsableIn(t)]
Seen(t) == Len(Begin(TagParts, t - 1))   \* entries of the tags before t
N == Len(Reported)
Long(r, m) == {k \in 1..m : r[k].len >= BUDDY_MAX_SIZE}

Counting ==
  /\ areas = <<>> /\ available = ReservedSize
  /\ tag \in 1..(Len(Tags) + 1) /\ areas_sz = Seen(tag)

Allocated ==
  /\ areas_sz = N /\ Len(areas) = N /\ i \in 1..(N + 1)

Filling ==
  /\ Allocated /\ available + N * AreaStruct = ReservedSize
  /\ tag \in 1..(Len(Tags) + 1) /\ i = Seen(tag) + 1
  /\ \A k \in 1..N : areas[k] = IF k < i THEN Filled(Reported[k]) ELSE NoArea

Adjusting ==
  /\ Allocated /\ available + N * AreaStruct = ReservedSize
  /\ \A k \in 1..N : areas[k] = IF k < i THEN Adjusted(Reported[k], boot.kernel_end)
                                ELSE Filled(Reported[k])

Mapping ==
  /\ Allocated /\ available + N * AreaStruct = ReservedSize
  /\ \A k \in 1..N : areas[k] = IF k < i THEN Laid(Reported[k], boot.kernel_end)
                                ELSE Adjusted(Reported[k], boot.kernel_end)

Bootstrapping ==
  /\ Allocated
  /\ available + N * AreaStruct + Cardinality(Long(Reported, i - 1)) * BuddyNeeds = ReservedSize
  /\ \A k \in 1..N : areas[k] = IF k < i THEN Final(Reported[k], boot.kernel_end)
                                ELSE Laid(Reported[k], boot.kernel_end)

Finished ==
  /\ Allocated
  /\ available + N * AreaStruct + Cardinality(Long(Reported, N)) * BuddyNeeds = ReservedSize
  /\ \A k \in 1..N : areas[k] = Final(Reported[k], boot.kernel_end)

\* How booting ends otherwise.
TooLittle == N * AreaStruct + Cardinality(Long(Reported, N)) * BuddyNeeds > ReservedSize
TooHigh == \E k \in 1..N : Reported[k].addr + Reported[k].len > DirectMapEnd

MemInv ==
  /\ TypeOK
  /\ pc = "count" => Counting
  /\ pc = "fill" => Filling
  /\ pc = "adjust" => Adjusting
  /\ pc = "map" => Mapping
  /\ pc = "bootstrap" => Bootstrapping
  /\ pc = "done" => Finished
  /\ pc = "panic" => TooLittle
  /\ pc = "fault" => TooHigh
-----------------------------------------------------------------------------
\* Arithmetic.
LEMMA MonotoneProduct ==
  ASSUME NEW a \in Nat, NEW b \in Nat, NEW c \in Nat, a <= b
  PROVE  a * c \in Nat /\ b * c \in Nat /\ a * c <= b * c
<1>1. PICK d \in Nat : b = a + d
  <2>1. b - a \in Nat /\ b = a + (b - a)
    OBVIOUS
  <2> QED
    BY <2>1
<1>2. a * c \in Nat /\ d * c \in Nat /\ b * c = a * c + d * c
  BY <1>1
<1> QED
  BY <1>2

\* Rounding up to a page.
LEMMA PageRounding ==
  ASSUME NEW a \in Nat
  PROVE  PGROUNDUP(a) \in Nat /\ a <= PGROUNDUP(a) /\ (PGROUNDUP(a) = 0 <=> a = 0)
<1> DEFINE q == (a + PGSIZE - 1) \div PGSIZE
<1>1. PGSIZE \in Nat \ {0}
  BY SizesAssumption
<1>2. a + PGSIZE - 1 \in Nat
  BY <1>1
<1>3. q \in Nat /\ PGSIZE * q <= a + PGSIZE - 1 /\ a + PGSIZE - 1 < PGSIZE * q + PGSIZE
  BY <1>1, <1>2
<1>4. PGROUNDUP(a) = q * PGSIZE
  BY DEF PGROUNDUP
<1> HIDE DEF q
<1>5. q * PGSIZE = PGSIZE * q /\ q * PGSIZE \in Nat
  BY <1>1, <1>3
<1>6. a = 0 => q * PGSIZE = 0
  <2>1. CASE q = 0
    BY <1>1, <2>1
  <2>2. CASE q # 0 /\ a = 0
    <3>1. PGSIZE * 1 <= PGSIZE * q
      <4>1. 1 \in Nat /\ 1 <= q
        BY <1>3, <2>2
      <4>2. 1 * PGSIZE <= q * PGSIZE
        BY <1>1, <1>3, <4>1, MonotoneProduct
      <4> QED
        BY <1>1, <1>3, <4>2
    <3> QED
      BY <1>1, <1>3, <2>2, <3>1
  <2> QED
    BY <2>1, <2>2
<1> QED
  BY <1>1, <1>3, <1>4, <1>5, <1>6

\* Whole pages of a length.
LEMMA WholePages ==
  ASSUME NEW l \in Nat
  PROVE  /\ l \div PGSIZE \in Nat
         /\ (l \div PGSIZE) * PGSIZE <= l
         /\ l < (l \div PGSIZE) * PGSIZE + PGSIZE
<1>1. PGSIZE \in Nat \ {0}
  BY SizesAssumption
<1> DEFINE q == l \div PGSIZE
<1>2. q \in Nat /\ PGSIZE * q <= l /\ l < PGSIZE * q + PGSIZE
  BY <1>1
<1> HIDE DEF q
<1>3. q * PGSIZE = PGSIZE * q
  BY <1>1, <1>2
<1> QED
  BY <1>2, <1>3 DEF q

\* A number of whole pages, divided by the page size.
LEMMA PagesDivided ==
  ASSUME NEW q \in Nat, NEW l \in Nat
  PROVE  (q * PGSIZE + l) \div PGSIZE = q + (l \div PGSIZE)
<1>1. PGSIZE \in Nat \ {0} /\ q * PGSIZE \in Nat
  BY SizesAssumption
<1> DEFINE p == l \div PGSIZE
           r == l % PGSIZE
<1>2. p \in Nat /\ r \in 0..(PGSIZE - 1) /\ l = PGSIZE * p + r
  BY <1>1
<1> HIDE DEF p, r
<1>3. q * PGSIZE + l = PGSIZE * (q + p) + r /\ q + p \in Nat
  BY <1>1, <1>2
<1>4. \A m \in Nat \ {0} : \A k \in Nat : \A b \in 0..(m - 1) : (m * k + b) \div m = k
  OBVIOUS
<1>5. (q * PGSIZE + l) \div PGSIZE = q + p
  BY <1>1, <1>2, <1>3, <1>4
<1> QED
  BY <1>5 DEF p

-----------------------------------------------------------------------------
\* The sizes of the parts of an area.
LEMMA Sizes ==
  ASSUME NEW e, NEW ke, Good(e, ke)
  PROVE  /\ e.addr \in Nat /\ e.len \in Nat
         /\ AddrOf(e, ke) \in Nat /\ UsedOf(e, ke) \in Nat /\ UsedOf(e, ke) <= e.len
         /\ AddrOf(e, ke) = e.addr + UsedOf(e, ke)
         /\ ke <= AddrOf(e, ke)
<1>1. /\ e.addr \in Nat /\ e.len \in Nat /\ ke \in Nat
  BY DEF Good, Entry
<1>2. /\ PGROUNDUP(ke) \in Nat /\ ke <= PGROUNDUP(ke)
      /\ (PGROUNDUP(e.addr) = 0 <=> e.addr = 0)
  BY <1>1, PageRounding
<1>3. CASE PGROUNDUP(e.addr) = 0
  BY <1>1, <1>2, <1>3 DEF Good, AddrOf, UsedOf
<1>4. CASE PGROUNDUP(e.addr) # 0
  BY <1>1, <1>2, <1>4 DEF Good, AddrOf, UsedOf
<1> QED
  BY <1>3, <1>4

LEMMA MapFits ==
  ASSUME NEW e, NEW ke, Good(e, ke)
  PROVE  /\ PagesOf(e, ke) \in Nat /\ MapSizeOf(e, ke) \in Nat
         /\ UsedOf(e, ke) + MapSizeOf(e, ke) <= e.len
         /\ PagesOf(e, ke) # 0 => UsedOf(e, ke) + MapSizeOf(e, ke) + ListStruct <= e.len
<1> DEFINE l == e.len - UsedOf(e, ke)
           p == PagesOf(e, ke)
<1>1. /\ PageStruct \in Nat /\ PGSIZE \in Nat \ {0} /\ ListStruct \in Nat
      /\ PageStruct + ListStruct <= PGSIZE
  BY SizesAssumption
<1>2. e.len \in Nat /\ UsedOf(e, ke) \in Nat /\ UsedOf(e, ke) <= e.len
  BY Sizes
<1>3. l \in Nat
  BY <1>2
<1>4. p = l \div PGSIZE
  BY DEF PagesOf
<1>5. p \in Nat /\ p * PGSIZE <= l
  <2> HIDE DEF l, p
  <2> QED
    BY <1>3, <1>4, WholePages
<1> HIDE DEF p
<1>6. MapSizeOf(e, ke) = p * PageStruct
  BY DEF MapSizeOf, p
<1>7. PICK d \in Nat : PGSIZE = PageStruct + d /\ ListStruct <= d
  <2>1. PGSIZE - PageStruct \in Nat /\ ListStruct <= PGSIZE - PageStruct
        /\ PGSIZE = PageStruct + (PGSIZE - PageStruct)
    BY <1>1
  <2> QED
    BY <2>1
<1>8. p * PageStruct \in Nat /\ p * d \in Nat /\ p * PGSIZE = p * PageStruct + p * d
  BY <1>1, <1>5, <1>7
<1>9. p # 0 => ListStruct <= p * d
  <2>1. p # 0 => 1 * d <= p * d
    <3>1. 1 \in Nat /\ (p # 0 => 1 <= p)
      BY <1>5
    <3> QED
      BY <1>5, <1>7, <3>1, MonotoneProduct
  <2>2. 1 * d = d
    BY <1>7
  <2> QED
    BY <1>1, <1>7, <1>8, <2>1, <2>2
<1>10. p * PageStruct + p * d <= l
  BY <1>5, <1>8
<1>11. UsedOf(e, ke) + p * PageStruct + p * d <= e.len
  <2> DEFINE s == p * PageStruct + p * d
  <2>1. s \in Nat /\ s <= l
    BY <1>8, <1>10
  <2> HIDE DEF s
  <2>2. UsedOf(e, ke) + s <= e.len
    BY <1>2, <2>1
  <2> QED
    BY <1>2, <1>8, <2>2 DEF s
<1> QED
  BY <1>1, <1>2, <1>5, <1>6, <1>8, <1>9, <1>11 DEF p

\* The records are areas.
LEMMA AreaTypes ==
  ASSUME NEW e, NEW ke, Good(e, ke)
  PROVE  /\ NoArea \in AreaT /\ Filled(e) \in AreaT /\ Adjusted(e, ke) \in AreaT
         /\ Laid(e, ke) \in AreaT /\ Final(e, ke) \in AreaT
<1>1. /\ e.addr \in Nat /\ e.len \in Nat
      /\ AddrOf(e, ke) \in Nat /\ UsedOf(e, ke) \in Nat
      /\ PagesOf(e, ke) \in Nat /\ MapSizeOf(e, ke) \in Nat
  BY Sizes, MapFits
<1> QED
  BY <1>1 DEF AreaT, NoArea, Filled, Adjusted, Laid, Final

-----------------------------------------------------------------------------
\* What the boot loader reports.
LEMMA OneEntry ==
  ASSUME NEW e \in Entry
  PROVE  <<e>> \in Seq(Entry) /\ Len(<<e>>) = 1 /\ \A j \in 1..1 : <<e>>[j] = e
  OBVIOUS

LEMMA UsableEntries ==
  ASSUME NEW entries \in Seq(Entry)
  PROVE  /\ Usable(entries) \in Seq(Entry)
         /\ \A j \in 1..Len(Usable(entries)) : \E k \in DOMAIN entries :
              entries[k].usable /\ Usable(entries)[j] = entries[k]
<1> DEFINE n == Len(entries)
           p == [k \in DOMAIN entries |->
                   IF entries[k].usable THEN <<entries[k]>> ELSE <<>>]
<1>1. n \in Nat /\ DOMAIN entries = 1..n /\ \A k \in 1..n : entries[k] \in Entry
  BY LenProperties
<1>2. \A k \in 1..n : /\ p[k] \in Seq(Entry)
                      /\ \A m \in 1..Len(p[k]) : p[k][m] = entries[k] /\ entries[k].usable
  <2> TAKE k \in 1..n
  <2>1. p[k] = IF entries[k].usable THEN <<entries[k]>> ELSE <<>>
    BY <1>1
  <2>2. CASE entries[k].usable
    <3>1. p[k] = <<entries[k]>> /\ entries[k] \in Entry
      BY <1>1, <2>1, <2>2
    <3> HIDE DEF p
    <3> QED
      BY <2>2, <3>1, OneEntry
  <2>3. CASE ~entries[k].usable
    <3>1. p[k] = <<>> /\ <<>> \in Seq(Entry) /\ Len(<<>>) = 0
      BY <2>1, <2>3, EmptySeq
    <3> HIDE DEF p
    <3> QED
      BY <3>1
  <2> QED
    BY <2>2, <2>3
<1>3. Parts(p, n, Entry)
  <2>1. p = [k \in 1..n |-> p[k]]
    BY <1>1
  <2> HIDE DEF p, n
  <2> QED
    BY <1>2, <2>1 DEF Parts
<1>4. Usable(entries) = FlattenSeq(p)
  BY DEF Usable
<1> HIDE DEF p, n
<1>5. FlattenSeq(p) \in Seq(Entry)
  BY <1>1, <1>3, FlattenType
<1>6. \A j \in 1..Len(FlattenSeq(p)) :
        \E k \in 1..n : \E m \in 1..Len(p[k]) : FlattenSeq(p)[j] = p[k][m]
  BY <1>1, <1>3, FlattenElements
<1>7. ASSUME NEW j \in 1..Len(FlattenSeq(p))
      PROVE  \E k \in DOMAIN entries : entries[k].usable /\ FlattenSeq(p)[j] = entries[k]
  <2>1. PICK k \in 1..n : \E m \in 1..Len(p[k]) : FlattenSeq(p)[j] = p[k][m]
    BY <1>6
  <2>2. PICK m \in 1..Len(p[k]) : FlattenSeq(p)[j] = p[k][m]
    BY <2>1
  <2> QED
    BY <1>1, <1>2, <2>2
<1> QED
  BY <1>4, <1>5, <1>7

LEMMA BootTypes ==
  ASSUME boot \in BootInfos
  PROVE  /\ Len(Tags) \in Nat /\ DOMAIN Tags = 1..Len(Tags)
         /\ \A t \in 1..Len(Tags) : Tags[t].mmap \in BOOLEAN /\ Tags[t].entries \in Seq(Entry)
         /\ boot.kernel_end \in Nat
<1>1. boot \in BootInfo
  BY MemInitAssumption
<1>2. Tags \in Seq([mmap : BOOLEAN, entries : Seq(Entry)]) /\ boot.kernel_end \in Nat
  BY <1>1 DEF BootInfo, Tags
<1>3. \A t \in 1..Len(Tags) : Tags[t] \in [mmap : BOOLEAN, entries : Seq(Entry)]
  BY <1>2, ElementOfSeq
<1> QED
  BY <1>2, <1>3, LenProperties

LEMMA PartsOfTags ==
  ASSUME boot \in BootInfos
  PROVE  /\ Parts(TagParts, Len(Tags), Entry)
         /\ Reported = FlattenSeq(TagParts)
         /\ \A t \in 1..Len(Tags) : TagParts[t] = UsableIn(t)
<1>1. /\ Len(Tags) \in Nat /\ DOMAIN Tags = 1..Len(Tags)
      /\ \A t \in 1..Len(Tags) : Tags[t].mmap \in BOOLEAN /\ Tags[t].entries \in Seq(Entry)
  BY BootTypes
<1>2. ASSUME NEW t \in 1..Len(Tags)
      PROVE  UsableIn(t) \in Seq(Entry)
  <2>1. Usable(Tags[t].entries) \in Seq(Entry) /\ <<>> \in Seq(Entry)
    BY <1>1, UsableEntries, EmptySeq
  <2> QED
    BY <2>1 DEF UsableIn
<1>3. TagParts = [t \in 1..Len(Tags) |-> UsableIn(t)]
  BY <1>1 DEF TagParts
<1> QED
  BY <1>1, <1>2, <1>3 DEF Parts, Reported, TagParts

\* Every reported area satisfies what MemInitAssumption says of it.
LEMMA ReportedGood ==
  ASSUME boot \in BootInfos
  PROVE  /\ Reported \in Seq(Entry) /\ N \in Nat /\ DOMAIN Reported = 1..N
         /\ \A k \in 1..N : Good(Reported[k], boot.kernel_end)
<1>1. /\ Len(Tags) \in Nat /\ DOMAIN Tags = 1..Len(Tags)
      /\ \A t \in 1..Len(Tags) : Tags[t].mmap \in BOOLEAN /\ Tags[t].entries \in Seq(Entry)
      /\ boot.kernel_end \in Nat
  BY BootTypes
<1>2. /\ Parts(TagParts, Len(Tags), Entry) /\ Reported = FlattenSeq(TagParts)
      /\ \A t \in 1..Len(Tags) : TagParts[t] = UsableIn(t)
  BY PartsOfTags
<1>3. Reported \in Seq(Entry)
  BY <1>1, <1>2, FlattenType
<1>4. ASSUME NEW j \in 1..Len(Reported)
      PROVE  Good(Reported[j], boot.kernel_end)
  <2>1. PICK t \in 1..Len(Tags) : \E m \in 1..Len(TagParts[t]) : Reported[j] = TagParts[t][m]
    BY <1>1, <1>2, FlattenElements
  <2>2. PICK m \in 1..Len(UsableIn(t)) : Reported[j] = UsableIn(t)[m]
    BY <1>2, <2>1
  <2>3. Tags[t].mmap /\ UsableIn(t) = Usable(Tags[t].entries)
    <3>1. CASE ~Tags[t].mmap
      <4>1. UsableIn(t) = <<>> /\ Len(<<>>) = 0
        BY <3>1, EmptySeq DEF UsableIn
      <4> QED
        BY <2>2, <4>1
    <3> QED
      BY <1>1, <3>1 DEF UsableIn
  <2>4. PICK k \in DOMAIN Tags[t].entries :
          Tags[t].entries[k].usable /\ Reported[j] = Tags[t].entries[k]
    <3>1. Tags[t].entries \in Seq(Entry)
      BY <1>1
    <3> QED
      BY <2>2, <2>3, <3>1, UsableEntries
  <2>5. Reported[j] \in Entry
    BY <1>3, ElementOfSeq
  <2>6. /\ PGROUNDUP(boot.kernel_end) + ListStruct <= DirectMapEnd
        /\ IF PGROUNDUP(Tags[t].entries[k].addr) = 0
           THEN PGROUNDUP(boot.kernel_end) <= Tags[t].entries[k].len
           ELSE boot.kernel_end <= Tags[t].entries[k].addr
    <3>1. t \in DOMAIN boot.tags /\ k \in DOMAIN boot.tags[t].entries
      BY <1>1, <2>4 DEF Tags
    <3> QED
      BY <2>4, <3>1, MemInitAssumption DEF Tags
  <2> QED
    BY <1>1, <2>4, <2>5, <2>6 DEF Good
<1> QED
  BY <1>3, <1>4, LenProperties DEF N

\* How far the passes over the tags have come.
LEMMA PassesOverTags ==
  ASSUME boot \in BootInfos
  PROVE  /\ Seen(1) = 0 /\ Seen(Len(Tags) + 1) = N
         /\ \A t \in 1..(Len(Tags) + 1) : Seen(t) \in Nat /\ Seen(t) <= N
         /\ \A t \in 1..Len(Tags) :
              /\ Len(UsableIn(t)) \in Nat
              /\ Seen(t + 1) = Seen(t) + Len(UsableIn(t))
              /\ \A j \in 1..Len(UsableIn(t)) :
                   Reported[Seen(t) + j] = UsableIn(t)[j] /\ UsableIn(t)[j] \in Entry
<1> DEFINE n == Len(Tags)
           S(t) == Len(Begin(TagParts, t))
<1>1. n \in Nat /\ Parts(TagParts, n, Entry) /\ Reported = FlattenSeq(TagParts)
      /\ \A t \in 1..n : TagParts[t] = UsableIn(t)
  BY BootTypes, PartsOfTags
<1> HIDE DEF n
<1>2. S(0) = 0 /\ S(n) = N /\ \A t \in 0..n : S(t) \in Nat
  BY <1>1, BeginFacts DEF N
<1>3. ASSUME NEW t \in 0..n
      PROVE  /\ S(t) <= N
             /\ \A j \in 1..S(t) : Reported[j] = Begin(TagParts, t)[j]
  <2>1. /\ Len(Begin(TagParts, t)) <= Len(FlattenSeq(TagParts))
        /\ \A j \in 1..Len(Begin(TagParts, t)) : FlattenSeq(TagParts)[j] = Begin(TagParts, t)[j]
    <3>1. n \in Nat /\ Parts(TagParts, n, Entry)
      BY <1>1
    <3> QED
      BY <3>1, FlattenBegins
  <2> QED
    BY <1>1, <2>1 DEF N
<1>4. ASSUME NEW v \in 0..n, NEW t \in 1..n, Follows(v, t)
      PROVE  /\ Len(UsableIn(t)) \in Nat
             /\ S(t) = S(v) + Len(UsableIn(t))
             /\ \A j \in 1..Len(UsableIn(t)) :
                  Reported[S(v) + j] = UsableIn(t)[j] /\ UsableIn(t)[j] \in Entry
  <2>1. Joined(Begin(TagParts, v), UsableIn(t), Begin(TagParts, t))
    <3>1. Joined(Begin(TagParts, v), TagParts[t], Begin(TagParts, t))
      BY <1>1, <1>4, BeginNext
    <3>2. TagParts[t] = UsableIn(t)
      BY <1>1
    <3> QED
      BY <3>1, <3>2
  <2>2. Len(UsableIn(t)) \in Nat /\ S(t) = S(v) + Len(UsableIn(t)) /\ S(v) \in Nat
    BY <2>1 DEF Joined
  <2>3. ASSUME NEW j \in 1..Len(UsableIn(t))
        PROVE  Reported[S(v) + j] = UsableIn(t)[j]
    <3>1. Begin(TagParts, t)[S(v) + j] = UsableIn(t)[j]
      BY <2>1 DEF Joined
    <3>2. S(v) + j \in 1..S(t) /\ t \in 0..n
      BY <2>2
    <3> QED
      BY <1>3, <3>1, <3>2
  <2>4. UsableIn(t) \in Seq(Entry)
    <3>1. TagParts[t] \in Seq(Entry) /\ TagParts[t] = UsableIn(t)
      BY <1>1, PartsFacts
    <3> QED
      BY <3>1
  <2>5. \A j \in 1..Len(UsableIn(t)) : UsableIn(t)[j] \in Entry
    BY <2>4, ElementOfSeq
  <2> QED
    BY <2>2, <2>3, <2>5
<1>5. \A t \in 1..(n + 1) : Seen(t) = S(t - 1) /\ t - 1 \in 0..n
  BY <1>1 DEF Seen
<1> HIDE DEF S
<1>6. Seen(1) = 0 /\ Seen(n + 1) = N
  <2>1. 1 \in 1..(n + 1) /\ n + 1 \in 1..(n + 1) /\ 1 - 1 = 0 /\ (n + 1) - 1 = n
    BY <1>1
  <2> QED
    BY <1>2, <1>5, <2>1
<1>7. \A t \in 1..(n + 1) : Seen(t) \in Nat /\ Seen(t) <= N
  BY <1>2, <1>3, <1>5
<1>8. ASSUME NEW t \in 1..n
      PROVE  /\ Len(UsableIn(t)) \in Nat
             /\ Seen(t + 1) = Seen(t) + Len(UsableIn(t))
             /\ \A j \in 1..Len(UsableIn(t)) :
                  Reported[Seen(t) + j] = UsableIn(t)[j] /\ UsableIn(t)[j] \in Entry
  <2>1. PICK v \in 0..n : v = t - 1 /\ Follows(v, t)
    <3>1. t - 1 \in 0..n /\ Follows(t - 1, t)
      BY <1>1 DEF Follows
    <3> QED
      BY <3>1
  <2>2. Seen(t) = S(v)
    BY <1>1, <1>5, <2>1
  <2>3. Seen(t + 1) = S(t)
    <3>1. t + 1 \in 1..(n + 1) /\ (t + 1) - 1 = t
      BY <1>1
    <3> QED
      BY <1>5, <3>1
  <2> QED
    BY <1>4, <2>1, <2>2, <2>3
<1> QED
  BY <1>6, <1>7, <1>8 DEF n

-----------------------------------------------------------------------------
\* The steps.
LEMMA BootKept ==
  ASSUME boot' = boot
  PROVE  /\ Tags' = Tags /\ TagParts' = TagParts /\ Reported' = Reported /\ N' = N
         /\ boot.kernel_end' = boot.kernel_end
<1>1. Tags' = Tags
  BY DEF Tags
<1>2. TagParts' = TagParts
  BY <1>1 DEF TagParts, UsableIn
<1>3. Reported' = Reported
  BY <1>1 DEF Reported, UsableIn
<1> QED
  BY <1>1, <1>2, <1>3 DEF N

LEMMA OneArea ==
  ASSUME areas \in Seq(AreaT), Len(areas) = N, NEW k \in 1..N, NEW x \in AreaT,
         areas' = [areas EXCEPT ![k] = x]
  PROVE  /\ areas' \in Seq(AreaT) /\ Len(areas') = N
         /\ \A j \in 1..N : areas'[j] = IF j = k THEN x ELSE areas[j]
  BY ExceptSeq

LEMMA LongNumbers ==
  ASSUME NEW r, NEW m \in Nat
  PROVE  /\ IsFiniteSet(Long(r, m)) /\ Cardinality(Long(r, m)) \in Nat
         /\ Cardinality(Long(r, 0)) = 0
         /\ \A k \in 0..m : Cardinality(Long(r, k)) <= Cardinality(Long(r, m))
<1>1. \A k \in 0..m : IsFiniteSet(Long(r, k))
  <2> TAKE k \in 0..m
  <2>1. IsFiniteSet(1..k) /\ Long(r, k) \subseteq 1..k
    BY FS_Interval DEF Long
  <2> QED
    BY <2>1, FS_Subset
<1>2. Long(r, 0) = {}
  BY DEF Long
<1>3. \A k \in 0..m : Long(r, k) \subseteq Long(r, m)
  BY DEF Long
<1>4. IsFiniteSet(Long(r, m))
  BY <1>1
<1> QED
  BY <1>2, <1>3, <1>4, FS_EmptySet, FS_Subset, FS_CardinalityType

LEMMA LongNext ==
  ASSUME NEW r, NEW m \in Nat, m # 0
  PROVE  Cardinality(Long(r, m)) = IF r[m].len >= BUDDY_MAX_SIZE
                                   THEN Cardinality(Long(r, m - 1)) + 1
                                   ELSE Cardinality(Long(r, m - 1))
<1>1. m \notin Long(r, m - 1) /\ m - 1 \in Nat
  BY DEF Long
<1>2. IsFiniteSet(Long(r, m - 1))
  BY <1>1, LongNumbers
<1>3. CASE r[m].len >= BUDDY_MAX_SIZE
  <2>1. Long(r, m) = Long(r, m - 1) \cup {m}
    BY <1>3 DEF Long
  <2>2. Cardinality(Long(r, m - 1) \cup {m}) = Cardinality(Long(r, m - 1)) + 1
    BY <1>1, <1>2, FS_AddElement
  <2> QED
    BY <1>3, <2>1, <2>2
<1>4. CASE ~(r[m].len >= BUDDY_MAX_SIZE)
  <2>1. Long(r, m) = Long(r, m - 1)
    BY <1>4 DEF Long
  <2> QED
    BY <1>4, <2>1
<1> QED
  BY <1>3, <1>4

LEMMA SizeTypes ==
  /\ PGSIZE \in Nat \ {0} /\ AreaStruct \in Nat /\ BuddyNeeds \in Nat /\ ListStruct \in Nat
  /\ ReservedSize \in Nat /\ HugePage \in Nat /\ DirectMapEnd \in Nat /\ PageStruct \in Nat
  /\ BUDDY_MAX_SIZE \in Nat /\ PGSIZE <= BUDDY_MAX_SIZE
<1>1. PICK n \in 1..BUDDY_MAX_SIZE : BUDDY_MAX_SIZE = PGSIZE * n
  BY SizesAssumption
<1>2. n \in Nat /\ 1 <= n /\ 1 \in Nat /\ PGSIZE \in Nat \ {0}
  BY SizesAssumption
<1>3. n * PGSIZE \in Nat /\ 1 * PGSIZE <= n * PGSIZE
  BY <1>2, MonotoneProduct
<1>4. BUDDY_MAX_SIZE \in Nat /\ PGSIZE <= BUDDY_MAX_SIZE
  BY <1>1, <1>2, <1>3
<1> QED
  BY <1>4, SizesAssumption DEF BuddyNeeds, DirectMapEnd, DirectMapEntries

LEMMA InitHolds == Init => MemInv
<1> SUFFICES ASSUME Init
             PROVE  MemInv
  OBVIOUS
<1>1. boot \in BootInfos
  BY DEF Init
<1>2. Len(Tags) \in Nat /\ Seen(1) = 0
  BY <1>1, BootTypes, PassesOverTags
<1>3. <<>> \in Seq(AreaT)
  BY EmptySeq
<1>4. Counting
  BY <1>2 DEF Init, Counting
<1>5. TypeOK
  BY <1>3, SizeTypes DEF Init, TypeOK
<1> QED
  BY <1>4, <1>5 DEF Init, MemInv

LEMMA CountTagStep == MemInv /\ CountTag => MemInv'
<1> SUFFICES ASSUME MemInv, CountTag
             PROVE  MemInv'
  OBVIOUS
<1>1. TypeOK /\ Counting /\ boot \in BootInfos /\ pc' = "count" /\ boot' = boot
  BY DEF MemInv, CountTag, TypeOK
<1>2. Len(Tags) \in Nat /\ tag \in 1..Len(Tags)
  BY <1>1, BootTypes DEF Counting, CountTag
<1>3. Seen(tag + 1) = Seen(tag) + Len(UsableIn(tag)) /\ Seen(tag) \in Nat /\ Len(UsableIn(tag)) \in Nat
  <2>1. tag \in 1..(Len(Tags) + 1)
    BY <1>2
  <2> QED
    BY <1>1, <1>2, <2>1, PassesOverTags
<1>4. Tags' = Tags /\ TagParts' = TagParts
  BY <1>1, BootKept
<1>5. Seen(tag)' = Seen(tag + 1)
  BY <1>4 DEF CountTag, Seen
<1>6. areas_sz' = Seen(tag + 1) /\ Seen(tag + 1) \in Nat
  BY <1>1, <1>3 DEF CountTag, Counting, Here
<1>7. Counting'
  BY <1>1, <1>2, <1>4, <1>5, <1>6 DEF CountTag, Counting
<1>8. TypeOK'
  BY <1>1, <1>6 DEF CountTag, TypeOK
<1> QED
  BY <1>1, <1>7, <1>8 DEF MemInv

LEMMA AllocAreasStep == MemInv /\ AllocAreas => MemInv'
<1> SUFFICES ASSUME MemInv, AllocAreas
             PROVE  MemInv'
  OBVIOUS
<1>1. TypeOK /\ Counting /\ boot \in BootInfos /\ boot' = boot /\ areas_sz' = areas_sz
  BY DEF MemInv, AllocAreas, TypeOK
<1>2. Tags' = Tags /\ TagParts' = TagParts /\ Reported' = Reported /\ N' = N
  BY <1>1, BootKept
<1>3. Len(Tags) \in Nat /\ N \in Nat /\ areas_sz = N
  <2>1. Len(Tags) \in Nat /\ tag = Len(Tags) + 1
    BY <1>1, BootTypes DEF Counting, AllocAreas
  <2> QED
    BY <1>1, <2>1, PassesOverTags, ReportedGood DEF Counting
<1>4. /\ N * AreaStruct \in Nat /\ ReservedSize \in Nat
      /\ Cardinality(Long(Reported, N)) * BuddyNeeds \in Nat
  <2>1. Cardinality(Long(Reported, N)) \in Nat
    BY <1>3, LongNumbers
  <2> QED
    BY <1>3, <2>1, SizeTypes, MonotoneProduct
<1>5. CASE ~Fits(areas_sz * AreaStruct)
  <2>1. pc' = "panic" /\ tag' = tag /\ i' = i /\ areas' = areas /\ available' = available
    BY <1>5 DEF AllocAreas, mm_reserved_alloc
  <2>2. N * AreaStruct > ReservedSize
    BY <1>1, <1>3, <1>4, <1>5 DEF Counting, Fits
  <2>3. TooLittle
    BY <1>4, <2>2 DEF TooLittle
  <2>4. TooLittle'
    BY <1>2, <2>3 DEF TooLittle
  <2>5. TypeOK'
    BY <1>1, <2>1 DEF TypeOK
  <2> QED
    BY <2>1, <2>4, <2>5 DEF MemInv
<1>6. CASE Fits(areas_sz * AreaStruct)
  <2>1. /\ available' = available - N * AreaStruct
        /\ areas' = [j \in 1..N |-> NoArea]
        /\ pc' = "fill" /\ tag' = 1 /\ i' = 1
    BY <1>3, <1>6 DEF AllocAreas, mm_reserved_alloc
  <2>2. available' + N * AreaStruct = ReservedSize /\ available' \in 0..ReservedSize
    BY <1>1, <1>3, <1>4, <1>6, <2>1 DEF Counting, Fits
  <2>3. areas' \in Seq(AreaT) /\ Len(areas') = N /\ \A k \in 1..N : areas'[k] = NoArea
    <3>1. NoArea \in AreaT
      BY DEF NoArea, AreaT
    <3> QED
      BY <1>3, <2>1, <3>1
  <2>4. Seen(tag)' = 0
    <3>1. Seen(1) = 0
      BY <1>1, PassesOverTags
    <3> QED
      BY <1>2, <2>1, <3>1 DEF Seen
  <2>5. Allocated'
    BY <1>1, <1>2, <1>3, <2>1, <2>3 DEF Allocated
  <2>6. Filling'
    BY <1>2, <1>3, <2>1, <2>2, <2>3, <2>4, <2>5 DEF Filling
  <2>7. TypeOK'
    BY <1>1, <2>1, <2>2, <2>3 DEF TypeOK
  <2> QED
    BY <2>1, <2>6, <2>7 DEF MemInv
<1> QED
  BY <1>5, <1>6

LEMMA FillTagStep == MemInv /\ FillTag => MemInv'
<1> SUFFICES ASSUME MemInv, FillTag
             PROVE  MemInv'
  OBVIOUS
<1>1. /\ TypeOK /\ Filling /\ Allocated /\ boot \in BootInfos /\ pc' = "fill"
      /\ boot' = boot /\ areas_sz' = areas_sz /\ available' = available
  BY DEF MemInv, FillTag, TypeOK, Filling
<1>2. Tags' = Tags /\ TagParts' = TagParts /\ Reported' = Reported /\ N' = N
  BY <1>1, BootKept
<1>3. Len(Tags) \in Nat /\ tag \in 1..Len(Tags) /\ tag + 1 \in 1..(Len(Tags) + 1)
  <2>1. tag <= Len(Tags) /\ tag \in 1..(Len(Tags) + 1)
    BY <1>1 DEF Filling, FillTag
  <2>2. Len(Tags) \in Nat
    BY <1>1, BootTypes
  <2> QED
    BY <2>1, <2>2
<1> DEFINE L == Len(UsableIn(tag))
<1>4. /\ L \in Nat /\ Seen(tag + 1) = Seen(tag) + L /\ Seen(tag) \in Nat
      /\ Seen(tag + 1) <= N /\ N \in Nat
      /\ \A j \in 1..L : Reported[Seen(tag) + j] = UsableIn(tag)[j] /\ UsableIn(tag)[j] \in Entry
  <2>1. tag \in 1..(Len(Tags) + 1)
    BY <1>3
  <2> QED
    BY <1>1, <1>3, <2>1, PassesOverTags, ReportedGood
<1>5. i = Seen(tag) + 1 /\ i' = i + L /\ tag' = tag + 1
  BY <1>1 DEF Filling, FillTag, Here
<1>6. areas \in Seq(AreaT) /\ DOMAIN areas = 1..N /\ \A k \in 1..N : areas[k] \in AreaT
  <2>1. areas \in Seq(AreaT) /\ Len(areas) = N
    BY <1>1 DEF TypeOK, Allocated
  <2> QED
    BY <2>1, LenProperties, ElementOfSeq
<1> HIDE DEF L
<1>7. areas' = [j \in 1..N |->
         IF j \in i..(i + L - 1)
         THEN [areas[j] EXCEPT !.addr = UsableIn(tag)[j - i + 1].addr,
                               !.len = UsableIn(tag)[j - i + 1].len]
         ELSE areas[j]]
  BY <1>6 DEF FillTag, Here, L
<1>8. ASSUME NEW k \in 1..N
      PROVE  areas'[k] = IF k < i' THEN Filled(Reported[k]) ELSE NoArea
  <2>1. areas[k] = IF k < i THEN Filled(Reported[k]) ELSE NoArea
    BY <1>1 DEF Filling
  <2>2. CASE k \in i..(i + L - 1)
    <3>1. PICK j \in 1..L : j = k - i + 1 /\ Seen(tag) + j = k /\ ~(k < i) /\ k < i'
      <4>1. k - i + 1 \in 1..L /\ Seen(tag) + (k - i + 1) = k /\ ~(k < i) /\ k < i'
        BY <1>4, <1>5, <2>2
      <4> QED
        BY <4>1
    <3>2. UsableIn(tag)[j] = Reported[k]
      BY <1>4, <3>1
    <3>3. areas'[k] = [areas[k] EXCEPT !.addr = UsableIn(tag)[j].addr, !.len = UsableIn(tag)[j].len]
      BY <1>7, <2>2, <3>1
    <3>4. areas'[k] = [NoArea EXCEPT !.addr = Reported[k].addr, !.len = Reported[k].len]
      BY <2>1, <3>1, <3>2, <3>3
    <3>5. areas'[k] = Filled(Reported[k])
      BY <3>4 DEF NoArea, Filled
    <3> QED
      BY <3>1, <3>5
  <2>3. CASE k \notin i..(i + L - 1)
    <3>1. areas'[k] = areas[k] /\ (k < i' <=> k < i)
      <4>1. areas'[k] = areas[k]
        BY <1>7, <2>3
      <4>2. i \in Nat /\ i' = i + L /\ L \in Nat
        BY <1>4, <1>5
      <4> QED
        BY <2>3, <4>1, <4>2
    <3> QED
      BY <2>1, <3>1
  <2> QED
    BY <2>2, <2>3
<1>9. areas' \in Seq(AreaT) /\ Len(areas') = N
  <2>1. \A k \in 1..N : areas'[k] \in AreaT
    <3> TAKE k \in 1..N
    <3>1. Good(Reported[k], boot.kernel_end)
      BY <1>1, ReportedGood
    <3> QED
      BY <1>8, <3>1, AreaTypes
  <2>2. areas' = [j \in 1..N |-> areas'[j]]
    BY <1>7
  <2> QED
    BY <1>4, <2>1, <2>2
<1>10. Seen(tag)' = Seen(tag + 1)
  BY <1>2, <1>5 DEF Seen
<1>11. i' = Seen(tag + 1) + 1 /\ i' \in 1..(N + 1) /\ i' \in Nat
  BY <1>4, <1>5
<1>12. Allocated'
  BY <1>1, <1>2, <1>9, <1>11 DEF Allocated
<1>13. Filling'
  BY <1>1, <1>2, <1>3, <1>5, <1>8, <1>10, <1>11, <1>12 DEF Filling
<1>14. TypeOK'
  BY <1>1, <1>3, <1>5, <1>9, <1>11 DEF TypeOK
<1> QED
  BY <1>1, <1>13, <1>14 DEF MemInv

LEMMA MmInitStep == MemInv /\ MmInit => MemInv'
<1> SUFFICES ASSUME MemInv, MmInit
             PROVE  MemInv'
  OBVIOUS
<1>1. /\ TypeOK /\ Filling /\ Allocated /\ boot \in BootInfos /\ pc' = "adjust" /\ i' = 1
      /\ tag' = tag /\ boot' = boot /\ areas_sz' = areas_sz /\ areas' = areas
      /\ available' = available
  BY DEF MemInv, MmInit, TypeOK, Filling
<1>2. Reported' = Reported /\ N' = N /\ N \in Nat
  BY <1>1, BootKept, ReportedGood
<1>3. i = N + 1
  <2>1. tag > Len(Tags) /\ tag \in 1..(Len(Tags) + 1) /\ i = Seen(tag) + 1
    BY <1>1 DEF Filling, MmInit
  <2>2. tag = Len(Tags) + 1
    BY <1>1, <2>1, BootTypes
  <2> QED
    BY <1>1, <2>1, <2>2, PassesOverTags
<1>4. \A k \in 1..N : areas[k] = Filled(Reported[k]) /\ ~(k < 1)
  BY <1>1, <1>2, <1>3 DEF Filling
<1>5. Allocated'
  BY <1>1, <1>2 DEF Allocated
<1>6. Adjusting'
  BY <1>1, <1>2, <1>4, <1>5 DEF Adjusting, Filling
<1>7. TypeOK'
  BY <1>1 DEF TypeOK
<1> QED
  BY <1>1, <1>6, <1>7 DEF MemInv

LEMMA EndLoopSteps ==
  MemInv /\ (EndLoop("adjust", "map") \/ EndLoop("map", "bootstrap") \/ EndLoop("bootstrap", "done"))
    => MemInv'
<1> SUFFICES ASSUME MemInv, NEW loop, NEW next, EndLoop(loop, next),
                    \/ loop = "adjust" /\ next = "map"
                    \/ loop = "map" /\ next = "bootstrap"
                    \/ loop = "bootstrap" /\ next = "done"
             PROVE  MemInv'
  OBVIOUS
<1>1. /\ TypeOK /\ boot \in BootInfos /\ pc = loop /\ pc' = next /\ i' = 1
      /\ tag' = tag /\ boot' = boot /\ areas_sz' = areas_sz /\ areas' = areas
      /\ available' = available
  BY DEF MemInv, EndLoop, TypeOK
<1>2. /\ Reported' = Reported /\ N' = N /\ N \in Nat /\ boot.kernel_end' = boot.kernel_end
  BY <1>1, BootKept, ReportedGood
<1>3. Allocated /\ i = N + 1
  <2>1. Allocated
    BY <1>1 DEF MemInv, Adjusting, Mapping, Bootstrapping
  <2> QED
    BY <1>2, <2>1 DEF Allocated, EndLoop
<1>4. Allocated' /\ TypeOK'
  BY <1>1, <1>2, <1>3 DEF Allocated, TypeOK
<1>5. \A k \in 1..N : k < i /\ ~(k < 1)
  BY <1>2, <1>3
<1>6. CASE loop = "adjust" /\ next = "map"
  <2>1. Adjusting
    BY <1>1, <1>6 DEF MemInv
  <2>2. Mapping'
    BY <1>1, <1>2, <1>4, <1>5, <2>1 DEF Adjusting, Mapping
  <2> QED
    BY <1>1, <1>4, <1>6, <2>2 DEF MemInv
<1>7. CASE loop = "map" /\ next = "bootstrap"
  <2>1. Mapping
    BY <1>1, <1>7 DEF MemInv
  <2>2. \A k \in 1..N : areas[k] = Laid(Reported[k], boot.kernel_end)
    BY <1>5, <2>1 DEF Mapping
  <2>3. available + N * AreaStruct + Cardinality(Long(Reported, 1 - 1)) * BuddyNeeds = ReservedSize
    <3>1. Cardinality(Long(Reported, 0)) = 0
      BY <1>2, LongNumbers
    <3>2. 0 * BuddyNeeds = 0 /\ N * AreaStruct \in Nat
      BY <1>2, SizeTypes
    <3>3. available + N * AreaStruct = ReservedSize /\ available \in Nat
      BY <1>1, <2>1 DEF Mapping, TypeOK
    <3>4. 1 - 1 = 0
      OBVIOUS
    <3> QED
      BY <3>1, <3>2, <3>3, <3>4
  <2>4. Bootstrapping'
    BY <1>1, <1>2, <1>4, <1>5, <2>2, <2>3 DEF Bootstrapping
  <2> QED
    BY <1>1, <1>4, <1>7, <2>4 DEF MemInv
<1>8. CASE loop = "bootstrap" /\ next = "done"
  <2>1. Bootstrapping
    BY <1>1, <1>8 DEF MemInv
  <2>2. i - 1 = N
    BY <1>2, <1>3
  <2>3. available + N * AreaStruct + Cardinality(Long(Reported, N)) * BuddyNeeds = ReservedSize
    BY <2>1, <2>2 DEF Bootstrapping
  <2>4. \A k \in 1..N : areas[k] = Final(Reported[k], boot.kernel_end)
    BY <1>5, <2>1 DEF Bootstrapping
  <2>5. Finished'
    BY <1>1, <1>2, <1>4, <2>3, <2>4 DEF Finished
  <2> QED
    BY <1>1, <1>4, <1>8, <2>5 DEF MemInv
<1> QED
  BY <1>6, <1>7, <1>8

LEMMA AdjustAreaStep == MemInv /\ AdjustArea => MemInv'
<1> SUFFICES ASSUME MemInv, AdjustArea
             PROVE  MemInv'
  OBVIOUS
<1> DEFINE e == Reported[i]
           ke == boot.kernel_end
<1>1. /\ TypeOK /\ Adjusting /\ Allocated /\ boot \in BootInfos /\ pc' = "adjust" /\ i' = i + 1
      /\ tag' = tag /\ boot' = boot /\ areas_sz' = areas_sz /\ available' = available
  BY DEF MemInv, AdjustArea, TypeOK, Adjusting
<1>2. /\ Reported' = Reported /\ N' = N /\ N \in Nat /\ boot.kernel_end' = boot.kernel_end
  BY <1>1, BootKept, ReportedGood
<1>3. i \in 1..N /\ i' \in 1..(N + 1) /\ areas \in Seq(AreaT) /\ Len(areas) = N
  BY <1>1, <1>2 DEF Allocated, AdjustArea, TypeOK
<1>4. Good(e, ke)
  BY <1>1, <1>3, ReportedGood
<1>5. areas[i] = Filled(e)
  BY <1>3, <1>1 DEF Adjusting
<1>6. areas' = [areas EXCEPT ![i] = Adjusted(e, ke)]
  <2>1. DOMAIN areas = 1..N /\ areas = [j \in 1..N |-> areas[j]]
    BY <1>3, LenProperties
  <2>2. areas[i].addr = e.addr
    BY <1>5 DEF Filled
  <2>3. CASE PGROUNDUP(e.addr) = 0
    <3>1. areas' = [areas EXCEPT ![i] = [areas[i] EXCEPT !.addr = PGROUNDUP(ke), !.used = PGROUNDUP(ke)]]
      BY <2>1, <2>2, <2>3 DEF AdjustArea
    <3>2. ASSUME NEW v, v = [Filled(e) EXCEPT !.addr = PGROUNDUP(ke), !.used = PGROUNDUP(ke)]
          PROVE  v = Adjusted(e, ke)
      <4>1. AddrOf(e, ke) = PGROUNDUP(ke) /\ UsedOf(e, ke) = PGROUNDUP(ke)
        BY <2>3 DEF AddrOf, UsedOf
      <4> HIDE DEF e, ke
      <4> QED
        BY <3>2, <4>1 DEF Filled, Adjusted
    <3> QED
      BY <1>5, <3>1, <3>2
  <2>4. CASE PGROUNDUP(e.addr) # 0
    <3>1. areas' = areas
      BY <2>2, <2>4 DEF AdjustArea
    <3>2. Filled(e) = Adjusted(e, ke)
      BY <2>4 DEF Filled, Adjusted, AddrOf, UsedOf
    <3> QED
      BY <1>3, <1>5, <2>1, <3>1, <3>2
  <2> QED
    BY <2>3, <2>4
<1>7. Adjusted(e, ke) \in AreaT
  BY <1>4, AreaTypes
<1> HIDE DEF e, ke
<1>8. /\ areas' \in Seq(AreaT) /\ Len(areas') = N
      /\ \A j \in 1..N : areas'[j] = IF j = i THEN Adjusted(e, ke) ELSE areas[j]
  BY <1>3, <1>6, <1>7, OneArea
<1>9. ASSUME NEW k \in 1..N
      PROVE  areas'[k] = IF k < i' THEN Adjusted(Reported[k], boot.kernel_end)
                         ELSE Filled(Reported[k])
  <2>1. areas[k] = IF k < i THEN Adjusted(Reported[k], boot.kernel_end)
                   ELSE Filled(Reported[k])
    BY <1>1 DEF Adjusting
  <2>2. k < i' <=> k < i \/ k = i
    BY <1>1, <1>3
  <2>3. k = i => ~(k < i)
    BY <1>3
  <2> QED
    BY <1>8, <2>1, <2>2, <2>3 DEF e, ke
<1>10. Allocated' /\ TypeOK'
  BY <1>1, <1>2, <1>3, <1>8 DEF Allocated, TypeOK
<1>11. Adjusting'
  BY <1>1, <1>2, <1>9, <1>10 DEF Adjusting
<1> QED
  BY <1>1, <1>10, <1>11 DEF MemInv

LEMMA MapAreaStep == MemInv /\ MapArea => MemInv'
<1> SUFFICES ASSUME MemInv, MapArea
             PROVE  MemInv'
  OBVIOUS
<1> DEFINE e == Reported[i]
           ke == boot.kernel_end
<1>1. /\ TypeOK /\ Mapping /\ Allocated /\ boot \in BootInfos
      /\ tag' = tag /\ boot' = boot /\ areas_sz' = areas_sz /\ available' = available
  BY DEF MemInv, MapArea, TypeOK, Mapping
<1>2. /\ Reported' = Reported /\ N' = N /\ N \in Nat /\ boot.kernel_end' = boot.kernel_end
  BY <1>1, BootKept, ReportedGood
<1>3. i \in 1..N /\ i + 1 \in 1..(N + 1) /\ areas \in Seq(AreaT) /\ Len(areas) = N
  BY <1>1, <1>2 DEF Allocated, MapArea, TypeOK
<1>4. Good(e, ke)
  BY <1>1, <1>3, ReportedGood
<1>5. areas[i] = Adjusted(e, ke)
  BY <1>3, <1>1 DEF Mapping
<1>6. /\ areas[i].addr = AddrOf(e, ke) /\ areas[i].used = UsedOf(e, ke)
      /\ (areas[i].len - areas[i].used) \div PGSIZE = PagesOf(e, ke)
      /\ ((areas[i].len - areas[i].used) \div PGSIZE) * PageStruct = MapSizeOf(e, ke)
  BY <1>5 DEF Adjusted, PagesOf, MapSizeOf
<1>7. /\ areas' = [areas EXCEPT ![i].map_sz = PagesOf(e, ke),
                                ![i].base = areas[i].addr + MapSizeOf(e, ke),
                                ![i].used = @ + MapSizeOf(e, ke)]
      /\ IF PagesOf(e, ke) > 0 /\ AddrOf(e, ke) + MapSizeOf(e, ke) > DirectMapEnd
         THEN pc' = "fault" /\ i' = i
         ELSE pc' = pc /\ i' = i + 1
  BY <1>6 DEF MapArea
<1>8. areas' = [areas EXCEPT ![i] = Laid(e, ke)]
  <2>1. DOMAIN areas = 1..N /\ areas = [j \in 1..N |-> areas[j]]
    BY <1>3, LenProperties
  <2>2. areas' = [areas EXCEPT ![i] =
           [areas[i] EXCEPT !.map_sz = PagesOf(e, ke),
                            !.base = AddrOf(e, ke) + MapSizeOf(e, ke),
                            !.used = UsedOf(e, ke) + MapSizeOf(e, ke)]]
    BY <1>6, <1>7, <2>1
  <2>3. ASSUME NEW v, v = [Adjusted(e, ke) EXCEPT !.map_sz = PagesOf(e, ke),
                                                  !.base = AddrOf(e, ke) + MapSizeOf(e, ke),
                                                  !.used = UsedOf(e, ke) + MapSizeOf(e, ke)]
        PROVE  v = Laid(e, ke)
    <3> HIDE DEF e, ke
    <3> QED
      BY <2>3 DEF Adjusted, Laid
  <2> QED
    BY <1>5, <2>2, <2>3
<1>9. Laid(e, ke) \in AreaT
  BY <1>4, AreaTypes
<1> HIDE DEF e, ke
<1>10. /\ areas' \in Seq(AreaT) /\ Len(areas') = N
       /\ \A j \in 1..N : areas'[j] = IF j = i THEN Laid(e, ke) ELSE areas[j]
  BY <1>3, <1>8, <1>9, OneArea
<1>11. CASE PagesOf(e, ke) > 0 /\ AddrOf(e, ke) + MapSizeOf(e, ke) > DirectMapEnd
  <2>1. pc' = "fault" /\ i' = i
    BY <1>7, <1>11
  <2>2. e.addr + e.len > DirectMapEnd
    <3>1. /\ e.addr \in Nat /\ e.len \in Nat /\ UsedOf(e, ke) \in Nat
          /\ AddrOf(e, ke) = e.addr + UsedOf(e, ke)
      BY <1>4, Sizes
    <3>2. MapSizeOf(e, ke) \in Nat /\ UsedOf(e, ke) + MapSizeOf(e, ke) <= e.len
      BY <1>4, MapFits
    <3> QED
      BY <1>11, <3>1, <3>2, SizeTypes
  <2>3. TooHigh'
    BY <1>2, <1>3, <2>2 DEF TooHigh, e
  <2>4. TypeOK'
    BY <1>1, <1>10, <2>1 DEF TypeOK
  <2> QED
    BY <2>1, <2>3, <2>4 DEF MemInv
<1>12. CASE ~(PagesOf(e, ke) > 0 /\ AddrOf(e, ke) + MapSizeOf(e, ke) > DirectMapEnd)
  <2>1. pc' = "map" /\ i' = i + 1
    BY <1>7, <1>12 DEF MapArea
  <2>2. ASSUME NEW k \in 1..N
        PROVE  areas'[k] = IF k < i' THEN Laid(Reported[k], boot.kernel_end)
                           ELSE Adjusted(Reported[k], boot.kernel_end)
    <3>1. areas[k] = IF k < i THEN Laid(Reported[k], boot.kernel_end)
                     ELSE Adjusted(Reported[k], boot.kernel_end)
      BY <1>1 DEF Mapping
    <3>2. k < i' <=> k < i \/ k = i
      BY <1>3, <2>1
    <3>3. k = i => ~(k < i)
      BY <1>3
    <3> QED
      BY <1>10, <3>1, <3>2, <3>3 DEF e, ke
  <2>3. Allocated' /\ TypeOK'
    BY <1>1, <1>2, <1>3, <1>10, <2>1 DEF Allocated, TypeOK
  <2>4. Mapping'
    BY <1>1, <1>2, <2>2, <2>3 DEF Mapping
  <2> QED
    BY <2>1, <2>3, <2>4 DEF MemInv
<1> QED
  BY <1>11, <1>12

LEMMA BootstrapAreaStep == MemInv /\ BootstrapArea => MemInv'
<1> SUFFICES ASSUME MemInv, BootstrapArea
             PROVE  MemInv'
  OBVIOUS
<1> DEFINE e == Reported[i]
           ke == boot.kernel_end
           c == Cardinality(Long(Reported, i - 1))
           d == Cardinality(Long(Reported, i))
<1>1. /\ TypeOK /\ Bootstrapping /\ Allocated /\ boot \in BootInfos /\ pc = "bootstrap"
      /\ tag' = tag /\ boot' = boot /\ areas_sz' = areas_sz
  BY DEF MemInv, BootstrapArea, TypeOK, Bootstrapping
<1>2. /\ Reported' = Reported /\ N' = N /\ N \in Nat /\ boot.kernel_end' = boot.kernel_end
  BY <1>1, BootKept, ReportedGood
<1>3. /\ i \in 1..N /\ i + 1 \in 1..(N + 1) /\ (i + 1) - 1 = i
      /\ areas \in Seq(AreaT) /\ Len(areas) = N
  BY <1>1, <1>2 DEF Allocated, BootstrapArea, TypeOK
<1>4. Good(e, ke)
  BY <1>1, <1>3, ReportedGood
<1>5. /\ e.addr \in Nat /\ e.len \in Nat /\ AddrOf(e, ke) \in Nat /\ UsedOf(e, ke) \in Nat
      /\ MapSizeOf(e, ke) \in Nat
  BY <1>4, Sizes, MapFits
<1>6. areas[i] = Laid(e, ke)
  BY <1>3, <1>1 DEF Bootstrapping
<1>7. areas[i].len = e.len /\ areas[i].base = AddrOf(e, ke) + MapSizeOf(e, ke)
  BY <1>6 DEF Laid
<1>8. c \in Nat /\ d \in Nat /\ d <= Cardinality(Long(Reported, N))
      /\ d = IF e.len >= BUDDY_MAX_SIZE THEN c + 1 ELSE c
  <2>1. i - 1 \in Nat /\ i \in Nat /\ i # 0 /\ i \in 0..N
    BY <1>3
  <2> QED
    BY <1>2, <2>1, LongNumbers, LongNext
<1>9. Cardinality(Long(Reported, N)) \in Nat
  BY <1>2, LongNumbers
<1>10. /\ BuddyNeeds \in Nat /\ ReservedSize \in Nat /\ N * AreaStruct \in Nat
       /\ c * BuddyNeeds \in Nat /\ d * BuddyNeeds \in Nat
       /\ d * BuddyNeeds <= Cardinality(Long(Reported, N)) * BuddyNeeds
       /\ Cardinality(Long(Reported, N)) * BuddyNeeds \in Nat
       /\ (e.len >= BUDDY_MAX_SIZE => d * BuddyNeeds = c * BuddyNeeds + BuddyNeeds)
  <2>1. /\ BuddyNeeds \in Nat /\ ReservedSize \in Nat /\ N * AreaStruct \in Nat
    BY <1>2, SizeTypes, MonotoneProduct
  <2>2. /\ c * BuddyNeeds \in Nat /\ d * BuddyNeeds \in Nat
        /\ d * BuddyNeeds <= Cardinality(Long(Reported, N)) * BuddyNeeds
        /\ Cardinality(Long(Reported, N)) * BuddyNeeds \in Nat
    BY <1>8, <1>9, <2>1, MonotoneProduct
  <2>3. (c + 1) * BuddyNeeds = c * BuddyNeeds + BuddyNeeds
    BY <1>8, <2>1
  <2> QED
    BY <1>8, <2>1, <2>2, <2>3
<1>11. available \in Nat /\ available + N * AreaStruct + c * BuddyNeeds = ReservedSize
  BY <1>1 DEF Bootstrapping, TypeOK
<1>12. Laid(e, ke) \in AreaT /\ Final(e, ke) \in AreaT
  BY <1>4, AreaTypes
<1>13. DOMAIN areas = 1..N /\ areas = [j \in 1..N |-> areas[j]]
  BY <1>3, LenProperties
<1>14. BUDDY_MAX_SIZE \in Nat /\ ListStruct \in Nat /\ DirectMapEnd \in Nat
       /\ PGSIZE \in Nat \ {0} /\ PGSIZE <= BUDDY_MAX_SIZE
  BY SizeTypes
<1> HIDE DEF e, ke, c, d
\* A step that goes on: the area has got what it will have.
<1>15. ASSUME pc' = "bootstrap", i' = i + 1, areas' = [areas EXCEPT ![i] = Final(e, ke)],
              available' \in 0..ReservedSize,
              available' + N * AreaStruct + d * BuddyNeeds = ReservedSize
       PROVE  MemInv'
  <2>1. /\ areas' \in Seq(AreaT) /\ Len(areas') = N
        /\ \A j \in 1..N : areas'[j] = IF j = i THEN Final(e, ke) ELSE areas[j]
    BY <1>3, <1>12, <1>15, OneArea
  <2>2. ASSUME NEW k \in 1..N
        PROVE  areas'[k] = IF k < i' THEN Final(Reported[k], boot.kernel_end)
                           ELSE Laid(Reported[k], boot.kernel_end)
    <3>1. areas[k] = IF k < i THEN Final(Reported[k], boot.kernel_end)
                     ELSE Laid(Reported[k], boot.kernel_end)
      BY <1>1 DEF Bootstrapping
    <3>2. k < i' <=> k < i \/ k = i
      BY <1>3, <1>15
    <3>3. k = i => ~(k < i)
      BY <1>3
    <3> QED
      BY <2>1, <3>1, <3>2, <3>3 DEF e, ke
  <2>3. Allocated' /\ TypeOK'
    BY <1>1, <1>2, <1>3, <1>15, <2>1 DEF Allocated, TypeOK
  <2>4. Long(Reported, i - 1)' = Long(Reported, i)
    <3>1. (i - 1)' = i
      BY <1>3, <1>15
    <3> QED
      BY <1>2, <3>1 DEF Long
  <2>5. Bootstrapping'
    BY <1>2, <1>15, <2>2, <2>3, <2>4 DEF Bootstrapping, d
  <2> QED
    BY <1>15, <2>3, <2>5 DEF MemInv
<1>16. CASE e.len < BUDDY_MAX_SIZE
  <2>1. pc' = pc /\ i' = i + 1 /\ areas' = areas /\ available' = available
    BY <1>5, <1>7, <1>14, <1>16 DEF BootstrapArea
  <2>2. Laid(e, ke) = Final(e, ke)
    BY <1>5, <1>14, <1>16 DEF Laid, Final
  <2>3. areas' = [areas EXCEPT ![i] = Final(e, ke)]
    BY <1>3, <1>6, <1>13, <2>1, <2>2
  <2>4. d = c
    BY <1>5, <1>8, <1>14, <1>16
  <2>5. available' \in 0..ReservedSize /\ available' + N * AreaStruct + d * BuddyNeeds = ReservedSize
    BY <1>10, <1>11, <2>1, <2>4
  <2> QED
    BY <1>1, <1>15, <2>1, <2>3, <2>5
<1>17. CASE e.len >= BUDDY_MAX_SIZE /\ ~Fits(BuddyNeeds)
  <2>1. pc' = "panic" /\ i' = i /\ areas' = areas /\ available' = available
    BY <1>5, <1>7, <1>14, <1>17 DEF BootstrapArea, mm_reserved_alloc
  <2>2. available < BuddyNeeds
    BY <1>10, <1>11, <1>17 DEF Fits
  <2>3. TooLittle
    BY <1>10, <1>11, <1>17, <2>2 DEF TooLittle
  <2>4. TooLittle'
    BY <1>2, <2>3 DEF TooLittle
  <2>5. TypeOK'
    BY <1>1, <2>1 DEF TypeOK
  <2> QED
    BY <2>1, <2>4, <2>5 DEF MemInv
<1>18. CASE e.len >= BUDDY_MAX_SIZE /\ Fits(BuddyNeeds)
  <2>1. /\ available' = available - BuddyNeeds
        /\ IF areas[i].base + ListStruct > DirectMapEnd
           THEN pc' = "fault" /\ UNCHANGED <<i, areas>>
           ELSE /\ areas' = [areas EXCEPT ![i].buddies = "one"]
                /\ i' = i + 1
                /\ UNCHANGED pc
    BY <1>5, <1>7, <1>14, <1>18 DEF BootstrapArea, mm_reserved_alloc
  <2>2. available' \in 0..ReservedSize /\ available' + N * AreaStruct + d * BuddyNeeds = ReservedSize
    BY <1>10, <1>11, <1>18, <2>1 DEF Fits
  <2>3. CASE areas[i].base + ListStruct > DirectMapEnd
    <3>1. PagesOf(e, ke) # 0
      <4>1. CASE PGROUNDUP(e.addr) = 0
        <5>1. AddrOf(e, ke) + ListStruct <= DirectMapEnd
          BY <1>4, <4>1 DEF Good, AddrOf
        <5>2. MapSizeOf(e, ke) # 0
          BY <1>5, <1>7, <1>14, <2>3, <5>1
        <5>3. PageStruct \in Nat
          BY SizeTypes
        <5> QED
          BY <5>2, <5>3 DEF MapSizeOf
      <4>2. CASE PGROUNDUP(e.addr) # 0
        <5>1. UsedOf(e, ke) = 0
          BY <4>2 DEF UsedOf
        <5>2. PagesOf(e, ke) = e.len \div PGSIZE
          BY <1>5, <5>1 DEF PagesOf
        <5>3. e.len < (e.len \div PGSIZE) * PGSIZE + PGSIZE
          BY <1>5, WholePages
        <5>4. PagesOf(e, ke) = 0 => e.len < PGSIZE
          BY <1>14, <5>2, <5>3
        <5> QED
          BY <1>5, <1>14, <1>18, <5>4
      <4> QED
        BY <4>1, <4>2
    <3>2. UsedOf(e, ke) + MapSizeOf(e, ke) + ListStruct <= e.len
      BY <1>4, <3>1, MapFits
    <3>3. AddrOf(e, ke) = e.addr + UsedOf(e, ke)
      BY <1>4, Sizes
    <3>4. e.addr + e.len > DirectMapEnd
      BY <1>5, <1>7, <1>14, <2>3, <3>2, <3>3
    <3>5. TooHigh'
      BY <1>2, <1>3, <3>4 DEF TooHigh, e
    <3>6. TypeOK'
      BY <1>1, <2>1, <2>2, <2>3 DEF TypeOK
    <3> QED
      BY <2>1, <2>3, <3>5, <3>6 DEF MemInv
  <2>4. CASE ~(areas[i].base + ListStruct > DirectMapEnd)
    <3>1. areas' = [areas EXCEPT ![i].buddies = "one"] /\ i' = i + 1 /\ pc' = pc
      BY <2>1, <2>4
    <3>2. areas' = [areas EXCEPT ![i] = [areas[i] EXCEPT !.buddies = "one"]]
      BY <1>13, <3>1
    <3>3. ASSUME NEW v, v = [Laid(e, ke) EXCEPT !.buddies = "one"]
          PROVE  v = Final(e, ke)
      BY <1>18, <3>3 DEF Laid, Final
    <3>4. areas' = [areas EXCEPT ![i] = Final(e, ke)]
      BY <1>6, <3>2, <3>3
    <3> QED
      BY <1>1, <1>15, <2>2, <3>1, <3>4
  <2> QED
    BY <2>3, <2>4
<1> QED
  BY <1>5, <1>14, <1>16, <1>17, <1>18

\* MemInv is an invariant.
LEMMA StepKeeps == MemInv /\ [Step \/ Ended]_vars => MemInv'
<1> SUFFICES ASSUME MemInv, [Step \/ Ended]_vars
             PROVE  MemInv'
  OBVIOUS
<1>1. CASE UNCHANGED vars
  <2>1. /\ pc' = pc /\ tag' = tag /\ i' = i /\ areas_sz' = areas_sz /\ areas' = areas
        /\ available' = available /\ boot' = boot
    BY <1>1 DEF vars
  <2>2. /\ Tags' = Tags /\ TagParts' = TagParts /\ Reported' = Reported /\ N' = N
    BY <2>1, BootKept
  <2>3. Allocated' = Allocated /\ TypeOK' = TypeOK
    BY <2>1, <2>2 DEF Allocated, TypeOK
  <2>4. Counting' = Counting /\ Filling' = Filling
    BY <2>1, <2>2, <2>3 DEF Counting, Filling, Seen
  <2>5. Adjusting' = Adjusting /\ Mapping' = Mapping
    BY <2>1, <2>2, <2>3 DEF Adjusting, Mapping
  <2>6. Bootstrapping' = Bootstrapping /\ Finished' = Finished
    BY <2>1, <2>2, <2>3 DEF Bootstrapping, Finished
  <2>7. TooLittle' = TooLittle /\ TooHigh' = TooHigh
    BY <2>2 DEF TooLittle, TooHigh
  <2> QED
    BY <2>1, <2>3, <2>4, <2>5, <2>6, <2>7 DEF MemInv
<1> QED
  BY <1>1, CountTagStep, AllocAreasStep, FillTagStep, MmInitStep, EndLoopSteps, AdjustAreaStep,
     MapAreaStep, BootstrapAreaStep DEF Step, Ended

LEMMA MemInvHolds == Spec => []MemInv
<1>1. Init => MemInv
  BY InitHolds
<1>2. MemInv /\ [Step \/ Ended]_vars => MemInv'
  BY StepKeeps
<1> QED
  BY <1>1, <1>2, PTL DEF Spec

-----------------------------------------------------------------------------
\* The variables keep their types: in particular mm_reserved_alloc never hands
\* out more than there is, and no loop writes outside phys_mem.
THEOREM MemInitTypes == Spec => []TypeOK
<1>1. MemInv => TypeOK
  BY DEF MemInv
<1> QED
  BY <1>1, MemInvHolds, PTL

\* The filling pass over the boot loader's tags agrees with the counting pass
\* (count_mem_available, fill_area_info), whatever the tags are.
THEOREM PassesAgree == Spec => []FillAgrees
<1>1. MemInv => FillAgrees
  <2> SUFFICES ASSUME MemInv
               PROVE  FillAgrees
    OBVIOUS
  <2>1. boot \in BootInfos
    BY DEF MemInv, TypeOK
  <2>2. N \in Nat /\ DOMAIN Reported = 1..N
    BY <2>1, ReportedGood
  <2>3. ASSUME pc = "fill"
        PROVE  i <= areas_sz + 1
    BY <2>2, <2>3 DEF MemInv, Filling, Allocated
  <2>4. ASSUME pc = "adjust", i = 1
        PROVE  [k \in 1..areas_sz |-> [addr |-> areas[k].addr, len |-> areas[k].len]]
                 = [k \in DOMAIN Reported |-> [addr |-> Reported[k].addr, len |-> Reported[k].len]]
    <3>1. Adjusting /\ areas_sz = N
      BY <2>4 DEF MemInv, Adjusting, Allocated
    <3>2. \A k \in 1..N : areas[k] = Filled(Reported[k])
      <4>1. \A k \in 1..N : ~(k < i)
        BY <2>2, <2>4
      <4> QED
        BY <3>1, <4>1 DEF Adjusting
    <3>3. \A k \in 1..N : areas[k].addr = Reported[k].addr /\ areas[k].len = Reported[k].len
      <4> TAKE k \in 1..N
      <4>1. areas[k] = Filled(Reported[k])
        BY <3>2
      <4> QED
        BY <4>1 DEF Filled
    <3> QED
      BY <2>2, <3>1, <3>3
  <2> QED
    BY <2>3, <2>4 DEF FillAgrees
<1> QED
  BY <1>1, MemInvHolds, PTL

\* Booting panics or faults for the reasons EndsForAReason names and for no other:
\* the panic of mm_reserved_alloc's callers and the page fault of init_mem_map and
\* buddy_area_init are foreseeable from the memory map alone.
THEOREM BootEndsForAReason == Spec => []EndsForAReason
<1>1. MemInv => EndsForAReason
  <2> SUFFICES ASSUME MemInv
               PROVE  EndsForAReason
    OBVIOUS
  <2>1. boot \in BootInfos /\ available \in 0..ReservedSize
    BY DEF MemInv, TypeOK
  <2>2. N \in Nat /\ DOMAIN Reported = 1..N /\ N = Len(Reported)
    BY <2>1, ReportedGood DEF N
  <2>3. {k \in DOMAIN Reported : Reported[k].len >= BUDDY_MAX_SIZE} = Long(Reported, N)
    BY <2>2 DEF Long
  <2> DEFINE need == N * AreaStruct + Cardinality(Long(Reported, N)) * BuddyNeeds
  <2>4. pc = "panic" => need > ReservedSize
    BY DEF MemInv, TooLittle
  <2>5. pc = "done" => need <= ReservedSize
    <3>1. SUFFICES ASSUME Finished
                   PROVE  need <= ReservedSize
      BY DEF MemInv
    <3>2. available + N * AreaStruct + Cardinality(Long(Reported, N)) * BuddyNeeds = ReservedSize
      BY <3>1 DEF Finished
    <3>3. /\ N * AreaStruct \in Nat /\ available \in Nat
          /\ Cardinality(Long(Reported, N)) * BuddyNeeds \in Nat
      <4>1. Cardinality(Long(Reported, N)) \in Nat
        BY <2>2, LongNumbers
      <4> QED
        BY <2>1, <2>2, <4>1, SizeTypes, MonotoneProduct
    <3> QED
      BY <3>2, <3>3
  <2>6. pc = "fault" => \E k \in DOMAIN Reported : Reported[k].addr + Reported[k].len > DirectMapEnd
    BY <2>2 DEF MemInv, TooHigh
  <2> HIDE DEF need
  <2> QED
    BY <2>2, <2>3, <2>4, <2>5, <2>6 DEF EndsForAReason, need
<1> QED
  BY <1>1, MemInvHolds, PTL

\* Where an area's map and buddy are, once init_mem_map has been there.
LEMMA LaidArea ==
  ASSUME MemInv, NEW k \in Mapped
  PROVE  LET e == Reported[k]
             ke == boot.kernel_end
         IN  /\ k \in 1..N /\ Good(e, ke)
             /\ areas[k].addr = AddrOf(e, ke) /\ areas[k].map_sz = PagesOf(e, ke)
             /\ areas[k].base = AddrOf(e, ke) + MapSizeOf(e, ke)
             /\ areas[k].used = UsedOf(e, ke) + MapSizeOf(e, ke)
             /\ areas[k].len = e.len
             /\ areas[k].buddies \in {"zero", "one"}
<1> DEFINE e == Reported[k]
           ke == boot.kernel_end
<1>1. boot \in BootInfos /\ pc \in {"map", "bootstrap", "done"} /\ areas[k].base > 0 /\ k \in 1..areas_sz
  BY DEF MemInv, TypeOK, Mapped
<1>2. Allocated /\ k \in 1..N
  <2>1. Allocated
    BY <1>1 DEF MemInv, Mapping, Bootstrapping, Finished
  <2> QED
    BY <1>1, <2>1 DEF Allocated
<1>3. Good(e, ke)
  BY <1>1, <1>2, ReportedGood
<1>4. areas[k] = Laid(e, ke) \/ areas[k] = Final(e, ke)
  <2>1. CASE pc = "map"
    <3>1. areas[k] = Laid(e, ke) \/ areas[k] = Adjusted(e, ke)
      BY <1>2, <2>1 DEF MemInv, Mapping
    <3>2. areas[k] = Adjusted(e, ke) => areas[k].base = 0
      BY DEF Adjusted
    <3> QED
      BY <1>1, <3>1, <3>2
  <2>2. CASE pc = "bootstrap"
    BY <1>2, <2>2 DEF MemInv, Bootstrapping
  <2>3. CASE pc = "done"
    BY <1>2, <2>3 DEF MemInv, Finished
  <2> QED
    BY <1>1, <2>1, <2>2, <2>3
<1> HIDE DEF e, ke
<1>5. /\ areas[k].addr = AddrOf(e, ke) /\ areas[k].map_sz = PagesOf(e, ke)
      /\ areas[k].base = AddrOf(e, ke) + MapSizeOf(e, ke)
      /\ areas[k].used = UsedOf(e, ke) + MapSizeOf(e, ke)
      /\ areas[k].len = e.len
      /\ areas[k].buddies \in {"zero", "one"}
  <2>1. CASE areas[k] = Laid(e, ke)
    BY <2>1 DEF Laid
  <2>2. CASE areas[k] = Final(e, ke)
    BY <2>2 DEF Final
  <2> QED
    BY <1>4, <2>1, <2>2
<1> QED
  BY <1>2, <1>3, <1>5 DEF e, ke

\* Page maps and buddies lie apart, behind the kernel image and, as far as
\* LaidOutInArea says, in their areas: init_mem_map and bootstrap_page_allocator
\* on every memory map.
THEOREM MapsAndBuddiesApart == Spec => []LaidOutInArea
<1>1. MemInv => LaidOutInArea
  <2> SUFFICES ASSUME MemInv, NEW k \in Mapped
               PROVE  LET area == Extent(Reported[k].addr, Reported[k].len)
                      IN  /\ MapOf(k) \subseteq area
                          /\ MapOf(k) \cap BuddyOf(k) = {}
                          /\ (MapOf(k) \cup BuddyOf(k)) \cap (0..(boot.kernel_end - 1)) = {}
                          /\ BuddyOf(k) \subseteq area
                               <=> (BuddyOf(k) = {} \/ areas[k].used + BUDDY_MAX_SIZE <= Reported[k].len)
    BY DEF LaidOutInArea
  <2> DEFINE e == Reported[k]
             ke == boot.kernel_end
             a == AddrOf(e, ke)
             u == UsedOf(e, ke)
             m == MapSizeOf(e, ke)
  <2>1. /\ Good(e, ke)
        /\ areas[k].addr = a /\ areas[k].map_sz = PagesOf(e, ke)
        /\ areas[k].base = a + m
        /\ areas[k].used = u + m
        /\ areas[k].buddies \in {"zero", "one"}
    BY LaidArea
  <2>2. areas[k].map_sz * PageStruct = m
    BY <2>1 DEF MapSizeOf
  <2>3. /\ e.addr \in Nat /\ e.len \in Nat /\ a \in Nat /\ u \in Nat /\ ke \in Nat
        /\ a = e.addr + u /\ ke <= a
    BY <2>1, Sizes DEF Good
  <2>4. m \in Nat /\ u + m <= e.len
    BY <2>1, MapFits
  <2>5. BUDDY_MAX_SIZE \in Nat /\ BUDDY_MAX_SIZE # 0
    BY SizeTypes
  <2>6. /\ MapOf(k) = a..(a + m - 1)
        /\ BuddyOf(k) = {} \/ BuddyOf(k) = (a + m)..(a + m + BUDDY_MAX_SIZE - 1)
    BY <2>1, <2>2 DEF MapOf, BuddyOf, Extent
  <2>7. Extent(Reported[k].addr, Reported[k].len) = e.addr..(e.addr + e.len - 1)
    BY DEF Extent
  <2> HIDE DEF e, ke, a, u, m
  <2>8. MapOf(k) \subseteq e.addr..(e.addr + e.len - 1)
    <3> SUFFICES ASSUME NEW x \in a..(a + m - 1)
                 PROVE  x \in e.addr..(e.addr + e.len - 1)
      BY <2>6
    <3>1. a <= x /\ x <= a + m - 1 /\ x \in Int
      BY <2>3, <2>4
    <3>2. e.addr <= a /\ a + m <= e.addr + e.len
      BY <2>3, <2>4
    <3> QED BY <2>3, <2>4, <3>1, <3>2
  <2>9. MapOf(k) \cap BuddyOf(k) = {}
    <3>1. ASSUME NEW x \in a..(a + m - 1) PROVE x \notin (a + m)..(a + m + BUDDY_MAX_SIZE - 1)
      <4>1. x \in Int /\ a + m \in Int /\ x < a + m
        BY <2>3, <2>4
      <4> QED BY <4>1
    <3>2. CASE BuddyOf(k) = {}
      BY <3>2
    <3>3. CASE BuddyOf(k) = (a + m)..(a + m + BUDDY_MAX_SIZE - 1)
      BY <2>6, <3>1, <3>3, Zenon
    <3> QED BY <2>6, <3>2, <3>3
  <2>10. (MapOf(k) \cup BuddyOf(k)) \cap (0..(ke - 1)) = {}
    <3> SUFFICES ASSUME NEW x \in MapOf(k) \cup BuddyOf(k)
                 PROVE  x \notin 0..(ke - 1)
      OBVIOUS
    <3>1. x \in Int /\ a <= x
      <4>1. CASE x \in MapOf(k)
        BY <2>3, <2>6, <4>1
      <4>2. CASE x \in BuddyOf(k)
        <5>1. BuddyOf(k) = (a + m)..(a + m + BUDDY_MAX_SIZE - 1)
          BY <2>6, <4>2
        <5> QED
          BY <2>3, <2>4, <2>5, <4>2, <5>1
      <4> QED
        BY <4>1, <4>2
    <3> QED
      BY <2>3, <3>1
  <2>11. BuddyOf(k) \subseteq e.addr..(e.addr + e.len - 1)
           <=> (BuddyOf(k) = {} \/ u + m + BUDDY_MAX_SIZE <= e.len)
    <3>1. CASE BuddyOf(k) = {}
      BY <3>1
    <3>2. CASE BuddyOf(k) = (a + m)..(a + m + BUDDY_MAX_SIZE - 1)
      <4>1. a + m + BUDDY_MAX_SIZE - 1 \in BuddyOf(k)
        BY <2>3, <2>4, <2>5, <3>2
      <4>2. ASSUME BuddyOf(k) \subseteq e.addr..(e.addr + e.len - 1)
            PROVE  u + m + BUDDY_MAX_SIZE <= e.len
        <5>1. a + m + BUDDY_MAX_SIZE - 1 <= e.addr + e.len - 1
          BY <4>1, <4>2
        <5> QED
          BY <2>3, <2>4, <2>5, <5>1
      <4>3. ASSUME u + m + BUDDY_MAX_SIZE <= e.len
            PROVE  BuddyOf(k) \subseteq e.addr..(e.addr + e.len - 1)
        <5> SUFFICES ASSUME NEW x \in BuddyOf(k)
                     PROVE  x \in e.addr..(e.addr + e.len - 1)
          OBVIOUS
        <5>1. x \in Int /\ a + m <= x /\ x <= a + m + BUDDY_MAX_SIZE - 1
          BY <2>3, <2>4, <2>5, <3>2
        <5> QED
          BY <2>3, <2>4, <2>5, <4>3, <5>1
      <4> QED
        BY <4>1, <4>2, <4>3
    <3> QED
      BY <2>6, <3>1, <3>2
  <2> QED
    BY <2>1, <2>7, <2>8, <2>9, <2>10, <2>11 DEF e, ke, u, m
<1> QED
  BY <1>1, MemInvHolds, PTL

\* phys2page looks for the first area that does not end before an address.
LEMMA FirstArea ==
  ASSUME NEW a, NEW k \in 1..areas_sz, areas_sz \in Nat,
         areas[k].addr + areas[k].len >= a,
         \A j \in 1..(k - 1) : ~(areas[j].addr + areas[j].len >= a)
  PROVE  phys2page(a).area = k
         /\ phys2page(a).index = (a \div PGSIZE) - (areas[k].addr \div PGSIZE)
<1> DEFINE from == {j \in 1..areas_sz : areas[j].addr + areas[j].len >= a}
           c == CHOOSE j \in from : \A l \in from : j <= l
<1>1. k \in from /\ \A j \in from : k <= j
  <2>1. k \in from
    OBVIOUS
  <2>2. ASSUME NEW j \in from, ~(k <= j)
        PROVE  FALSE
    <3>1. j \in 1..(k - 1)
      BY <2>2
    <3> QED
      BY <3>1
  <2> QED
    BY <2>1, <2>2
<1>2. from \subseteq Nat
  OBVIOUS
<1>3. phys2page(a) = [area |-> c, index |-> (a \div PGSIZE) - (areas[c].addr \div PGSIZE)]
  BY DEF phys2page
<1> HIDE DEF from
<1>4. c \in from /\ \A l \in from : c <= l
  BY <1>1
<1> HIDE DEF c
<1>5. c = k
  <2>1. c <= k /\ k <= c /\ c \in Nat /\ k \in Nat
    BY <1>1, <1>2, <1>4
  <2> QED
    BY <2>1
<1> QED
  BY <1>3, <1>5

\* Every page of a buddy has its struct page in the map of the buddy's area, and
\* phys2page finds it, under the conditions PagesInMap names.
THEOREM PagesFound == Spec => []PagesInMap
<1>1. MemInv => PagesInMap
  <2> SUFFICES ASSUME MemInv, pc = "done", NEW k \in 1..areas_sz,
                      areas[k].addr = Reported[k].addr, areas[k].addr % PGSIZE = 0,
                      BuddyOf(k) # {},
                      BuddyOf(k) \subseteq Extent(Reported[k].addr, Reported[k].len),
                      \A j \in 1..(k - 1) : areas[j].addr + areas[j].len < areas[k].base,
                      NEW n \in 0..(BUDDY_MAX_SIZE \div PGSIZE - 1)
               PROVE  LET p == phys2page(areas[k].base + n * PGSIZE)
                      IN  p.area = k /\ p.index < areas[k].map_sz
    BY DEF PagesInMap
  <2> DEFINE e == Reported[k]
             ke == boot.kernel_end
             m == MapSizeOf(e, ke)
             P == PGSIZE
             B == BUDDY_MAX_SIZE
             x == m + n * P
  <2>1. boot \in BootInfos /\ Finished
    BY DEF MemInv, TypeOK
  <2>2. N \in Nat /\ areas_sz = N /\ k \in 1..N
    BY <2>1, ReportedGood DEF Finished, Allocated
  <2>3. \A j \in 1..N : Good(Reported[j], ke) /\ areas[j] = Final(Reported[j], ke)
    BY <2>1, ReportedGood DEF Finished
  <2>4. /\ areas[k].addr = AddrOf(e, ke) /\ areas[k].len = e.len
        /\ areas[k].base = AddrOf(e, ke) + m /\ areas[k].map_sz = PagesOf(e, ke)
    <3>1. areas[k] = Final(e, ke)
      BY <2>2, <2>3
    <3> QED
      BY <3>1 DEF Final
  <2>5. /\ Good(e, ke) /\ e.addr \in Nat /\ e.len \in Nat
        /\ AddrOf(e, ke) = e.addr + UsedOf(e, ke) /\ UsedOf(e, ke) \in Nat
        /\ m \in Nat
    BY <2>2, <2>3, Sizes, MapFits
  <2>6. UsedOf(e, ke) = 0 /\ areas[k].base = e.addr + m /\ PagesOf(e, ke) = e.len \div P
    <3>1. UsedOf(e, ke) = 0
      BY <2>4, <2>5
    <3> QED
      BY <2>4, <2>5, <3>1 DEF PagesOf
  <2>7. P \in Nat \ {0} /\ B \in Nat /\ B # 0
    BY SizeTypes
  <2>8. n \in Nat /\ n * P \in Nat /\ n * P + P <= B
    <3>1. PICK w \in 1..B : B = P * w
      BY SizesAssumption
    <3>2. w \in Nat /\ B = w * P + 0 /\ 0 \in Nat
      BY <2>7, <3>1
    <3>3. B \div P = w
      <4>1. (w * P + 0) \div P = w + (0 \div P)
        BY <3>2, PagesDivided
      <4>2. 0 \div P = 0
        BY <2>7
      <4> QED
        BY <3>2, <4>1, <4>2
    <3>4. n \in Nat /\ n + 1 <= w /\ n + 1 \in Nat
      BY <3>2, <3>3
    <3>5. (n + 1) * P <= w * P /\ n * P \in Nat
      BY <2>7, <3>2, <3>4, MonotoneProduct
    <3>6. (n + 1) * P = n * P + P
      BY <2>7, <3>4
    <3> QED
      BY <2>7, <3>2, <3>4, <3>5, <3>6
  <2>9. areas[k].base + B <= e.addr + e.len
    <3>1. BuddyOf(k) = areas[k].base..(areas[k].base + B - 1)
      BY DEF BuddyOf, Extent
    <3>2. areas[k].base + B - 1 \in BuddyOf(k)
      <4>1. areas[k].base \in Nat
        BY <2>5, <2>6
      <4> HIDE DEF B
      <4> QED
        BY <2>7, <3>1, <4>1
    <3>3. areas[k].base + B - 1 \in e.addr..(e.addr + e.len - 1)
      BY <3>2 DEF Extent
    <3> QED
      BY <2>5, <2>6, <2>7, <3>3
  <2>10. \A j \in 1..(k - 1) : areas[j].addr \in Nat /\ areas[j].len \in Nat
    <3> TAKE j \in 1..(k - 1)
    <3>1. j \in 1..N
      BY <2>2
    <3>2. areas[j] = Final(Reported[j], ke) /\ Good(Reported[j], ke)
      BY <2>3, <3>1
    <3>3. AddrOf(Reported[j], ke) \in Nat /\ Reported[j].len \in Nat
      BY <3>2, Sizes
    <3> QED
      BY <3>2, <3>3 DEF Final
  <2>11. areas[k].base + n * P = e.addr + x /\ x \in Nat /\ x + P <= e.len
    BY <2>5, <2>6, <2>7, <2>8, <2>9
  <2> DEFINE a == areas[k].base + n * P
  <2>12. /\ phys2page(a).area = k
         /\ phys2page(a).index = (a \div P) - (areas[k].addr \div P)
    <3>1. areas[k].addr + areas[k].len >= a
      BY <2>4, <2>5, <2>6, <2>7, <2>11
    <3>2. ASSUME NEW j \in 1..(k - 1)
          PROVE  ~(areas[j].addr + areas[j].len >= a)
      <4>1. areas[j].addr + areas[j].len < areas[k].base
        OBVIOUS
      <4>2. areas[k].base \in Nat /\ areas[j].addr \in Nat /\ areas[j].len \in Nat
        BY <2>5, <2>6, <2>10
      <4> HIDE DEF P
      <4> QED
        BY <2>8, <4>1, <4>2
    <3>3. areas_sz \in Nat
      BY <2>2
    <3> HIDE DEF a
    <3> QED
      BY <3>1, <3>2, <3>3, FirstArea
  <2>13. (a \div P) - (areas[k].addr \div P) = x \div P
    <3> DEFINE q == e.addr \div P
    <3>1. q \in Nat /\ e.addr = q * P
      BY <2>4, <2>5, <2>7
    <3> HIDE DEF q, x
    <3>2. (q * P + x) \div P = q + (x \div P) /\ a = q * P + x
      BY <2>11, <3>1, PagesDivided
    <3>3. x \div P \in Nat
      BY <2>11, WholePages
    <3>4. areas[k].addr \div P = q
      BY DEF q
    <3> HIDE DEF a
    <3> QED
      BY <3>1, <3>2, <3>3, <3>4
  <2>14. x \div P < e.len \div P
    <3> DEFINE y == x \div P
               z == e.len \div P
    <3> HIDE DEF x
    <3>1. y \in Nat /\ z \in Nat /\ y * P <= x /\ e.len < z * P + P
      BY <2>5, <2>11, WholePages
    <3> HIDE DEF y, z
    <3>2. z <= y => z * P <= y * P
      BY <2>7, <3>1, MonotoneProduct
    <3>3. y * P \in Nat /\ z * P \in Nat
      BY <2>7, <3>1, MonotoneProduct
    <3>4. ~(z * P <= y * P)
      <4> DEFINE yp == y * P
                 zp == z * P
      <4>1. yp \in Nat /\ zp \in Nat /\ yp <= x /\ e.len < zp + P
        BY <3>1, <3>3
      <4> HIDE DEF yp, zp, P
      <4>2. ~(zp <= yp)
        BY <2>5, <2>7, <2>11, <4>1
      <4> QED
        BY <4>2 DEF yp, zp
    <3>5. y < z
      BY <3>1, <3>2, <3>4
    <3> QED
      BY <3>5 DEF y, z
  <2> QED
    BY <2>4, <2>6, <2>12, <2>13, <2>14
<1> QED
  BY <1>1, MemInvHolds, PTL

=============================================================================
