---------------------------- MODULE ListsProofs ----------------------------
(***************************************************************************)
(* For every set of heads and entries: the pointers of list.c represent    *)
(* the sequences of entries that were pushed and not taken off.            *)
(***************************************************************************)
EXTENDS Lists, NatLemmas, SequenceTheorems

\* The inductive invariant: Represents needs the types and the fact that no
\* entry is on two rings, or an update at one place would be seen at another.
ListsInv == TypeOK /\ OneListEach /\ Represents

-----------------------------------------------------------------------------
\* One store to a next pointer changes that pointer and nothing else.
LEMMA StoreNext ==
  ASSUME NEW m \in [Cells -> ListT], NEW c \in Cells, NEW v \in Pointers
  PROVE  LET n == [m EXCEPT ![c].next = v]
         IN  /\ n \in [Cells -> ListT]
             /\ \A d \in Cells : /\ n[d].next = IF d = c THEN v ELSE m[d].next
                                 /\ n[d].prev = m[d].prev
  BY DEF ListT

\* One store to a prev pointer changes that pointer and nothing else.
LEMMA StorePrev ==
  ASSUME NEW m \in [Cells -> ListT], NEW c \in Cells, NEW v \in Pointers
  PROVE  LET n == [m EXCEPT ![c].prev = v]
         IN  /\ n \in [Cells -> ListT]
             /\ \A d \in Cells : /\ n[d].prev = IF d = c THEN v ELSE m[d].prev
                                 /\ n[d].next = m[d].next
  BY DEF ListT

\* list_pushback, pointer by pointer, for an entry that is not its own
\* predecessor: four stores, at most three cells.
LEMMA PushbackCells ==
  ASSUME NEW m \in [Cells -> ListT], NEW lst \in Cells, NEW e \in Cells,
         e # lst, m[lst].prev \in Cells, m[lst].prev # e
  PROVE  LET n == list_pushback(m, lst, e)
             p == m[lst].prev
         IN  /\ n \in [Cells -> ListT]
             /\ \A c \in Cells :
                  /\ n[c].next = IF c = p THEN e ELSE IF c = e THEN lst ELSE m[c].next
                  /\ n[c].prev = IF c = lst THEN e ELSE IF c = e THEN p ELSE m[c].prev
<1> DEFINE p == m[lst].prev
           m1 == [m EXCEPT ![p].next = e]
           m2 == [m1 EXCEPT ![lst].prev = e]
           m3 == [m2 EXCEPT ![e].prev = p]
           m4 == [m3 EXCEPT ![e].next = lst]
<1>1. list_pushback(m, lst, e) = m4
  BY DEF list_pushback
<1>2. p \in Pointers /\ lst \in Pointers /\ e \in Pointers
  BY DEF Pointers
<1>3. /\ m1 \in [Cells -> ListT]
      /\ \A d \in Cells : /\ m1[d].next = IF d = p THEN e ELSE m[d].next
                          /\ m1[d].prev = m[d].prev
  BY <1>2, StoreNext
<1> HIDE DEF m1
<1>4. /\ m2 \in [Cells -> ListT]
      /\ \A d \in Cells : /\ m2[d].prev = IF d = lst THEN e ELSE m1[d].prev
                          /\ m2[d].next = m1[d].next
  BY <1>2, <1>3, StorePrev
<1> HIDE DEF m2
<1>5. /\ m3 \in [Cells -> ListT]
      /\ \A d \in Cells : /\ m3[d].prev = IF d = e THEN p ELSE m2[d].prev
                          /\ m3[d].next = m2[d].next
  BY <1>2, <1>4, StorePrev
<1> HIDE DEF m3
<1>6. /\ m4 \in [Cells -> ListT]
      /\ \A d \in Cells : /\ m4[d].next = IF d = e THEN lst ELSE m3[d].next
                          /\ m4[d].prev = m3[d].prev
  BY <1>2, <1>5, StoreNext
<1> HIDE DEF m4
<1> QED
  BY <1>1, <1>3, <1>4, <1>5, <1>6

\* list_remove, pointer by pointer, for an entry between two other cells
\* (which are the same cell, the head, when the entry is alone on its list).
LEMMA RemoveCells ==
  ASSUME NEW m \in [Cells -> ListT], NEW e \in Cells,
         m[e].prev \in Cells \ {e}, m[e].next \in Cells \ {e}
  PROVE  LET n == list_remove(m, e)
             p == m[e].prev
             q == m[e].next
         IN  /\ n \in [Cells -> ListT]
             /\ \A c \in Cells :
                  /\ n[c].next = IF c = e THEN e ELSE IF c = p THEN q ELSE m[c].next
                  /\ n[c].prev = IF c = e THEN e ELSE IF c = q THEN p ELSE m[c].prev
<1> DEFINE p == m[e].prev
           q == m[e].next
           m1 == [m EXCEPT ![p].next = q]
           m2 == [m1 EXCEPT ![q].prev = p]
           m3 == [m2 EXCEPT ![e].next = e]
           m4 == [m3 EXCEPT ![e].prev = e]
<1>1. list_remove(m, e) = m4
  BY DEF list_remove
<1>2. p \in Pointers /\ q \in Pointers /\ e \in Pointers
  BY DEF Pointers
<1>3. /\ m1 \in [Cells -> ListT]
      /\ \A d \in Cells : /\ m1[d].next = IF d = p THEN q ELSE m[d].next
                          /\ m1[d].prev = m[d].prev
  BY <1>2, StoreNext
<1> HIDE DEF m1
<1>4. /\ m2 \in [Cells -> ListT]
      /\ \A d \in Cells : /\ m2[d].prev = IF d = q THEN p ELSE m1[d].prev
                          /\ m2[d].next = m1[d].next
  BY <1>2, <1>3, StorePrev
<1> HIDE DEF m2
<1>5. /\ m3 \in [Cells -> ListT]
      /\ \A d \in Cells : /\ m3[d].next = IF d = e THEN e ELSE m2[d].next
                          /\ m3[d].prev = m2[d].prev
  BY <1>2, <1>4, StoreNext
<1> HIDE DEF m3
<1>6. /\ m4 \in [Cells -> ListT]
      /\ \A d \in Cells : /\ m4[d].prev = IF d = e THEN e ELSE m3[d].prev
                          /\ m4[d].next = m3[d].next
  BY <1>2, <1>5, StorePrev
<1> HIDE DEF m4
<1> QED
  BY <1>1, <1>3, <1>4, <1>5, <1>6

-----------------------------------------------------------------------------
\* The places of all the rings are distinct cells.
LEMMA PlacesDistinct ==
  ASSUME TypeOK, OneListEach, ListsAssumption
  PROVE  /\ \A h \in Heads : \A i \in Nat :
              Place(h, i) \in Cells /\ (i = 0 => Place(h, i) = h)
         /\ \A g, h \in Heads :
              \A i \in 0..Len(lists[g]), j \in 0..Len(lists[h]) :
                Place(g, i) = Place(h, j) => g = h /\ i = j
  BY DEF TypeOK, OneListEach, ListsAssumption, Place, Cells

\* The neighbours of the i-th cell of a ring, as its own pointers give them.
LEMMA Neighbours ==
  ASSUME TypeOK, Represents, NEW h \in Heads
  PROVE  /\ mem[h].prev = Place(h, Len(lists[h]))
         /\ mem[h].next = Place(h, 1)
         /\ \A i \in 1..Len(lists[h]) : /\ mem[lists[h][i]].prev = Place(h, i - 1)
                                       /\ mem[lists[h][i]].next = Place(h, i + 1)
<1>1. Len(lists[h]) \in Nat
  BY DEF TypeOK
<1>2. ASSUME NEW i \in 0..Len(lists[h])
      PROVE  /\ mem[Place(h, i)].next = Place(h, i + 1)
             /\ mem[Place(h, i + 1)].prev = Place(h, i)
  BY DEF Represents
<1>3. mem[h].prev = Place(h, Len(lists[h])) /\ mem[h].next = Place(h, 1)
  BY <1>1, <1>2 DEF Place
<1>4. ASSUME NEW i \in 1..Len(lists[h])
      PROVE  /\ mem[lists[h][i]].prev = Place(h, i - 1)
             /\ mem[lists[h][i]].next = Place(h, i + 1)
  <2>1. i \in 0..Len(lists[h]) /\ i - 1 \in 0..Len(lists[h]) /\ (i - 1) + 1 = i
    BY <1>1
  <2> QED
    BY <1>2, <2>1 DEF Place
<1> QED
  BY <1>3, <1>4

\* list_pushback of an unlinked entry keeps every ring represented.
LEMMA PushbackInv ==
  ASSUME ListsInv, ListsAssumption, NEW h \in Heads, NEW e \in Entries, Pushback(h, e)
  PROVE  ListsInv'
<1> USE DEF ListsInv
<1> DEFINE n == Len(lists[h])
           p == mem[h].prev
<1>1. /\ ~Linked(e)
      /\ mem' = list_pushback(mem, h, e)
      /\ lists' = [lists EXCEPT ![h] = Append(@, e)]
      /\ ret' = ret
  BY DEF Pushback
<1>2. /\ lists' \in [Heads -> Seq(Entries)]
      /\ n \in Nat
      /\ Len(lists'[h]) = n + 1
      /\ \A i \in 1..n : lists'[h][i] = lists[h][i]
      /\ lists'[h][n + 1] = e
      /\ \A g \in Heads \ {h} : lists'[g] = lists[g]
  BY <1>1 DEF TypeOK
<1>3. \A g \in Heads : \A i \in 1..Len(lists[g]) : lists[g][i] \in Entries /\ lists[g][i] # e
  BY <1>1 DEF Linked, On, TypeOK
<1>4. p = Place(h, n) /\ p \in Cells /\ p # e /\ e # h /\ h \in Cells /\ e \in Cells
  BY <1>2, <1>3, Neighbours, PlacesDistinct DEF Place, ListsAssumption, Cells
<1>5. /\ mem' \in [Cells -> ListT]
      /\ \A c \in Cells :
           /\ mem'[c].next = IF c = p THEN e ELSE IF c = e THEN h ELSE mem[c].next
           /\ mem'[c].prev = IF c = h THEN e ELSE IF c = e THEN p ELSE mem[c].prev
  BY <1>1, <1>4, PushbackCells DEF TypeOK
<1>6. TypeOK'
  BY <1>1, <1>2, <1>5 DEF TypeOK
<1>7. OneListEach'
  <2> SUFFICES ASSUME NEW h1 \in Heads, NEW h2 \in Heads,
                      NEW i \in 1..Len(lists'[h1]), NEW j \in 1..Len(lists'[h2]),
                      lists'[h1][i] = lists'[h2][j]
               PROVE  h1 = h2 /\ i = j
    BY DEF OneListEach
  <2>1. CASE h1 = h /\ i = n + 1
    <3>1. lists'[h2][j] = e
      BY <2>1, <1>2
    <3>2. CASE h2 = h
      BY <2>1, <3>1, <3>2, <1>2, <1>3
    <3>3. CASE h2 # h
      BY <3>1, <3>3, <1>2, <1>3
    <3> QED
      BY <3>2, <3>3
  <2>2. CASE h2 = h /\ j = n + 1
    <3>1. lists'[h1][i] = e
      BY <2>2, <1>2
    <3>2. CASE h1 = h
      BY <2>2, <3>1, <3>2, <1>2, <1>3
    <3>3. CASE h1 # h
      BY <3>1, <3>3, <1>2, <1>3
    <3> QED
      BY <3>2, <3>3
  <2>3. CASE ~(h1 = h /\ i = n + 1) /\ ~(h2 = h /\ j = n + 1)
    <3>1. /\ i \in 1..Len(lists[h1]) /\ lists'[h1][i] = lists[h1][i]
          /\ j \in 1..Len(lists[h2]) /\ lists'[h2][j] = lists[h2][j]
      BY <2>3, <1>2
    <3>2. lists[h1][i] = lists[h2][j]
      BY <3>1
    <3> QED
      BY <3>1, <3>2 DEF OneListEach
  <2> QED
    BY <2>1, <2>2, <2>3
<1>8. ASSUME NEW g \in Heads, NEW i \in 0..Len(lists'[g])
      PROVE  /\ mem'[Place(g, i)'].next = Place(g, i + 1)'
             /\ mem'[Place(g, i + 1)'].prev = Place(g, i)'
  <2>1. CASE g # h
    <3>1. Place(g, i)' = Place(g, i) /\ Place(g, i + 1)' = Place(g, i + 1)
      BY <2>1, <1>2 DEF Place
    <3>2. i \in 0..Len(lists[g]) /\ Len(lists[g]) \in Nat
      BY <2>1, <1>2 DEF TypeOK
    <3>3. /\ mem[Place(g, i)].next = Place(g, i + 1)
          /\ mem[Place(g, i + 1)].prev = Place(g, i)
      BY <3>2 DEF Represents
    <3>4. /\ Place(g, i) \in Cells /\ Place(g, i) # e /\ Place(g, i) # p
          /\ Place(g, i + 1) \in Cells /\ Place(g, i + 1) # e /\ Place(g, i + 1) # h
      <4>1. n \in 0..Len(lists[h])
        BY <1>2
      <4>2. Place(g, i) \in Cells /\ Place(g, i) # e /\ Place(g, i) # p
        BY <2>1, <3>2, <1>3, <1>4, <4>1, PlacesDistinct DEF Place, ListsAssumption
      <4>3. Place(g, i + 1) \in Cells /\ Place(g, i + 1) # e /\ Place(g, i + 1) # h
        BY <2>1, <3>2, <1>3, PlacesDistinct DEF Place, ListsAssumption
      <4> QED
        BY <4>2, <4>3
    <3> QED
      BY <3>1, <3>3, <3>4, <1>5
  <2>2. CASE g = h /\ i < n
    <3>1. /\ i \in 0..n /\ i + 1 \in 1..n /\ n \in 0..n
          /\ Place(h, i)' = Place(h, i) /\ Place(h, i + 1)' = Place(h, i + 1)
      BY <2>2, <1>2 DEF Place
    <3>2. /\ mem[Place(h, i)].next = Place(h, i + 1)
          /\ mem[Place(h, i + 1)].prev = Place(h, i)
      BY <3>1 DEF Represents
    <3>3. /\ Place(h, i) \in Cells /\ Place(h, i) # e /\ Place(h, i) # p
      BY <2>2, <3>1, <1>2, <1>3, <1>4, PlacesDistinct DEF Place, ListsAssumption
    <3>4. Place(h, i + 1) \in Cells /\ Place(h, i + 1) # e /\ Place(h, i + 1) # h
      BY <3>1, <1>3 DEF Place, ListsAssumption, Cells
    <3> QED
      BY <2>2, <3>1, <3>2, <3>3, <3>4, <1>5
  <2>3. CASE g = h /\ i = n
    <3>1. Place(h, i)' = Place(h, i) /\ Place(h, i + 1)' = e
      BY <2>3, <1>2 DEF Place
    <3> QED
      BY <2>3, <3>1, <1>4, <1>5
  <2>4. CASE g = h /\ i = n + 1
    <3>1. Place(h, i)' = e /\ Place(h, i + 1)' = h
      BY <2>4, <1>2 DEF Place
    <3> QED
      BY <2>4, <3>1, <1>4, <1>5
  <2> QED
    BY <2>1, <2>2, <2>3, <2>4, <1>2
<1> QED
  BY <1>6, <1>7, <1>8 DEF Represents

\* list_remove of the k-th entry of a ring, wherever it is, keeps every ring
\* represented: list_pop is the case of the last entry.
LEMMA RemoveInv ==
  ASSUME ListsInv, ListsAssumption, NEW h \in Heads, NEW k \in 1..Len(lists[h]),
         mem' = list_remove(mem, lists[h][k]),
         lists' = [lists EXCEPT ![h] = Without(@, k)],
         ret' \in Entries \cup {NULL}
  PROVE  ListsInv'
<1> USE DEF ListsInv
<1> DEFINE n == Len(lists[h])
           e == lists[h][k]
           p == Place(h, k - 1)
           q == Place(h, k + 1)
<1>1. /\ lists' \in [Heads -> Seq(Entries)]
      /\ n \in Nat /\ n > 0
      /\ Len(lists'[h]) = n - 1
      /\ \A i \in 1..(n - 1) : lists'[h][i] = IF i < k THEN lists[h][i] ELSE lists[h][i + 1]
      /\ \A g \in Heads \ {h} : lists'[g] = lists[g]
  <2>1. n \in Nat /\ n > 0 /\ lists[h] \in Seq(Entries) /\ \A i \in 1..n : lists[h][i] \in Entries
    BY DEF TypeOK
  <2>2. /\ Without(lists[h], k) \in Seq(Entries)
        /\ Len(Without(lists[h], k)) = n - 1
        /\ \A i \in 1..(n - 1) :
             Without(lists[h], k)[i] = IF i < k THEN lists[h][i] ELSE lists[h][i + 1]
    BY <2>1 DEF Without
  <2>3. /\ lists'[h] = Without(lists[h], k)
        /\ lists' \in [Heads -> Seq(Entries)]
        /\ \A g \in Heads \ {h} : lists'[g] = lists[g]
    BY <2>2 DEF TypeOK
  <2> QED
    BY <2>1, <2>2, <2>3
<1>2. /\ e \in Entries /\ e \in Cells /\ e = Place(h, k)
      /\ mem[e].prev = p /\ mem[e].next = q
      /\ p \in Cells \ {e} /\ q \in Cells \ {e}
  <2>1. /\ e \in Entries /\ e \in Cells /\ e = Place(h, k)
        /\ mem[e].prev = p /\ mem[e].next = q
    BY Neighbours DEF Place, TypeOK, Cells
  <2>2. k - 1 \in 0..n /\ k \in 0..n /\ k + 1 \in Nat /\ k - 1 \in Nat
    BY <1>1
  <2>3. p \in Cells \ {e}
    BY <2>1, <2>2, PlacesDistinct
  <2>4. q \in Cells \ {e}
    BY <2>1, <2>2, PlacesDistinct DEF Place, ListsAssumption
  <2> QED
    BY <2>1, <2>3, <2>4
<1>3. /\ mem' \in [Cells -> ListT]
      /\ \A c \in Cells :
           /\ mem'[c].next = IF c = e THEN e ELSE IF c = p THEN q ELSE mem[c].next
           /\ mem'[c].prev = IF c = e THEN e ELSE IF c = q THEN p ELSE mem[c].prev
  BY <1>2, RemoveCells DEF TypeOK
<1>4. TypeOK'
  BY <1>1, <1>3 DEF TypeOK
<1>5. OneListEach'
  <2> SUFFICES ASSUME NEW h1 \in Heads, NEW h2 \in Heads,
                      NEW i \in 1..Len(lists'[h1]), NEW j \in 1..Len(lists'[h2]),
                      lists'[h1][i] = lists'[h2][j]
               PROVE  h1 = h2 /\ i = j
    BY DEF OneListEach
  <2> DEFINE old(g, x) == IF g = h /\ x >= k THEN x + 1 ELSE x
  <2>1. /\ old(h1, i) \in 1..Len(lists[h1]) /\ lists'[h1][i] = lists[h1][old(h1, i)]
        /\ old(h2, j) \in 1..Len(lists[h2]) /\ lists'[h2][j] = lists[h2][old(h2, j)]
    BY <1>1
  <2>2. h1 = h2 /\ old(h1, i) = old(h2, j)
    BY <2>1 DEF OneListEach
  <2>3. i \in Nat /\ j \in Nat /\ k \in Nat
    BY <1>1, <1>4 DEF TypeOK
  <2> QED
    BY <2>2, <2>3
<1>6. ASSUME NEW g \in Heads, NEW i \in 0..Len(lists'[g])
      PROVE  /\ mem'[Place(g, i)'].next = Place(g, i + 1)'
             /\ mem'[Place(g, i + 1)'].prev = Place(g, i)'
  <2>1. CASE g # h
    <3>1. Place(g, i)' = Place(g, i) /\ Place(g, i + 1)' = Place(g, i + 1)
      BY <2>1, <1>1 DEF Place
    <3>2. i \in 0..Len(lists[g]) /\ Len(lists[g]) \in Nat
      BY <2>1, <1>1 DEF TypeOK
    <3>3. /\ mem[Place(g, i)].next = Place(g, i + 1)
          /\ mem[Place(g, i + 1)].prev = Place(g, i)
      BY <3>2 DEF Represents
    <3>4. ASSUME NEW j \in Nat
          PROVE  Place(g, j) \in Cells /\ Place(g, j) \notin {e, p, q}
      <4>1. \E m \in 0..Len(lists[g]) : Place(g, j) = Place(g, m)
        <5>1. CASE j \in 0..Len(lists[g])
          BY <5>1
        <5>2. CASE j \notin 0..Len(lists[g])
          BY <5>2, <3>2 DEF Place
        <5> QED
          BY <5>1, <5>2
      <4>2. k \in 0..n /\ k - 1 \in 0..n
        BY <1>1
      <4>3. Place(g, j) # e /\ Place(g, j) # p
        BY <2>1, <1>2, <4>1, <4>2, PlacesDistinct
      <4>4. \E m \in 0..n : q = Place(h, m)
        BY <1>1 DEF Place
      <4>5. Place(g, j) # q
        BY <2>1, <4>1, <4>4, PlacesDistinct
      <4> QED
        BY <4>3, <4>5, PlacesDistinct
    <3>5. i \in Nat /\ i + 1 \in Nat
      BY <3>2
    <3> QED
      BY <3>1, <3>3, <3>4, <3>5, <1>3
  <2>2. CASE g = h
    <3>1. i \in 0..(n - 1) /\ k \in 1..n /\ n \in Nat
      BY <2>2, <1>1
    <3>2. /\ Place(h, i)' = IF i < k THEN Place(h, i) ELSE Place(h, i + 1)
          /\ Place(h, i + 1)' = IF i + 1 < k THEN Place(h, i + 1) ELSE Place(h, (i + 1) + 1)
      BY <3>1, <1>1 DEF Place
    <3>3. ASSUME NEW j \in 0..n
          PROVE  /\ mem[Place(h, j)].next = Place(h, j + 1)
                 /\ mem[Place(h, j + 1)].prev = Place(h, j)
      BY DEF Represents
    <3>4. CASE i + 1 < k
      <4>1. /\ i \in 0..n /\ i + 1 \in 0..n /\ k - 1 \in 0..n /\ k \in 0..n
            /\ i # k - 1 /\ i # k /\ i + 1 # k /\ i + 1 # 0
        BY <3>1, <3>4
      <4>2. /\ Place(h, i) \in Cells /\ Place(h, i) # e /\ Place(h, i) # p
            /\ Place(h, i + 1) \in Cells /\ Place(h, i + 1) # e
        BY <1>2, <4>1, PlacesDistinct
      <4>3. Place(h, i + 1) # q
        <5>1. CASE k = n
          BY <3>1, <4>1, <5>1, <1>1, PlacesDistinct DEF Place
        <5>2. CASE k # n
          <6>1. k + 1 \in 0..n /\ i + 1 # k + 1
            BY <3>1, <3>4, <5>2
          <6> QED
            BY <4>1, <6>1, <1>1, PlacesDistinct
        <5> QED
          BY <5>1, <5>2
      <4> QED
        BY <2>2, <3>2, <3>3, <3>4, <3>1, <4>1, <4>2, <4>3, <1>3
    <3>5. CASE i + 1 = k
      <4>1. Place(h, i)' = p /\ Place(h, i + 1)' = q
        BY <3>1, <3>2, <3>5
      <4> QED
        BY <2>2, <4>1, <1>2, <1>3
    <3>6. CASE i >= k
      <4>1. /\ i + 1 \in 0..n /\ (i + 1) + 1 \in Nat /\ k - 1 \in 0..n /\ k \in 0..n
            /\ i + 1 # k - 1 /\ i + 1 # k /\ (i + 1) + 1 # k + 1
        BY <3>1, <3>6
      <4>2. /\ Place(h, i + 1) \in Cells /\ Place(h, i + 1) # e /\ Place(h, i + 1) # p
        BY <1>2, <4>1, PlacesDistinct
      <4>3. /\ Place(h, (i + 1) + 1) \in Cells /\ Place(h, (i + 1) + 1) # e
            /\ Place(h, (i + 1) + 1) # q
        BY <3>1, <3>6, <1>1, <1>2, <4>1, PlacesDistinct DEF Place, ListsAssumption, OneListEach
      <4>4. Place(h, i)' = Place(h, i + 1) /\ Place(h, i + 1)' = Place(h, (i + 1) + 1)
        BY <3>1, <3>2, <3>6
      <4> QED
        BY <2>2, <3>3, <4>1, <4>2, <4>3, <4>4, <1>3
    <3> QED
      BY <3>1, <3>4, <3>5, <3>6
  <2> QED
    BY <2>1, <2>2
<1> QED
  BY <1>4, <1>5, <1>6 DEF Represents

-----------------------------------------------------------------------------
LEMMA InitInv ==
  ASSUME ListsAssumption, Init
  PROVE  ListsInv
<1> USE DEF Init
<1>1. PICK junk \in [Entries -> Junk] :
        mem = [c \in Cells |-> IF c \in Heads THEN [prev |-> c, next |-> c] ELSE junk[c]]
  OBVIOUS
<1>2. TypeOK
  BY <1>1 DEF TypeOK, ListsAssumption, Cells, ListT, Pointers
<1>3. \A h \in Heads : lists[h] = <<>> /\ Len(lists[h]) = 0
  OBVIOUS
<1>4. OneListEach
  BY <1>3 DEF OneListEach
<1>5. Represents
  BY <1>1, <1>3 DEF Represents, Place, Cells
<1> QED
  BY <1>2, <1>4, <1>5 DEF ListsInv

\* An empty test on the pointers is an empty test on the contents, and the
\* back of the ring is the newest entry.
LEMMA BackIsNewest ==
  ASSUME ListsInv, ListsAssumption, NEW h \in Heads
  PROVE  /\ list_empty(mem, h) <=> Len(lists[h]) = 0
         /\ ~list_empty(mem, h) => /\ Len(lists[h]) \in 1..Len(lists[h])
                                   /\ list_back(mem, h) = lists[h][Len(lists[h])]
<1>1. mem[h].prev = Place(h, Len(lists[h])) /\ Len(lists[h]) \in Nat
  BY Neighbours DEF ListsInv, TypeOK
<1>2. \A i \in 1..Len(lists[h]) : lists[h][i] \in Entries
  BY DEF ListsInv, TypeOK
<1> QED
  BY <1>1, <1>2 DEF list_empty, list_back, Place, ListsAssumption

LEMMA NextInv ==
  ASSUME ListsInv, ListsAssumption, [Next]_vars
  PROVE  ListsInv'
<1>1. ASSUME NEW h \in Heads, NEW e \in Entries, Pushback(h, e)
      PROVE  ListsInv'
  BY <1>1, PushbackInv
<1>2. ASSUME NEW h \in Heads, NEW e \in Entries, Remove(h, e)
      PROVE  ListsInv'
  <2>1. PICK k \in 1..Len(lists[h]) : k = Position(lists[h], e) /\ lists[h][k] = e
    BY <1>2 DEF Remove, On, Position
  <2>2. ret' \in Entries \cup {NULL}
    BY <1>2 DEF Remove, ListsInv, TypeOK
  <2>3. lists' = [lists EXCEPT ![h] = Without(@, k)] /\ mem' = list_remove(mem, lists[h][k])
    BY <1>2, <2>1 DEF Remove
  <2> QED
    BY <2>2, <2>3, RemoveInv
<1>3. ASSUME NEW h \in Heads, Pop(h)
      PROVE  ListsInv'
  <2>1. CASE list_empty(mem, h)
    <3>1. mem' = mem /\ lists' = lists /\ ret' \in Entries \cup {NULL}
      BY <1>3, <2>1 DEF Pop
    <3>2. TypeOK'
      BY <3>1 DEF ListsInv, TypeOK
    <3>3. OneListEach'
      BY <3>1 DEF ListsInv, OneListEach
    <3>4. Represents'
      BY <3>1 DEF ListsInv, Represents, Place
    <3> QED
      BY <3>2, <3>3, <3>4 DEF ListsInv
  <2>2. CASE ~list_empty(mem, h)
    <3>1. PICK k \in 1..Len(lists[h]) : k = Len(lists[h]) /\ list_back(mem, h) = lists[h][k]
      BY <2>2, BackIsNewest
    <3>2. lists[h][k] \in Entries
      BY <3>1 DEF ListsInv, TypeOK
    <3>3. /\ mem' = list_remove(mem, lists[h][k])
          /\ lists' = [lists EXCEPT ![h] = Without(@, k)]
          /\ ret' \in Entries \cup {NULL}
      BY <1>3, <2>2, <3>1, <3>2 DEF Pop, list_pop
    <3> QED
      BY <3>3, RemoveInv
  <2> QED
    BY <2>1, <2>2
<1>4. ASSUME NEW e \in Entries, Scribble(e)
      PROVE  ListsInv'
  <2>1. PICK junk \in Junk : mem' = [mem EXCEPT ![e] = junk]
    BY <1>4 DEF Scribble
  <2>2. ~Linked(e) /\ lists' = lists /\ ret' = ret
    BY <1>4 DEF Scribble
  <2>3. mem' \in [Cells -> ListT] /\ \A c \in Cells \ {e} : mem'[c] = mem[c]
    BY <2>1 DEF ListsInv, TypeOK, ListsAssumption, Cells
  <2>4. \A h \in Heads : \A i \in Nat : Place(h, i) \in Cells \ {e}
    BY <2>2, PlacesDistinct DEF ListsInv, Linked, On, Place, ListsAssumption
  <2>5. Represents'
    <3> SUFFICES ASSUME NEW h \in Heads, NEW i \in 0..Len(lists[h])
                 PROVE  /\ mem'[Place(h, i)].next = Place(h, i + 1)
                        /\ mem'[Place(h, i + 1)].prev = Place(h, i)
      BY <2>2 DEF Represents, Place
    <3>1. i \in Nat /\ i + 1 \in Nat
      BY DEF ListsInv, TypeOK
    <3> QED
      BY <2>3, <2>4, <3>1 DEF ListsInv, Represents
  <2> QED
    BY <2>2, <2>3, <2>5 DEF ListsInv, TypeOK, OneListEach
<1>5. CASE UNCHANGED vars
  BY <1>5 DEF vars, ListsInv, TypeOK, OneListEach, Represents, Place
<1> QED
  BY <1>1, <1>2, <1>3, <1>4, <1>5 DEF Next

\* list.c keeps every list a well-formed ring of exactly the entries pushed on
\* it and not yet taken off, in order, whatever the owners of unlinked entries
\* write into them.
THEOREM RingsRepresentLists == Spec => [](TypeOK /\ Represents)
<1> USE ListsAssumption
<1>1. Init => ListsInv
  BY InitInv
<1>2. ListsInv /\ [Next]_vars => ListsInv'
  BY NextInv
<1>3. ListsInv => TypeOK /\ Represents
  BY DEF ListsInv
<1> QED
  BY <1>1, <1>2, <1>3, PTL DEF Spec

\* The pointers stored in lists and entries, the lists themselves and what
\* list_pop returns stay what they are declared to be.
THEOREM ListsTypes == Spec => []TypeOK
BY RingsRepresentLists, PTL

\* list_pop returns the entry pushed last on its list, NULL on an empty one.
THEOREM PopReturnsNewest == Spec => PopTakesNewest
<1> USE ListsAssumption
<1>1. Init => ListsInv
  BY InitInv
<1>2. ListsInv /\ [Next]_vars => ListsInv'
  BY NextInv
<1>3. ASSUME ListsInv, NEW h \in Heads, Pop(h)
      PROVE  IF lists[h] = <<>> THEN ret' = NULL /\ UNCHANGED mem
             ELSE ret' = lists[h][Len(lists[h])]
  <2>1. lists[h] = <<>> <=> Len(lists[h]) = 0
    BY DEF ListsInv, TypeOK
  <2> QED
    BY <1>3, <2>1, BackIsNewest DEF Pop
<1>4. ListsInv /\ [Next]_vars =>
        [\A h \in Heads : Pop(h) =>
           IF lists[h] = <<>> THEN ret' = NULL /\ UNCHANGED mem
           ELSE ret' = lists[h][Len(lists[h])]]_vars
  BY <1>3
<1> QED
  BY <1>1, <1>2, <1>4, PTL DEF Spec, PopTakesNewest

-----------------------------------------------------------------------------
\* No list is longer than there are entries: the places of a list hold
\* different ones.
LEMMA ListLength ==
  ASSUME ListsInv, ListsAssumption, NEW h \in Heads
  PROVE  /\ Len(lists[h]) \in Nat
         /\ Cardinality(Entries) \in Nat
         /\ Len(lists[h]) <= Cardinality(Entries)
<1> DEFINE n == Len(lists[h])
           f == [i \in 1..n |-> lists[h][i]]
<1>1. n \in Nat /\ \A i \in 1..n : lists[h][i] \in Entries
  BY DEF ListsInv, TypeOK
<1>2. f \in Injection(1..n, Entries)
  BY <1>1 DEF ListsInv, OneListEach, Injection, IsInjective
<1>3. Cardinality(1..n) <= Cardinality(Entries)
  BY <1>2, FS_Injection DEF ListsAssumption
<1>4. Cardinality(1..n) = n
  BY <1>1, FS_Interval
<1>5. Cardinality(Entries) \in Nat
  BY FS_CardinalityType DEF ListsAssumption
<1> QED
  BY <1>1, <1>3, <1>4, <1>5

\* What list_for_each(h) meets when it goes round the ring again and again.
Step(x) == IF x = NULL THEN NULL ELSE mem[x].next
Goes(at, h) == at = [i \in Nat |-> IF i = 0 THEN Step(h) ELSE Step(at[i - 1])]

\* The next cell of a ring after any of its cells.
LEMMA StepOnRing ==
  ASSUME ListsInv, ListsAssumption, NEW h \in Heads, NEW i \in 0..Len(lists[h])
  PROVE  Step(Place(h, i)) = Place(h, i + 1)
<1>1. Place(h, i) \in Cells
  BY PlacesDistinct DEF ListsInv, TypeOK
<1> QED
  BY <1>1 DEF Step, ListsInv, Represents, ListsAssumption

\* There is such a walk: the places of the ring, modulo its length.
LEMMA WalkExists ==
  ASSUME ListsInv, ListsAssumption, NEW h \in Heads
  PROVE  \E at : Goes(at, h)
<1> DEFINE m == Len(lists[h]) + 1
           at == [i \in Nat |-> Place(h, (i + 1) % m)]
<1>1. m \in Nat \ {0}
  BY ListLength
<1>2. Place(h, 0) = h /\ Place(h, m) = h
  BY <1>1 DEF Place
<1>3. ASSUME NEW i \in Nat
      PROVE  Place(h, (i + 1) % m) = Step(Place(h, i % m))
  <2>1. i % m \in 0..(m - 1) /\ (i + 1) % m = IF i % m = m - 1 THEN 0 ELSE (i % m) + 1
    <3> HIDE DEF m
    <3> QED
      BY <1>1, ModNext
  <2>2. i % m \in 0..Len(lists[h])
    <3>1. 0..(m - 1) = 0..Len(lists[h])
      BY ListLength
    <3> QED
      BY <2>1, <3>1
  <2>3. Step(Place(h, i % m)) = Place(h, (i % m) + 1)
    BY <2>2, StepOnRing
  <2> HIDE DEF m
  <2>4. CASE i % m = m - 1
    <3>1. (i + 1) % m = 0 /\ (i % m) + 1 = m
      BY <1>1, <2>1, <2>4
    <3> QED
      BY <1>2, <2>3, <3>1
  <2>5. CASE i % m # m - 1
    BY <2>1, <2>3, <2>5
  <2> QED
    BY <2>4, <2>5
<1>4. \A i \in Nat : at[i] = IF i = 0 THEN Step(h) ELSE Step(at[i - 1])
  <2> HIDE DEF m
  <2> TAKE i \in Nat
  <2>1. CASE i = 0
    <3>1. 0 % m = 0
      BY <1>1, Modulo, m * 0 + 0 = 0
    <3> QED
      BY <1>2, <1>3, <2>1, <3>1
  <2>2. CASE i # 0
    <3>1. i - 1 \in Nat /\ (i - 1) + 1 = i
      BY <2>2
    <3>2. at[i - 1] = Place(h, i % m)
      BY <3>1
    <3> QED
      BY <1>3, <2>2, <3>2
  <2> QED
    BY <2>1, <2>2
<1>5. Goes(at, h)
  <2> HIDE DEF m
  <2> QED
    BY <1>4 DEF Goes
<1> QED
  BY <1>5

\* Every such walk meets the entries in their order, and then the head.
LEMMA WalkMeets ==
  ASSUME ListsInv, ListsAssumption, NEW h \in Heads, NEW at, Goes(at, h)
  PROVE  \A i \in 0..Len(lists[h]) : at[i] = Place(h, i + 1)
<1> DEFINE Bad == {i \in 0..Len(lists[h]) : at[i] # Place(h, i + 1)}
<1>1. Len(lists[h]) \in Nat
  BY ListLength
<1>2. SUFFICES ASSUME Bad # {}
               PROVE  FALSE
  OBVIOUS
<1>3. PICK n \in Bad : \A m \in Bad : n <= m
  <2>1. Bad \subseteq Nat
    BY <1>1
  <2> HIDE DEF Bad
  <2> QED
    BY <1>2, <2>1, LeastNatural
<1>4. \A i \in Nat : at[i] = IF i = 0 THEN Step(h) ELSE Step(at[i - 1])
  BY DEF Goes
<1>5. CASE n = 0
  <2>1. Step(Place(h, 0)) = Place(h, 1) /\ Place(h, 0) = h
    BY <1>1, StepOnRing DEF Place
  <2> QED
    BY <1>4, <1>5, <2>1
<1>6. CASE n # 0
  <2>1. n - 1 \in 0..Len(lists[h]) /\ n - 1 \notin Bad
    BY <1>1, <1>3, <1>6
  <2>2. at[n - 1] = Place(h, n)
    BY <1>1, <2>1
  <2>3. Step(Place(h, n)) = Place(h, n + 1)
    BY StepOnRing
  <2> QED
    BY <1>1, <1>4, <1>6, <2>2, <2>3
<1> QED
  BY <1>5, <1>6

\* list_for_each reads off the list.
LEMMA WalkReadsList ==
  ASSUME ListsInv, ListsAssumption, NEW h \in Heads
  PROVE  list_for_each(h) = lists[h]
<1> DEFINE n == Len(lists[h])
           at == CHOOSE at : Goes(at, h)
           met == {k \in 0..(Cardinality(Entries) + 1) : \A i \in 0..k : at[i] # h}
<1>1. list_for_each(h) = [i \in 1..Cardinality(met) |-> at[i - 1]]
  BY DEF list_for_each, Goes, Step
<1>2. Goes(at, h)
  BY WalkExists
<1> HIDE DEF at
<1>3. \A i \in 0..n : at[i] = Place(h, i + 1)
  BY <1>2, WalkMeets
<1>4. n \in Nat /\ Cardinality(Entries) \in Nat /\ n <= Cardinality(Entries)
  BY ListLength
<1>5. at[n] = h /\ \A i \in 0..(n - 1) : at[i] = lists[h][i + 1] /\ at[i] # h
  BY <1>3, <1>4 DEF Place, ListsInv, TypeOK, ListsAssumption
<1>6. met = 0..(n - 1)
  BY <1>4, <1>5
<1>7. Cardinality(met) = n
  <2> HIDE DEF n, met
  <2>1. 0 \in Int /\ n - 1 \in Int
    BY <1>4
  <2>2. Cardinality(0..(n - 1)) = IF 0 > n - 1 THEN 0 ELSE (n - 1) - 0 + 1
    BY <2>1, FS_Interval
  <2> QED
    BY <1>4, <1>6, <2>2
<1>8. [i \in 1..n |-> at[i - 1]] = lists[h]
  BY <1>4, <1>5 DEF ListsInv, TypeOK
<1> QED
  BY <1>1, <1>7, <1>8

-----------------------------------------------------------------------------
\* The refinement mapping: in every reachable state the walks read off the
\* history variable, so a step on the history is the abstract step.
LEMMA WalksAreLists == ListsInv => Walks = lists
<1> SUFFICES ASSUME ListsInv
             PROVE  Walks = lists
  OBVIOUS
<1>1. \A h \in Heads : list_for_each(h) = lists[h]
  BY WalkReadsList, ListsAssumption
<1>2. lists = [h \in Heads |-> lists[h]]
  BY DEF ListsInv, TypeOK
<1> QED
  BY <1>1, <1>2 DEF Walks

\* Taking the i-th element out of a sequence.
LEMMA WithoutIsRemoveAt ==
  ASSUME NEW s \in Seq(Entries), NEW i \in 1..Len(s)
  PROVE  Without(s, i) = Abstract!RemoveAt(s, i)
<1> DEFINE n == Len(s)
           s1 == SubSeq(s, 1, i - 1)
           s2 == SubSeq(s, i + 1, n)
<1>1. n \in Nat /\ i \in Int /\ \A j \in 1..n : s[j] \in Entries
  OBVIOUS
<1>2. /\ s1 \in Seq(Entries) /\ Len(s1) = i - 1
      /\ \A j \in 1..(i - 1) : s1[j] = s[j]
  BY <1>1, SubSeqProperties
<1>3. /\ s2 \in Seq(Entries) /\ Len(s2) = n - i
      /\ \A j \in 1..(n - i) : s2[j] = s[i + j]
  <2> DEFINE a == i + 1
  <2>1. a \in Int /\ n \in Int /\ \A j \in a..n : s[j] \in Entries
    BY <1>1
  <2>2. /\ SubSeq(s, a, n) \in Seq(Entries)
        /\ Len(SubSeq(s, a, n)) = IF a <= n THEN n - a + 1 ELSE 0
        /\ \A j \in 1..(n - a + 1) : SubSeq(s, a, n)[j] = s[a + j - 1]
    BY <2>1, SubSeqProperties
  <2>3. a = i + 1 /\ s2 = SubSeq(s, a, n)
    OBVIOUS
  <2> HIDE DEF a, s2
  <2> QED
    BY <1>1, <2>2, <2>3
<1> HIDE DEF s1, s2
<1>4. /\ s1 \o s2 \in Seq(Entries)
      /\ Len(s1 \o s2) = n - 1
      /\ \A j \in 1..(n - 1) : (s1 \o s2)[j] = IF j < i THEN s[j] ELSE s[j + 1]
  <2>1. /\ s1 \o s2 \in Seq(Entries)
        /\ Len(s1 \o s2) = Len(s1) + Len(s2)
        /\ \A j \in 1..(Len(s1) + Len(s2)) :
             (s1 \o s2)[j] = IF j <= Len(s1) THEN s1[j] ELSE s2[j - Len(s1)]
    BY <1>2, <1>3, ConcatProperties
  <2>2. Len(s1) + Len(s2) = n - 1
    BY <1>1, <1>2, <1>3
  <2>3. ASSUME NEW j \in 1..(n - 1)
        PROVE  (s1 \o s2)[j] = IF j < i THEN s[j] ELSE s[j + 1]
    <3>1. (s1 \o s2)[j] = IF j <= i - 1 THEN s1[j] ELSE s2[j - (i - 1)]
      BY <1>2, <2>1, <2>2
    <3>2. CASE j < i
      BY <1>1, <1>2, <3>1, <3>2
    <3>3. CASE ~(j < i)
      <4>1. j - (i - 1) \in 1..(n - i) /\ i + (j - (i - 1)) = j + 1
        BY <1>1, <3>3
      <4> QED
        BY <1>1, <1>3, <3>1, <3>3, <4>1
    <3> QED
      BY <3>2, <3>3
  <2> QED
    BY <2>1, <2>2, <2>3
<1>5. Without(s, i) \in Seq(Entries) /\ Len(Without(s, i)) = n - 1
  BY <1>1 DEF Without
<1>6. \A j \in 1..(n - 1) : Without(s, i)[j] = (s1 \o s2)[j]
  BY <1>4 DEF Without
<1>7. Without(s, i) = s1 \o s2
  BY <1>4, <1>5, <1>6, SeqEqual
<1> QED
  BY <1>7 DEF Abstract!RemoveAt, s1, s2

\* Every call is the abstract operation of the same name, on the same list.
\* Taking the last element out leaves the front.
LEMMA FrontIsWithout ==
  ASSUME NEW s \in Seq(Entries), Len(s) \in 1..Len(s)
  PROVE  Without(s, Len(s)) = Abstract!Front(s)
<1> DEFINE n == Len(s)
           f == SubSeq(s, 1, n - 1)
<1>1. n \in Nat /\ \A j \in 1..n : s[j] \in Entries
  OBVIOUS
<1>2. /\ f \in Seq(Entries) /\ Len(f) = n - 1
      /\ \A j \in 1..(n - 1) : f[j] = s[j]
  <2>1. 1 \in Int /\ n - 1 \in Int /\ \A j \in 1..(n - 1) : s[j] \in Entries
    BY <1>1
  <2>2. /\ f \in Seq(Entries)
        /\ Len(f) = IF 1 <= n - 1 THEN (n - 1) - 1 + 1 ELSE 0
        /\ \A j \in 1..((n - 1) - 1 + 1) : f[j] = s[1 + j - 1]
    <3> HIDE DEF n
    <3> QED
      BY <2>1, SubSeqProperties
  <2>3. n - 1 \in Nat /\ (n - 1) - 1 + 1 = n - 1 /\ \A j \in Int : 1 + j - 1 = j
    BY <1>1
  <2> HIDE DEF n, f
  <2> QED
    BY <2>2, <2>3
<1> HIDE DEF f
<1>3. /\ Without(s, n) \in Seq(Entries) /\ Len(Without(s, n)) = n - 1
      /\ \A j \in 1..(n - 1) : Without(s, n)[j] = s[j]
  BY <1>1 DEF Without
<1>4. Without(s, n) = f
  BY <1>2, <1>3, SeqEqual
<1> QED
  BY <1>4 DEF f, Abstract!Front

LEMMA StepsImplement ==
  ASSUME ListsInv, [Next]_vars, Walks = lists, Walks' = lists'
  PROVE  [Abstract!AbsNext]_(Abstract!absVars)
<1>1. ASSUME NEW h \in Heads, NEW e \in Entries, Pushback(h, e)
      PROVE  Abstract!AbsPushback(h, e)
  BY <1>1 DEF Pushback, Linked, On, Abstract!AbsPushback, Abstract!Linked, Abstract!Contains
<1>2. ASSUME NEW h \in Heads, NEW k \in 1..Len(lists[h]),
             lists' = [lists EXCEPT ![h] = Without(@, k)]
      PROVE  lists' = [lists EXCEPT ![h] = Abstract!RemoveAt(@, k)]
  BY <1>2, WithoutIsRemoveAt DEF ListsInv, TypeOK
<1>3. ASSUME NEW h \in Heads, NEW e \in Entries, Remove(h, e)
      PROVE  Abstract!AbsRemove(e)
  <2>1. PICK k \in 1..Len(lists[h]) : k = Position(lists[h], e) /\ lists[h][k] = e
    BY <1>3 DEF Remove, On, Position
  <2>2. lists' = [lists EXCEPT ![h] = Without(@, k)] /\ ret' = ret
    BY <1>3, <2>1 DEF Remove
  <2>3. lists' = [lists EXCEPT ![h] = Abstract!RemoveAt(@, k)]
    BY <1>2, <2>2
  <2> QED
    BY <2>1, <2>2, <2>3 DEF Abstract!AbsRemove
<1>4. ASSUME NEW h \in Heads, Pop(h)
      PROVE  Abstract!AbsPop(h)
  <2>1. lists[h] = <<>> <=> Len(lists[h]) = 0
    BY DEF ListsInv, TypeOK
  <2>2. CASE list_empty(mem, h)
    <3>1. lists[h] = <<>> /\ ret' = NULL /\ lists' = lists
      BY <1>4, <2>1, <2>2, BackIsNewest, ListsAssumption DEF Pop
    <3> QED
      BY <3>1 DEF Abstract!AbsPop
  <2>3. CASE ~list_empty(mem, h)
    <3>1. /\ lists[h] # <<>> /\ ret' = lists[h][Len(lists[h])]
          /\ lists' = [lists EXCEPT ![h] = Without(@, Len(@))]
      BY <1>4, <2>1, <2>3, BackIsNewest, ListsAssumption DEF Pop
    <3>2. Without(lists[h], Len(lists[h])) = Abstract!Front(lists[h])
      BY FrontIsWithout, <2>3, BackIsNewest, ListsAssumption DEF ListsInv, TypeOK
    <3> QED
      BY <3>1, <3>2 DEF Abstract!AbsPop, Abstract!Last
  <2> QED
    BY <2>2, <2>3
<1>5. ASSUME NEW e \in Entries, Scribble(e)
      PROVE  UNCHANGED Abstract!absVars
  BY <1>5 DEF Scribble, Abstract!absVars
<1>6. CASE UNCHANGED vars
  BY <1>6 DEF vars, Abstract!absVars
<1> QED
  BY <1>1, <1>3, <1>4, <1>5, <1>6 DEF Next, Abstract!AbsNext

\* list.c implements its specification: what callers see of the lists by
\* walking them, and of list_pop by its result, are sequences changed as
\* ListsAbs says, whatever happens to unlinked memory.
THEOREM ListsImplementAbs == Spec => ImplementsListsAbs
<1> USE ListsAssumption
<1>1. Init => ListsInv
  BY InitInv
<1>2. ListsInv /\ [Next]_vars => ListsInv'
  BY NextInv
<1>3. ListsInv => Walks = lists
  BY WalksAreLists
<1>4. Init => Abstract!AbsInit
  BY <1>1, <1>3 DEF Init, Walks, Abstract!AbsInit
<1>5. ListsInv /\ [Next]_vars /\ Walks = lists /\ Walks' = lists'
        => [Abstract!AbsNext]_(Abstract!absVars)
  BY StepsImplement
<1>6. (Walks = lists)' <=> Walks' = lists'
  OBVIOUS
<1> QED
  BY <1>1, <1>2, <1>3, <1>4, <1>5, <1>6, PTL DEF Spec, ImplementsListsAbs, Abstract!AbsSpec
=============================================================================
