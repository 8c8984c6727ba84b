------------------------------- MODULE Lists -------------------------------
(***************************************************************************)
(* The kernel's lists at work: the heads and the entries are list_t's in   *)
(* memory, and the callers (buddy.c, page.c) push, remove and pop entries. *)
(*                                                                         *)
(* An entry lives inside the memory it links: a free block of the buddy    *)
(* allocator stores its list_t in its own first bytes.  While an entry is  *)
(* on no list that memory belongs to somebody else, who may write anything *)
(* there (Scribble): list.c may rely on the contents of linked entries     *)
(* only.                                                                   *)
(***************************************************************************)
EXTENDS Naturals, Sequences, FiniteSets, ListOps

CONSTANTS Heads,    \* addresses of the list heads
          Entries,  \* addresses of the list_t's that get linked
          Junk,     \* what an owner may leave in the memory of an unlinked entry
          NULL

VARIABLES mem,    \* the list_t stored at every address
          lists,  \* history: the entries pushed on each list and not yet taken off
          ret     \* what the last list_pop returned

vars == <<mem, lists, ret>>

Cells == Heads \cup Entries
Pointers == Cells \cup {NULL}
ListT == [prev : Pointers, next : Pointers]

ASSUME ListsAssumption ==
  /\ IsFiniteSet(Entries)
  /\ Heads \cap Entries = {}
  /\ NULL \notin Cells
  /\ Junk \subseteq ListT

On(h, e) == \E i \in 1..Len(lists[h]) : lists[h][i] = e
Linked(e) == \E h \in Heads : On(h, e)

\* The position of a linked entry, and a sequence without its i-th element.
Position(s, e) == CHOOSE i \in 1..Len(s) : s[i] = e
Without(s, i) == [j \in 1..(Len(s) - 1) |-> IF j < i THEN s[j] ELSE s[j + 1]]

-----------------------------------------------------------------------------
\* Every head is initialised by list_init, the entries hold whatever was there.
Init ==
  /\ \E junk \in [Entries -> Junk] :
       mem = [c \in Cells |-> IF c \in Heads THEN [prev |-> c, next |-> c] ELSE junk[c]]
  /\ lists = [h \in Heads |-> <<>>]
  /\ ret = NULL

Pushback(h, e) ==
  /\ ~Linked(e)
  /\ mem' = list_pushback(mem, h, e)
  /\ lists' = [lists EXCEPT ![h] = Append(@, e)]
  /\ UNCHANGED ret

\* The caller does not say which list the entry is on: list.c finds the
\* neighbours through the entry itself.
Remove(h, e) ==
  /\ On(h, e)
  /\ mem' = list_remove(mem, e)
  /\ lists' = [lists EXCEPT ![h] = Without(@, Position(@, e))]
  /\ UNCHANGED ret

Pop(h) ==
  \/ /\ list_empty(mem, h)
     /\ ret' = NULL
     /\ UNCHANGED <<mem, lists>>
  \/ /\ ~list_empty(mem, h)
     /\ ret' = list_back(mem, h)
     /\ mem' = list_pop(mem, h)
     /\ lists' = [lists EXCEPT ![h] = Without(@, Len(@))]

Scribble(e) ==
  /\ ~Linked(e)
  /\ \E junk \in Junk : mem' = [mem EXCEPT ![e] = junk]
  /\ UNCHANGED <<lists, ret>>

Next ==
  \/ \E h \in Heads, e \in Entries : Pushback(h, e) \/ Remove(h, e)
  \/ \E h \in Heads : Pop(h)
  \/ \E e \in Entries : Scribble(e)

Spec == Init /\ [][Next]_vars

-----------------------------------------------------------------------------
\* Types of the variables.
TypeOK ==
  /\ mem \in [Cells -> ListT]
  /\ lists \in [Heads -> Seq(Entries)]
  /\ ret \in Entries \cup {NULL}

\* An entry is on at most one list and at most once on it.
OneListEach ==
  \A h1, h2 \in Heads : \A i \in 1..Len(lists[h1]), j \in 1..Len(lists[h2]) :
    lists[h1][i] = lists[h2][j] => h1 = h2 /\ i = j

\* The address in the i-th place of the ring of h: the head in place 0, then
\* the entries in the order they were pushed, then the head again.
Place(h, i) == IF i \in 1..Len(lists[h]) THEN lists[h][i] ELSE h

\* The pointers of list.c spell out exactly the entries pushed and not yet
\* taken off: following next from a head meets them oldest first and comes
\* back to the head, following prev meets them newest first.  One wrong
\* assignment in list_pushback or list_remove, or an operation on one list
\* that disturbs another, breaks it, possibly several calls later.
Represents ==
  \A h \in Heads : \A i \in 0..Len(lists[h]) :
    /\ mem[Place(h, i)].next = Place(h, i + 1)
    /\ mem[Place(h, i + 1)].prev = Place(h, i)

\* list_pop hands out the entry that was pushed last on that list and is
\* still there; on an empty list it returns NULL and changes nothing.
PopTakesNewest ==
  [][\A h \in Heads : Pop(h) =>
       IF lists[h] = <<>> THEN ret' = NULL /\ UNCHANGED mem
       ELSE ret' = lists[h][Len(lists[h])]]_vars

-----------------------------------------------------------------------------
\* list_for_each(cursor, head): follow next from the head until it is met
\* again.  A ring that never comes back shows as a longer sequence than there
\* are entries.
list_for_each(h) ==
  LET step(x) == IF x = NULL THEN NULL ELSE mem[x].next
      at[i \in Nat] == IF i = 0 THEN step(h) ELSE step(at[i - 1])
      met == {n \in 0..(Cardinality(Entries) + 1) : \A i \in 0..n : at[i] # h}
  IN  [i \in 1..Cardinality(met) |-> at[i - 1]]

Walks == [h \in Heads |-> list_for_each(h)]

\* The lists of list.c implement the abstract lists: walking a ring reads off
\* the abstract sequence, and every call changes it as promised.
Abstract == INSTANCE ListsAbs WITH lists <- Walks
ImplementsListsAbs == Abstract!AbsSpec
=============================================================================
