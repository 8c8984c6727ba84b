------------------------------ MODULE ListOps ------------------------------
(***************************************************************************)
(* kernel/kernel/list.c: circular doubly linked lists threaded through the *)
(* memory of the things they link.                                         *)
(*                                                                         *)
(* A memory m maps the address of every list_t to the pair of pointers it  *)
(* holds.  Each operator takes the memory before the call and returns the  *)
(* memory after it.  EXCEPT applies its updates from left to right, so the *)
(* updates below happen in the order of the C assignments; that order      *)
(* matters when two of the addresses coincide (an entry pushed a second    *)
(* time on a list that still points at it).                                *)
(***************************************************************************)

\* list_init: an empty list points at itself in both directions.
list_init(m, lst) == [m EXCEPT ![lst].prev = lst, ![lst].next = lst]

\* list_empty: only the back pointer of the head is looked at.
list_empty_never(m, lst) == FALSE   \* faulty
list_empty(m, lst) == m[lst].prev = lst

\* list_pushback: link entry between the last entry and the head.
list_pushback_half(m, lst, entry) ==   \* faulty
  [m EXCEPT ![lst].prev = entry, ![entry].prev = m[lst].prev, ![entry].next = lst]

list_pushback(m, lst, entry) ==
  LET prev == m[lst].prev
  IN  [m EXCEPT ![prev].next = entry,
                ![lst].prev = entry,
                ![entry].prev = prev,
                ![entry].next = lst]

\* list_remove: unlink entry from its neighbours and leave it self-linked.
list_remove_self_first(m, entry) ==   \* faulty
  LET self == [m EXCEPT ![entry].next = entry, ![entry].prev = entry]
  IN  [self EXCEPT ![self[entry].prev].next = self[entry].next,
                   ![self[entry].next].prev = self[entry].prev]

list_remove(m, entry) ==
  LET prev == m[entry].prev
      next == m[entry].next
  IN  [m EXCEPT ![prev].next = next,
                ![next].prev = prev,
                ![entry].next = entry,
                ![entry].prev = entry]

\* list_pop takes the entry at the back of the list, which is the one pushed
\* last.  The caller has checked list_empty: list_pop returns NULL there.
list_front(m, lst) == m[lst].next   \* faulty
list_back(m, lst) == m[lst].prev
list_pop(m, lst) == list_remove(m, list_back(m, lst))
=============================================================================
