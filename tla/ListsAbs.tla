----------------------------- MODULE ListsAbs ------------------------------
(***************************************************************************)
(* What the lists of list.c promise their callers, with no pointers: every *)
(* list is a sequence, an entry is on at most one of them, list_pushback   *)
(* appends, list_pop takes the newest entry, list_remove takes an entry    *)
(* out of the middle of whatever list it is on.                            *)
(***************************************************************************)
EXTENDS Sequences, SequencesExt

CONSTANTS Heads, Entries, NULL

VARIABLES lists,  \* the contents of every list, oldest entry first
          ret     \* what the last list_pop returned

absVars == <<lists, ret>>

Linked(e) == \E h \in Heads : Contains(lists[h], e)

AbsInit ==
  /\ lists = [h \in Heads |-> <<>>]
  /\ ret = NULL

AbsPushback(h, e) ==
  /\ ~Linked(e)
  /\ lists' = [lists EXCEPT ![h] = Append(@, e)]
  /\ UNCHANGED ret

AbsRemove(e) ==
  /\ \E h \in Heads : \E i \in 1..Len(lists[h]) :
       /\ lists[h][i] = e
       /\ lists' = [lists EXCEPT ![h] = RemoveAt(@, i)]
  /\ UNCHANGED ret

AbsPop(h) ==
  \/ /\ lists[h] = <<>>
     /\ ret' = NULL
     /\ UNCHANGED lists
  \/ /\ lists[h] # <<>>
     /\ ret' = Last(lists[h])
     /\ lists' = [lists EXCEPT ![h] = Front(@)]

AbsNext ==
  \/ \E h \in Heads, e \in Entries : AbsPushback(h, e)
  \/ \E e \in Entries : AbsRemove(e)
  \/ \E h \in Heads : AbsPop(h)

AbsSpec == AbsInit /\ [][AbsNext]_absVars
=============================================================================
