------------------------------ MODULE MCBuddy ------------------------------
(***************************************************************************)
(* Buddy on areas of 8 pages (Levels = 4) for one holder and of 32 pages   *)
(* (Levels = 6) for several: wrong merges only come to hand out memory     *)
(* twice in a tree of six levels.  The kernel's areas have 128 pages.      *)
(***************************************************************************)
EXTENDS Buddy

MCShl == [k \in 0..Levels |-> 2^k]
=============================================================================
