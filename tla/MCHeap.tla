------------------------------- MODULE MCHeap -------------------------------
(***************************************************************************)
(* Heap on an area of eight pages of eight words, with as many slabs as    *)
(* the buddy has levels, as in the kernel: the last one finds no new page. *)
(* Also as in the kernel, the cache of the smallest objects needs more     *)
(* than a page and the others do not.  The pages begin five words into     *)
(* pages of the processor.                                                 *)
(***************************************************************************)
EXTENDS Heap

MCShl == [k \in 0..Levels |-> 2^k]
MCObjSize == <<1, 2, 4, 8>>
=============================================================================
