------------------------------- MODULE MCBoot -------------------------------
(***************************************************************************)
(* A machine on which every step of the boot is reached, and others that   *)
(* differ from it in one respect.                                          *)
(***************************************************************************)
EXTENDS Boot

MCFeatures == {"cpuid", "extleaf", "apic", "mtrr", "pat"}

Full == [longmode |-> TRUE, magic |-> TRUE, features |-> MCFeatures, huge |-> TRUE, pairs |-> 10,
         pmax |-> 39, apic |-> ApicBase, info |-> {0}, memory |-> {0}, fits |-> TRUE]

MCMachines ==
  {Full, [Full EXCEPT !.longmode = FALSE], [Full EXCEPT !.magic = FALSE],
   [Full EXCEPT !.huge = FALSE], [Full EXCEPT !.pairs = 8],
   [Full EXCEPT !.info = {1, 2}], [Full EXCEPT !.memory = {0, 1}], [Full EXCEPT !.fits = FALSE],
   [Full EXCEPT !.pmax = 52, !.apic.high = {1}], [Full EXCEPT !.apic.low = "D0000"]}
  \cup {[Full EXCEPT !.features = MCFeatures \ {f}] : f \in MCFeatures}
=============================================================================
