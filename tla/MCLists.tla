------------------------------ MODULE MCLists ------------------------------
(***************************************************************************)
(* Two lists over three entries.                                           *)
(***************************************************************************)
EXTENDS Lists

CONSTANTS h1, h2, e1, e2, e3

\* Unlinked memory: zeroed by memset, still pointing at a list it was taken
\* from, or pointing into the middle of other entries.
MCJunk == {[prev |-> NULL, next |-> NULL],
           [prev |-> h1, next |-> e2],
           [prev |-> e1, next |-> h2]}
=============================================================================
