----------------------------- MODULE MCCatalog -----------------------------
(***************************************************************************)
(* Catalog for TLC: an empty catalog, and one that three rooms have        *)
(* already been seen in.                                                   *)
(***************************************************************************)
EXTENDS Catalog, TLC

CONSTANTS r1, r2, r3, a1, a2, a3

NoRecords == <<>>
ThreeRecords == <<<<r1, a1>>, <<r2, a2>>, <<r3, a3>>>>

\* Neither rooms nor addresses differ in anything but their name.
Symmetry == Permutations(Rooms) \cup Permutations(Addresses)

=============================================================================
