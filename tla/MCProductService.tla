-------------------------- MODULE MCProductService --------------------------
(***************************************************************************)
(* Finite instances of ProductService.  a and A are two spellings of one   *)
(* key under utf8mb4_unicode_ci, b is another product.  Payload x has a    *)
(* price that a FLOAT keeps, y one that it rounds, to that of x.           *)
(***************************************************************************)
EXTENDS ProductServiceProofs, TLC

CONSTANTS a, A, b, x, y

MCRowOf == [i \in Id |-> IF i \in {a, A} THEN a ELSE i]
MCRow == {MCRowOf[i] : i \in Id}
MCStored == [q \in Payload |-> x]

\* Requests, pods, file names and the spellings of a key are interchangeable.
Symmetry ==
    Permutations(Req) \cup Permutations(Pod) \cup Permutations(File) \cup
    Permutations(Id \cap {a, A})
=============================================================================
