----------------------------- MODULE MCPractice -----------------------------
(***************************************************************************)
(* File p is a JPEG, n has no extension and is taken for one: they replace *)
(* each other.  a and A are two spellings of one row, with two keys.       *)
(***************************************************************************)
EXTENDS PracticeProduct, TLC

CONSTANTS a, A, x, y, p, n, jpg

MCRow == {a}
MCRowOf == [i \in Id |-> a]
MCExtension == [f \in File |-> IF f = n THEN NoExt ELSE jpg]
MCStored == [w \in Payload |-> x]

\* Requests and pods are interchangeable.
Symmetry == Permutations(Req) \cup Permutations(Pod)

=============================================================================
