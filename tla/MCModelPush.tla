---------------------------- MODULE MCModelPush ----------------------------
(* Small instances of ModelPush for TLC. *)
EXTENDS ModelPush

CONSTANTS p1, p2, a, b

\* p1 pushes a file of three blocks; p2 the same file as one block, and an empty one.
MCListed == [ p \in Pushes |-> IF p = p1 THEN { a } ELSE { a, b } ]
MCBlocks == [ p \in Pushes |-> [ f \in Files |-> IF f = b THEN 0 ELSE IF p = p1 THEN 3 ELSE 1 ] ]
=============================================================================
