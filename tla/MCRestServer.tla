---------------------------- MODULE MCRestServer ----------------------------
(* Small instances of RestServer for TLC. *)
EXTENDS RestServer, TLC

\* Requests differ in nothing but their names.
MCSymmetry == Permutations(Requests)
=============================================================================
