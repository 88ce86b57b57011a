------------------------ MODULE MCLauncherRequests ------------------------
(* Small instances of LauncherRequests for TLC. *)
EXTENDS LauncherRequests

CONSTANTS f1, f2, f3, m1

\* f3 is a child of f2 and f2 a child of f1, which go with their parents in every way.
MCParentOf(f) ==
    [ name |-> IF f = f3 THEN f2 ELSE f1, deleteOnParentDeleted |-> TRUE,
      stopOnParentStopped |-> TRUE ]

MCFamily ==
    [ f \in Frameworks |-> IF f = f1 THEN { None } ELSE { MCParentOf(f) } ]

\* f1 may be stopped with f2 too.
MCCycle ==
    [ MCFamily EXCEPT ![f1] = @ \cup
        { [ name |-> f2, deleteOnParentDeleted |-> FALSE, stopOnParentStopped |-> TRUE ] } ]

=============================================================================
