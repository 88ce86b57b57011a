------------------------- MODULE MCLauncherService -------------------------
(* Small instances of LauncherService for TLC. *)
EXTENDS LauncherService

\* The first version is retried for free while its failures are transient and once when
\* they are unknown, the second one never.
MCPolicy == [ v \in Versions |-> IF v = 1 THEN [ fancy |-> TRUE, max |-> 1 ]
                                          ELSE [ fancy |-> FALSE, max |-> 0 ] ]
=============================================================================
