---------------------------- MODULE MCWorkspace ----------------------------
(* Small instances of Workspace for TLC. *)
EXTENDS Workspace

CONSTANTS v1, v2, v3, f, g

\* Some files come before project.json, and some after it.
MCListing == << f, "json", g, "lock", "stray", "temp" >>
=============================================================================
