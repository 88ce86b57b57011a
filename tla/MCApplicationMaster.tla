------------------------ MODULE MCApplicationMaster ------------------------
(* Small instances of ApplicationMaster for TLC. *)
EXTENDS ApplicationMaster, TLC

CONSTANTS r1, r2, c1, c2, c3, h1, h2

MCOneHost   == [ c \in Containers |-> h1 ]
MCTwoHosts  == [ c \in Containers |-> IF c = c2 THEN h2 ELSE h1 ]
MCSamePorts == [ c \in Containers |-> 1 ]
MCTwoPorts  == [ c \in Containers |-> IF c = c3 THEN 2 ELSE 1 ]

\* Task numbers a user asks for.
MCOneEach   == { [ r \in Roles |-> 1 ] }
MCTwoEach   == { [ r \in Roles |-> 2 ] }
MCNoneOrOne == { [ r \in Roles |-> n ] : n \in 0 .. 1 }

\* Where neither host nor ports tell two containers apart, and the roles are alike.
MCSymmetry == Permutations(Containers) \cup Permutations(Roles)

\* Without restarts and users only the last push before the AM unregisters looks at
\* what is on ZooKeeper, so the rest of the state stands for the whole of it.
MCMemory == << memVars, extVars, reqVars, allocated, gangVars, amVars, envVars, cntVars >>
=============================================================================
