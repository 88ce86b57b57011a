---------------------------- MODULE AtomicObject ----------------------------
(***************************************************************************)
(* What ZooKeeperClient promises of a large object: it is "Atomic like     *)
(* getSmallObject".  Values are identified by the order in which their     *)
(* writes began, 0 is the object that does not exist yet.                  *)
(***************************************************************************)
EXTENDS Naturals

CONSTANTS Writers, Readers, None

VARIABLES
    begun,      \* the number of writes that have begun
    value,      \* what the object holds
    writing,    \* Writers -> the value each is writing, 0 if none
    acked,      \* writes that have returned without an exception
    returned    \* Readers -> what the last read returned, None before it has

objectVars == << begun, value, writing, acked, returned >>

ObjectInit ==
    /\ begun = 0 /\ value = 0
    /\ writing = [ w \in Writers |-> 0 ]
    /\ acked = {}
    /\ returned = [ r \in Readers |-> None ]

BeginWriting(w) ==
    /\ writing[w] = 0
    /\ begun' = begun + 1
    /\ writing' = [ writing EXCEPT ![w] = begun + 1 ]
    /\ UNCHANGED << value, acked, returned >>

\* The write takes effect; those that began before it and have not are overtaken.
TakeEffect(w) ==
    /\ writing[w] > value
    /\ value' = writing[w]
    /\ UNCHANGED << begun, writing, acked, returned >>

EndWriting(w) ==
    /\ writing[w] # 0 /\ writing[w] <= value
    /\ acked' = acked \cup { writing[w] }
    /\ writing' = [ writing EXCEPT ![w] = 0 ]
    /\ UNCHANGED << begun, value, returned >>

\* An exception, or the end of the process: the write may have taken effect or not.
FailWriting(w) ==
    /\ writing' = [ writing EXCEPT ![w] = 0 ]
    /\ UNCHANGED << begun, value, acked, returned >>

BeginReading(r) ==
    /\ returned' = [ returned EXCEPT ![r] = None ]
    /\ UNCHANGED << begun, value, writing, acked >>

EndReading(r) ==
    /\ returned[r] = None
    /\ returned' = [ returned EXCEPT ![r] = value ]
    /\ UNCHANGED << begun, value, writing, acked >>

ObjectNext ==
    \/ \E w \in Writers :
          BeginWriting(w) \/ TakeEffect(w) \/ EndWriting(w) \/ FailWriting(w)
    \/ \E r \in Readers : BeginReading(r) \/ EndReading(r)

ObjectSpec == ObjectInit /\ [][ObjectNext]_objectVars

=============================================================================
