------------------------- MODULE MCInstanceRegistry -------------------------
(* Instance of InstanceRegistry for TLC.  The values of the constants are  *)
(* in the .cfg files.                                                      *)
EXTENDS InstanceRegistry, Sequences

\* Interchangeable connections and instances are first used in this order; the
\* liveness property rules out TLC's symmetry sets.
ConnOrder == <<"c1", "c2", "c3">>
InstanceOrder == <<"i1", "i2", "i3">>

\* Two connections share a key, which may be revoked; the third has its own and may
\* be of an incompatible version.
KeyOf(c) == IF c = "c3" THEN "k2" ELSE "k1"
InstancesOf(c) == IF c = "c3" THEN Instance ELSE Instance \ Incompatible

UsedConn == {c \in Conn : phase[c] # "fresh"}
UsedInstance == {i \in Instance : records[i].state # "absent" \/ \E c \in Conn : inst[c] = i}

InOrder(order, before, after) ==
    \A k \in DOMAIN order : order[k] \in after \ before => \A j \in 1..(k - 1) : order[j] \in after

MCNext ==
    /\ RegistryNext
    /\ \A c \in Conn : keyOf'[c] \in {None, KeyOf(c)} /\ inst'[c] \in {None} \cup InstancesOf(c)
    /\ revoked' \subseteq {"k1"}
    /\ InOrder(ConnOrder, UsedConn, UsedConn')
    /\ InOrder(InstanceOrder, UsedInstance, UsedInstance')

MCSpec == RegistryInit /\ [][MCNext]_rvars /\ Heartbeats
=============================================================================
