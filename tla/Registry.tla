------------------------------ MODULE Registry ------------------------------
(***************************************************************************)
(* What the admin server promises the nodes that poll it: a table of       *)
(* registered nodes and a logical clock that moves with every change of    *)
(* the table.  A registration is named by the clock value it was given     *)
(* (core.PeerNode.LogicalTime), which stays with the node until it leaves  *)
(* or registers again.  A restart of the server forgets the table and the  *)
(* clock; epoch counts the restarts.                                       *)
(*                                                                         *)
(* AdminServer implements this specification; Discovery uses it.           *)
(***************************************************************************)
EXTENDS Naturals

CONSTANT Node

VARIABLES
    clock,      \* Server.logicalTime
    members,    \* LogicalTime of each registered node, 0 for the others
    epoch       \* how often the server has started

registryVars == <<clock, members, epoch>>

Absent == [n \in Node |-> 0]

RegistryInit ==
    /\ clock = 0
    /\ members = Absent
    /\ epoch = 1

Join(n) ==
    /\ clock' = clock + 1
    /\ members' = [members EXCEPT ![n] = clock + 1]
    /\ UNCHANGED epoch

Leave(n) ==
    /\ members[n] # 0
    /\ clock' = clock + 1
    /\ members' = [members EXCEPT ![n] = 0]
    /\ UNCHANGED epoch

ServerRestart ==
    /\ clock' = 0
    /\ members' = Absent
    /\ epoch' = epoch + 1

RegistryNext ==
    \/ \E n \in Node : Join(n) \/ Leave(n)
    \/ ServerRestart

RegistrySpec == RegistryInit /\ [][RegistryNext]_registryVars
=============================================================================
