------------------------------ MODULE NodeRecord ------------------------------
(***************************************************************************)
(* The node object of CuemsNode.py, reduced to the fields the control flow *)
(* looks at.  A node is a dict; name, ip and port play no part here and    *)
(* the mac and the uuid never change, so they are left to the modules that *)
(* index nodes by them.                                                    *)
(*                                                                         *)
(* The field "typed" tells the two representations of node_type apart: the *)
(* member of the NodeType enumeration (TRUE), or the string "NodeType.x"   *)
(* that write_network_map leaves in the object (FALSE).  Every comparison  *)
(* in the code is with a member of the enumeration, so a node whose type   *)
(* is a string compares unequal to all of them.                            *)
(***************************************************************************)

Role == {"slave", "master", "firstrun"}

Node == [role : Role, typed : BOOLEAN, adopted : BOOLEAN, online : BOOLEAN]

\* Stands where no object is.
Blank == [role |-> "slave", typed |-> TRUE, adopted |-> FALSE, online |-> FALSE]

\* The object add_service and update_service build from the TXT record.
Announced(role) ==
    [role |-> role, typed |-> TRUE, adopted |-> FALSE, online |-> TRUE]

\* node.node_type == NodeType.role
HasRole(node, role) == node.typed /\ node.role = role

\* What write_network_map makes of an object, and what the file then holds.
Stringified(node) == [node EXCEPT !.typed = FALSE]

\* What read_network_map makes of an element of the file.
Normalised(row) == [row EXCEPT !.typed = TRUE]

\* The masters and firstruns properties of node_list, over the keys known.
WithRole(known, nodes, role) == {m \in known : HasRole(nodes[m], role)}
=============================================================================
