------------------------------ MODULE RoleLedger ------------------------------
(***************************************************************************)
(* What the role assignment promises of one machine, whatever happens on   *)
(* the LAN and however often its process is cut short.                     *)
(***************************************************************************)

VARIABLES
    role,  \* what its service file says
    led,   \* some other machine is or has been master
    reset  \* changes its value with every reset by the operator

Init == role \in {"slave", "master", "firstrun"} /\ led \in BOOLEAN

Lead == role = "firstrun" /\ role' = "master" /\ UNCHANGED reset

\* A slave has had a master before it became one.
Follow == role = "firstrun" /\ led /\ role' = "slave" /\ UNCHANGED reset

Reset == role' = "firstrun" /\ reset' # reset

\* The rest of the LAN; what was led stays so.
Others == UNCHANGED role

Next == (Lead \/ Follow \/ Reset \/ Others) /\ (led => led')

Spec == Init /\ [][Next]_<<role, led, reset>>
=============================================================================
