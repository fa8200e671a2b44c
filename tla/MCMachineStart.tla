--------------------------- MODULE MCMachineStart ---------------------------
(* A machine with one internal address, which both announce their wifi too. *)
EXTENDS MachineStart

MCLink == {"internal"}

MCAddrOf == [m \in Mac |-> IF m = Self THEN {"internal", "wifi"} ELSE {"other", "wifi"}]
=============================================================================
