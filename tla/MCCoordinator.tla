--------------------------- MODULE MCCoordinator ---------------------------
(* Two rounds over three endpoints in tasks of two positions.  The second  *)
(* round sweeps in another order, as a new round seed makes it do; one     *)
(* endpoint is open, one closed and one silent.                            *)
EXTENDS Coordinator

MCPerm == [r \in Round |-> [o \in Endpoint |-> (o + r) % N]]

MCResult ==
    [e \in Endpoint |->
        [state  |-> CASE e % 3 = 0 -> "open"
                      [] e % 3 = 1 -> "no_response"
                      [] e % 3 = 2 -> "closed",
         banner |-> IF e % 3 = 0 THEN "ok" ELSE "none",
         conflicts |-> 0]]

=============================================================================
