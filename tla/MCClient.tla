------------------------------ MODULE MCClient ------------------------------
(* Instances for TLC of the parts of the client: admins and an investor in the tab. *)
EXTENDS Client, MCRequestsPage

MCRoleOf       == [u \in TabUsers |-> IF u = "kid" THEN "investor" ELSE "admin"]
MCPublicPages  == {"signIn", "requestReset"}
MCSessionPages == {"signIn"}
=============================================================================
