-------------------------- MODULE MCInfrastructure --------------------------
(* A small instance of Infrastructure: refreshes from one address.  Logins   *)
(* do the same with two keys in place of one.                                *)
EXTENDS Infrastructure

MCKey == {"ip"}
MCAttempt == {<<"ip">>}
MCThreshold == [k \in MCKey |-> 2]
=============================================================================
